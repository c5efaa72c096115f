---------------------------- MODULE MCAsyncTrainer ----------------------------
EXTENDS AsyncTrainer

AllModes == [forceSync : BOOLEAN, partial : BOOLEAN, onPolicy : BOOLEAN, queueSize : 1 .. 2]
Default  == [forceSync : {FALSE}, partial : {FALSE}, onPolicy : {FALSE}, queueSize : {1}]
===============================================================================
