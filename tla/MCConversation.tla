---------------------------- MODULE MCConversation -----------------------------
EXTENDS Learning

Shape(thinks, says, calls, finish, ends) ==
  [thinks |-> thinks, says |-> says, calls |-> calls, finish |-> finish, ends |-> ends]

\* a thought and a text that begins with a newline; a thought and a call; a text
\* and two calls; a thought cut off; a text ended by a stop string
MCShapes == {Shape(TRUE, "ntext", <<>>, "stop", TRUE),
             Shape(TRUE, "", <<"read">>, "tool_calls", TRUE),
             Shape(FALSE, "text", <<"shell", "read">>, "tool_calls", TRUE),
             Shape(TRUE, "", <<>>, "length", FALSE),
             Shape(FALSE, "text", <<>>, "stop", FALSE)}

MCServers == {[keeps |-> TRUE, limit |-> 99], [keeps |-> FALSE, limit |-> 99],
              [keeps |-> TRUE, limit |-> 9]}

MCMaxLengths == {<<99, 99>>, <<20, 99>>, <<99, 12>>}
MCRewardLists == {<<1>>, <<1, 0, 0>>}
\* every surrogate, with one clip, and every correction; and every aggregation
ClipOf(mode) == [low |-> 1, high |-> IF mode = "cispo" THEN 5 ELSE 1,
                 dual |-> IF mode = "ppo" THEN 8 ELSE 0]
Setting(agg, mode, level, gate) ==
  [agg |-> agg, mode |-> mode, clip |-> ClipOf(mode),
   is |-> [level |-> level, mode |-> gate, low |-> -1, high |-> 1]]
Corrections == {<<"off", "mask">>, <<"token", "mask">>, <<"token", "clip">>, <<"token", "trunc">>,
                <<"seq", "mask">>, <<"geo", "mask">>}
MCLossSettings ==
  {Setting("token-mean", mode, c[1], c[2]) : mode \in {"ppo", "gspo", "cispo"}, c \in Corrections}
  \union {Setting("seq-mean-token-mean", "dppo", "off", "mask"),
          Setting("seq-mean-token-sum", "ppo", "off", "mask")}
================================================================================
