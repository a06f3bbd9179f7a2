----------------------------- MODULE MCChannel -----------------------------
EXTENDS Channel

\* Requests that fit a window of two, exceed it by one frame and by more.  Echoed
\* through windows of two and a buffer of one, <<2, 2, 2>> is the largest that gets
\* through (its last frame needs one unit only) and <<2, 3, 1>> the smallest that does not.
MCFrames == {<<>>, <<3>>, <<1, 3>>, <<2, 2, 2>>, <<2, 3, 1>>}

MCBodies ==
  [frames : MCFrames, end : {"none", "error"}, interactive : {FALSE}]
    \cup {[frames |-> <<1>>, end |-> "trailers", interactive |-> FALSE]}

MCChat == [frames : {<<1>>, <<1, 1>>}, end : {"none"}, interactive : {TRUE, FALSE}]
=============================================================================
