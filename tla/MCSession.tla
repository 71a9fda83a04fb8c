----------------------------- MODULE MCSession -----------------------------
EXTENDS EpisodeReplay

\* A small stage: three cells, each taken once.  Taking cell 2 finishes a slot,
\* three moves or two steps of the clock finish all, and no slot may act once
\* cell 3 is taken - a rule set that forgot to end the game.
Cells == 1 .. 3
MCLegal(w, s, a) == \A i \in DOMAIN w.moves : w.moves[i][2] # a
MCFinished(w) ==
  IF Len(w.moves) >= 3 \/ w.steps >= 2
    THEN Slots
    ELSE { s \in Slots : \E i \in DOMAIN w.moves : w.moves[i] = << s, 2 >> }
MCActing(w) ==
  IF \E i \in DOMAIN w.moves : w.moves[i][2] = 3 THEN {} ELSE Slots
=============================================================================
