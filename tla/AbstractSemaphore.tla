-------------------------- MODULE AbstractSemaphore --------------------------
(***************************************************************************)
(* What the outbound limiter promises to the transport that calls it: a    *)
(* pool of Limit permits, a first-come first-served line of at most        *)
(* QueueLimit callers, and a returned permit handed straight to the head   *)
(* of the line.                                                            *)
(***************************************************************************)
EXTENDS Integers, Sequences, FiniteSets

CONSTANTS Callers, Limit, QueueLimit

VARIABLES
  holders,  \* the callers with a permit
  line      \* the callers waiting, in order of arrival

absVars == <<holders, line>>

Init == holders = {} /\ line = <<>>

InLine(c) == \E i \in 1..Len(line) : line[i] = c

Take(c) ==
  /\ c \notin holders /\ ~InLine(c)
  /\ line = <<>>
  /\ Cardinality(holders) < Limit
  /\ holders' = holders \cup {c}
  /\ UNCHANGED line

JoinLine(c) ==
  /\ c \notin holders /\ ~InLine(c)
  /\ Cardinality(holders) = Limit
  /\ Len(line) < QueueLimit
  /\ line' = Append(line, c)
  /\ UNCHANGED holders

\* A returned permit is handed over without becoming free in between.
GiveBack(c) ==
  /\ c \in holders
  /\ IF line = <<>>
     THEN holders' = holders \ {c} /\ UNCHANGED line
     ELSE holders' = (holders \ {c}) \cup {Head(line)} /\ line' = Tail(line)

Next == \E c \in Callers : Take(c) \/ JoinLine(c) \/ GiveBack(c)

\* A permit is given back in the end.
Spec == Init /\ [][Next]_absVars
             /\ \A c \in Callers : WF_absVars(GiveBack(c))
=============================================================================
