----------------------------- MODULE ReplyStream -----------------------------
(****************************************************************************)
(* What the server promises the peer of a connection, whatever buffers,     *)
(* lists and passes of the event loop lie between the two: a connection is  *)
(* opened once, closed once, and in between requests are answered in order, *)
(* each at most once, and only after they have been asked.                  *)
(****************************************************************************)
EXTENDS Integers

CONSTANT Conns

VARIABLES phase, asked, answered

svars == <<phase, asked, answered>>

Init ==
  /\ phase = [c \in Conns |-> "new"]
  /\ asked = [c \in Conns |-> 0]
  /\ answered = [c \in Conns |-> 0]

Open(c) ==
  /\ phase[c] = "new"
  /\ phase' = [phase EXCEPT ![c] = "open"]
  /\ UNCHANGED <<asked, answered>>

\* The peer does not know yet that the server has closed.
Ask(c) ==
  /\ phase[c] # "new"
  /\ asked' = [asked EXCEPT ![c] = @ + 1]
  /\ UNCHANGED <<phase, answered>>

\* Replies leave the server, one or several at a time.
Answer(c) ==
  /\ phase[c] = "open"
  /\ \E n \in (answered[c] + 1)..asked[c] : answered' = [answered EXCEPT ![c] = n]
  /\ UNCHANGED <<phase, asked>>

\* The server ends some connections (one command may end several).
Close(S) ==
  /\ \A c \in S : phase[c] = "open"
  /\ phase' = [c \in Conns |-> IF c \in S THEN "closed" ELSE phase[c]]
  /\ UNCHANGED <<asked, answered>>

Next ==
  \/ \E c \in Conns : Open(c) \/ Ask(c) \/ Answer(c)
  \/ \E S \in SUBSET Conns : Close(S)

Spec == Init /\ [][Next]_svars
=============================================================================
