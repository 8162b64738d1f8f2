--------------------------- MODULE DriveSessions ---------------------------
(***************************************************************************)
(* The session table of drive/session.go.  A session is attached to a      *)
(* connection generation or detached, owns an outcome ledger, and leaves   *)
(* the table when it expires or is revoked.  A session's slot in Sessions  *)
(* is used once: the identities of the code are random and never reused.   *)
(***************************************************************************)
EXTENDS Integers, FiniteSets, Ledger

CONSTANTS Sessions,     \* session identities
          MaxSessions,  \* maxSessions, the bound of the table
          MaxGen        \* bound: connection generations of a session

(* A session starts in generation 1.                                       *)
ASSUME SessionAssumption == MaxSessions \in Nat /\ MaxGen \in Nat \ {0}

VARIABLES
  state,   \* session -> "none", "attached", "detached" or "gone"
  gen,     \* session -> its connection generation
  ledger   \* session -> its outcome ledger

sessionVars == <<state, gen, ledger>>

SessionsInit ==
  /\ state = [s \in Sessions |-> "none"]
  /\ gen = [s \in Sessions |-> 0]
  /\ ledger = [s \in Sessions |-> NewLedger]

InTable(s) == state[s] \in {"attached", "detached"}

(* Create: a new session is attached to generation 1.                      *)
CreateSession(s) ==
  /\ state[s] = "none"
  /\ Cardinality({x \in Sessions : InTable(x)}) < MaxSessions
  /\ state' = [state EXCEPT ![s] = "attached"]
  /\ gen' = [gen EXCEPT ![s] = 1]
  /\ UNCHANGED ledger

(* WithAttachedGeneration: the test an admission and an activation make.   *)
Attached(s, g) == state[s] = "attached" /\ gen[s] = g

(* Resume: the next generation takes the session, whether or not the old   *)
(* connection has been noticed to be gone.                                 *)
AttachSession(s) ==
  /\ InTable(s)
  /\ gen[s] < MaxGen
  /\ state' = [state EXCEPT ![s] = "attached"]
  /\ gen' = [gen EXCEPT ![s] = @ + 1]
  /\ UNCHANGED ledger

(* DetachGeneration: an end of file of an older generation does nothing.   *)
DetachGeneration(s, g) ==
  /\ state' = [state EXCEPT ![s] = IF Attached(s, g) THEN "detached" ELSE @]
  /\ UNCHANGED <<gen, ledger>>

(* The session leaves the table and takes its retained outcomes along.     *)
RemoveSession(s) ==
  /\ state' = [state EXCEPT ![s] = "gone"]
  /\ ledger' = [ledger EXCEPT ![s] = [NewLedger EXCEPT !.highWater = ledger[s].highWater]]
  /\ UNCHANGED gen

(* Resume of a session that was detached for longer than its recovery TTL  *)
(* refuses and removes it.  (Sweep does so for every session at once, but  *)
(* nothing outside the tests calls it.)                                    *)
ExpireSession(s) == state[s] = "detached" /\ RemoveSession(s)
=============================================================================
