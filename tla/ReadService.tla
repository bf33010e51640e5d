----------------------------- MODULE ReadService -----------------------------
(***************************************************************************)
(* What ChunkProvider::read_chunk promises its callers, the FUSE threads,  *)
(* without a word on how chunks are cached: a call that was made is        *)
(* answered once, with the bytes of the chunk it asked for, or with an     *)
(* error, and an error only after the backing store or the network refused *)
(* a load made on behalf of this very call (another caller's bad luck is   *)
(* never passed on).                                                       *)
(***************************************************************************)
CONSTANTS Threads, Chunks, None, Error

VARIABLES
  pending,   \* pending[t]: the chunk t is waiting for, None if t is not in a call
  refused,   \* the threads whose own load was refused in the current call
  answer     \* answer[t]: what the last finished call of t returned

vars == <<pending, refused, answer>>

Init ==
  /\ pending = [t \in Threads |-> None]
  /\ refused = {}
  /\ answer = [t \in Threads |-> None]

Ask(t) ==
  /\ pending[t] = None
  /\ \E i \in Chunks : pending' = [pending EXCEPT ![t] = i]
  /\ answer' = [answer EXCEPT ![t] = None]
  /\ UNCHANGED refused

Refuse(t) ==
  /\ pending[t] # None
  /\ refused' = refused \cup {t}
  /\ UNCHANGED <<pending, answer>>

Serve(t) ==
  /\ pending[t] # None
  /\ answer' = [answer EXCEPT ![t] = pending[t]]
  /\ pending' = [pending EXCEPT ![t] = None]
  /\ UNCHANGED refused

Fail(t) ==
  /\ pending[t] # None
  /\ t \in refused
  /\ answer' = [answer EXCEPT ![t] = Error]
  /\ pending' = [pending EXCEPT ![t] = None]
  /\ refused' = refused \ {t}

Next == \E t \in Threads : Ask(t) \/ Refuse(t) \/ Serve(t) \/ Fail(t)

Spec == Init /\ [][Next]_vars
=============================================================================
