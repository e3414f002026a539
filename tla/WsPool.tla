------------------------------- MODULE WsPool -------------------------------
(***************************************************************************)
(* The pool of ready WebSockets of one data centre (tgproxy/pool.py        *)
(* 19-232): clients take sockets from it, a refill task connects new ones, *)
(* a rotation task drops those that are too old or that the peer closed.   *)
(* All run on one event loop: an action is what runs between two awaits.   *)
(***************************************************************************)
EXTENDS Naturals, SequencesExt, Listing

CONSTANTS Socket,    \* bound: the sockets there are at a time
          PoolSize   \* proxy_config.pool_size

ASSUME PoolAssumption == PoolSize \in Nat \ {0} /\ IsFiniteSet(Socket)

VARIABLES where,    \* socket -> "unused", "connecting", "made" (its task is done), "idle",
                    \* "stale" (idle and too old, or closed by the peer: _is_stale),
                    \* "client" or "closing" (_quiet_close was scheduled)
          bucket,   \* self._idle[key]
          refill,   \* the refill task: "none", "created", "running" or "unwinding"
          rotating, \* the rotation task is there
          backoff,  \* self._refill_after[key] is in the future
          connected \* local of _refill: one attempt has succeeded

poolVars == <<where, bucket, refill, rotating, backoff, connected>>

PoolInit == /\ where = [s \in Socket |-> "unused"] /\ bucket = <<>>
            /\ refill = "none" /\ rotating = FALSE /\ backoff = FALSE /\ connected = FALSE

At(p) == {s \in Socket : where[s] = p}
Move(set, p) == [s \in Socket |-> IF s \in set THEN p ELSE where[s]]
Fresh(s) == where[s] = "idle"

(* _schedule_refill: one refill and one rotation at a time, no refill during the backoff. *)
Scheduled == /\ rotating' = TRUE
             /\ refill' = IF refill = "none" /\ ~backoff THEN "created" ELSE refill

(* get: the first socket that is not stale; those before it are closed.  got is the
   socket, or the set of sockets is empty and the client goes without. *)
Got == LET i == SelectInSeq(bucket, Fresh) IN IF i = 0 THEN {} ELSE {bucket[i]}

Get == LET i == SelectInSeq(bucket, Fresh)
           n == IF i = 0 THEN Len(bucket) ELSE i
       IN /\ bucket' = SubSeq(bucket, n + 1, Len(bucket))
          /\ where' = [s \in Socket |-> IF s \in Got THEN "client"
                                        ELSE IF \E k \in 1..n : bucket[k] = s THEN "closing"
                                        ELSE where[s]]
          /\ Scheduled /\ UNCHANGED <<backoff, connected>>

Warmup == Scheduled /\ UNCHANGED <<where, bucket, backoff, connected>>
-----------------------------------------------------------------------------
(* As many attempts as the bucket lacks now; a refill is never created for a full bucket. *)
RefillBegin == /\ refill = "created" /\ refill' = "running" /\ connected' = FALSE
               /\ \E new \in SUBSET At("unused") :
                     /\ Cardinality(new) = PoolSize - Len(bucket) /\ where' = Move(new, "connecting")
               /\ UNCHANGED <<bucket, rotating, backoff>>

(* _connect_one tried every domain in both modes: it has a socket, or none. *)
ConnectEnds(s) == /\ where[s] = "connecting"
                  /\ where' \in {[where EXCEPT ![s] = "made"], [where EXCEPT ![s] = "unused"]}
                  /\ UNCHANGED <<bucket, refill, rotating, backoff, connected>>

Adopt(s) == /\ refill = "running" /\ where[s] = "made"
            /\ where' = [where EXCEPT ![s] = "idle"] /\ bucket' = Append(bucket, s)
            /\ connected' = TRUE
            /\ UNCHANGED <<refill, rotating, backoff>>

(* All attempts are over: none succeeded means to wait. *)
RefillEnd == /\ refill = "running" /\ At("connecting") \cup At("made") = {}
             /\ refill' = "none" /\ backoff' = ~connected
             /\ UNCHANGED <<where, bucket, rotating, connected>>

(* Mutant: a cancelled refill leaves what its tasks have already connected. *)
UnwindCarelessly == /\ refill = "unwinding" /\ refill' = "none"
                    /\ where' = Move(At("connecting"), "unused")
                    /\ UNCHANGED <<bucket, rotating, backoff, connected>>

(* finally: the attempts that run are cancelled, the sockets nobody adopted are closed. *)
Unwind == /\ refill = "unwinding" /\ refill' = "none"
          /\ where' = Move(At("connecting") \cup At("made"), "unused")
          /\ UNCHANGED <<bucket, rotating, backoff, connected>>

Rotate == /\ rotating
          /\ bucket' = Kept(bucket, At("idle"))
          /\ where' = Move(At("stale"), "closing")
          /\ IF Len(bucket') < PoolSize THEN Scheduled ELSE UNCHANGED <<refill, rotating>>
          /\ UNCHANGED <<backoff, connected>>

QuietClose(s) == /\ where[s] = "closing" /\ where' = [where EXCEPT ![s] = "unused"]
                 /\ UNCHANGED <<bucket, refill, rotating, backoff, connected>>

(* Time passes, or the peer closes. *)
Stales(s)  == /\ where[s] = "idle" /\ where' = [where EXCEPT ![s] = "stale"]
              /\ UNCHANGED <<bucket, refill, rotating, backoff, connected>>
Elapses  == /\ backoff /\ backoff' = FALSE
            /\ UNCHANGED <<where, bucket, refill, rotating, connected>>

(* reset, from close: both tasks are cancelled, the idle sockets are closed. *)
Reset == /\ bucket' = <<>> /\ where' = Move(At("idle") \cup At("stale"), "unused")
         /\ refill' = IF refill = "running" THEN "unwinding" ELSE "none"
         /\ rotating' = FALSE /\ backoff' = FALSE
         /\ UNCHANGED <<connected>>

PoolStep == \/ RefillBegin \/ RefillEnd \/ Unwind \/ Rotate \/ Elapses
            \/ \E s \in Socket : ConnectEnds(s) \/ Adopt(s) \/ QuietClose(s) \/ Stales(s)
-----------------------------------------------------------------------------
(* Types. *)
PoolTypeOK == /\ where \in [Socket -> {"unused", "connecting", "made", "idle", "stale", "client", "closing"}]
              /\ bucket \in Seq(Socket)
              /\ refill \in {"none", "created", "running", "unwinding"}

(* The pool never holds, or is about to hold, more sockets than pool_size, whatever
   clients took from it while the attempts ran. *)
PoolIsBounded == Len(bucket) + Cardinality(At("connecting") \cup At("made")) <= PoolSize
=============================================================================
