------------------------------ MODULE NonceHwm ------------------------------
(***************************************************************************)
(* Who may sign, and with which nonce: the single-writer lock and the      *)
(* durable nonce high-water mark (src/src/lock.rs), and the counter of     *)
(* HlClient they seed (src/src/client.rs).                                 *)
(*                                                                         *)
(* Every process of one network and agent works on the same lock file and  *)
(* the same mark file.  The wall clock is read afresh by each call and may *)
(* show any time of `Times`: it may stand still or step back.              *)
(***************************************************************************)
EXTENDS Integers

CONSTANTS
    Procs,        \* live processes of one network and agent
    NoProc,       \* the lock is free
    Times,        \* readings of the wall clock, in ms
    MaxNonce      \* bound: no nonce beyond it is minted

ASSUME NoProcFresh == NoProc \notin Procs
ASSUME TimesNat == Times \subseteq Nat
ASSUME MaxNonceNat == MaxNonce \in Nat

VARIABLES
    lock,     \* the process holding the flock, or NoProc
    pc,       \* [Procs -> stage]
    mark,     \* [Procs -> Nat]: NonceHwm::current
    last,     \* [Procs -> Nat]: HlClient::last_nonce
    disk,     \* the persisted mark; 0 when there is no file
    used,     \* nonces signed into a request
    twice,    \* nonces signed into a second one
    lost,     \* nonces that were used, and above the mark when a process ended
    missed    \* a write of the mark has failed

vars == <<lock, pc, mark, last, disk, used, twice, lost, missed>>

Nonces == 0..MaxNonce
Stages == {"off", "locked", "ready", "minted", "signing"}

(* Every variable is in its domain. *)
TypeOK ==
    /\ lock \in Procs \cup {NoProc}
    /\ pc \in [Procs -> Stages]
    /\ mark \in [Procs -> Nat] /\ last \in [Procs -> Nat]
    /\ disk \in Nat
    /\ used \in SUBSET Nonces /\ twice \in SUBSET Nonces /\ lost \in SUBSET Nonces
    /\ missed \in BOOLEAN

Init ==
    /\ lock = NoProc
    /\ pc = [p \in Procs |-> "off"]
    /\ mark = [p \in Procs |-> 0] /\ last = [p \in Procs |-> 0]
    /\ disk = 0
    /\ used = {} /\ twice = {} /\ lost = {}
    /\ missed = FALSE

Larger(a, b) == IF a >= b THEN a ELSE b

-----------------------------------------------------------------------------
(* Fault: the flock is not awaited or checked. *)
AcquireAnyway(p) ==
    /\ pc[p] = "off"
    /\ lock' = p
    /\ pc' = [pc EXCEPT ![p] = "locked"]
    /\ UNCHANGED <<mark, last, disk, used, twice, lost, missed>>

(* ProcessLock::acquire: try_write, and a process that finds the lock      *)
(* taken ends at once.                                                     *)
Acquire(p) ==
    /\ pc[p] = "off" /\ lock = NoProc
    /\ lock' = p
    /\ pc' = [pc EXCEPT ![p] = "locked"]
    /\ UNCHANGED <<mark, last, disk, used, twice, lost, missed>>

(* NonceHwm::next_seed. *)
NextSeed(hwm, now) == Larger(now, hwm + 1)

(* NonceHwm::load, then HlClient::seed_nonce. *)
Seed(p, now) ==
    /\ pc[p] = "locked"
    /\ mark' = [mark EXCEPT ![p] = disk]
    /\ last' = [last EXCEPT ![p] = NextSeed(disk, now) - 1]
    /\ pc' = [pc EXCEPT ![p] = "ready"]
    /\ UNCHANGED <<lock, disk, used, twice, lost, missed>>

(* Fault: two calls within one millisecond share the clock's value. *)
MintSameMs(p, now) ==
    /\ pc[p] = "ready"
    /\ Larger(now, last[p]) <= MaxNonce
    /\ last' = [last EXCEPT ![p] = Larger(now, last[p])]
    /\ pc' = [pc EXCEPT ![p] = "minted"]
    /\ UNCHANGED <<lock, mark, disk, used, twice, lost, missed>>

(* The first half of next_nonce: the counter moves. *)
Mint(p, now) ==
    /\ pc[p] = "ready"
    /\ Larger(now, last[p] + 1) <= MaxNonce
    /\ last' = [last EXCEPT ![p] = Larger(now, last[p] + 1)]
    /\ pc' = [pc EXCEPT ![p] = "minted"]
    /\ UNCHANGED <<lock, mark, disk, used, twice, lost, missed>>

(* NonceHwm::advance: written beside the mark, fsynced and renamed over    *)
(* it, then the in-memory value; a smaller nonce changes nothing.          *)
Advance(p) ==
    /\ pc[p] = "minted"
    /\ IF last[p] <= mark[p]
       THEN UNCHANGED <<disk, mark>>
       ELSE disk' = last[p] /\ mark' = [mark EXCEPT ![p] = last[p]]
    /\ pc' = [pc EXCEPT ![p] = "signing"]
    /\ UNCHANGED <<lock, last, used, twice, lost, missed>>

(* The write fails: next_nonce logs it and returns the nonce all the same. *)
AdvanceFails(p) ==
    /\ pc[p] = "minted" /\ last[p] > mark[p]
    /\ pc' = [pc EXCEPT ![p] = "signing"]
    /\ missed' = TRUE
    /\ UNCHANGED <<lock, mark, last, disk, used, twice, lost>>

(* post_exchange_once signs the nonce into a request, unless the signer    *)
(* fails; the nonce is spent either way.                                   *)
Sign(p) ==
    /\ pc[p] = "signing"
    /\ \/ used' = used \cup {last[p]} /\ twice' = twice \cup (used \cap {last[p]})
       \/ UNCHANGED <<used, twice>>
    /\ pc' = [pc EXCEPT ![p] = "ready"]
    /\ UNCHANGED <<lock, mark, last, disk, lost, missed>>

(* The process ends, by itself or by a crash at any point; the kernel      *)
(* drops its flock.                                                        *)
End(p) ==
    /\ pc[p] # "off"
    /\ pc' = [pc EXCEPT ![p] = "off"]
    /\ lock' = IF lock = p THEN NoProc ELSE lock
    /\ mark' = [mark EXCEPT ![p] = 0] /\ last' = [last EXCEPT ![p] = 0]
    /\ lost' = lost \cup {n \in used : n > disk}
    /\ UNCHANGED <<disk, used, twice, missed>>

Next ==
    \E p \in Procs :
        \/ Acquire(p) \/ Advance(p) \/ AdvanceFails(p) \/ Sign(p) \/ End(p)
        \/ \E now \in Times : Seed(p, now) \/ Mint(p, now)

Spec == Init /\ [][Next]_vars
-----------------------------------------------------------------------------
(* A nonce is signed twice only if a process ended, or crashed, after      *)
(* signing it and before any successful write of the mark reached it: the  *)
(* case the error message of next_nonce warns of, and no other.  Clock     *)
(* steps, restarts and competing processes alone never repeat a nonce.     *)
ReuseNeedsLostMark == twice \subseteq lost

(* As long as the disk has taken every write, no two requests share a      *)
(* nonce.                                                                  *)
NoncesUnique == ~missed => twice = {}

(* docs/OPERATIONS.md and the lock module: a restarted process resumes     *)
(* above every nonce an earlier one used.  So it is until a write of the   *)
(* mark fails, which next_nonce only logs.                                 *)
RestartsAboveUsed ==
    ~missed => \A p \in Procs : pc[p] = "ready" => \A n \in used : n <= last[p]
=============================================================================
