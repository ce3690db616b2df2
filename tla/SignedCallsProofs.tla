-------------------------- MODULE SignedCallsProofs -------------------------
(***************************************************************************)
(* NonceHwm and the calls of HlClient, for every number of processes and   *)
(* requests, every set of clock readings and every bound on nonces.        *)
(*                                                                         *)
(* That a repeated nonce was lost is not inductive: it needs to know where *)
(* every used nonce is covered.  `Accounted` says it: by the mark on disk, *)
(* by the counter of the process that holds the lock, or it is lost.       *)
(*                                                                         *)
(* Every step of a call is a step of the nonces or leaves them alone, so   *)
(* what is shown of the nonces holds of the calls.  That a conclusion is   *)
(* true needs to know what the exchange's answer says of the order         *)
(* (`ReplyTrue`), and that a request with a copy under way has made no     *)
(* order yet (`Fresh`), which only a request sent once can promise.        *)
(***************************************************************************)
EXTENDS SignedCalls, TLAPS

Active == {"ready", "minted", "signing"}

(* The flock is exclusive. *)
Exclusive == \A p \in Procs : pc[p] # "off" => lock = p

(* A seeded process knows the mark and counts from above it. *)
Seeded == \A p \in Procs : pc[p] \in Active => mark[p] = disk /\ last[p] >= disk

(* A nonce in hand is within the bound of the model. *)
InBound == \A p \in Procs : pc[p] \in {"minted", "signing"} => last[p] <= MaxNonce

(* The counter of the holder covers every used nonce that is not lost, and *)
(* the nonce in hand is above them all; with no seeded process, the disk   *)
(* covers them.                                                            *)
Counted == \A p \in Procs : pc[p] \in Active =>
               \A n \in used : n \in lost \/ n <= last[p]
Above == \A p \in Procs : pc[p] \in {"minted", "signing"} =>
               \A n \in used : n \in lost \/ n < last[p]
Accounted == (\A p \in Procs : pc[p] \notin Active) =>
               \A n \in used : n \in lost \/ n <= disk

(* Without failing writes the disk is never behind a request. *)
DiskAhead == ~missed =>
    /\ lost = {}
    /\ \A n \in used : n <= disk
    /\ \A p \in Procs : pc[p] = "signing" => last[p] <= disk

IInv == /\ TypeOK /\ Exclusive /\ Seeded /\ InBound /\ Counted /\ Above
        /\ Accounted /\ DiskAhead /\ ReuseNeedsLostMark

USE NoProcFresh, TimesNat, MaxNonceNat

(* Initially nothing is used. *)
LEMMA IInvInit == Init => IInv
<1>1. SUFFICES ASSUME Init PROVE IInv OBVIOUS
<1>2. missed \in BOOLEAN BY <1>1 DEF Init
<1>3. TypeOK BY <1>1, <1>2 DEF Init, TypeOK, Stages
<1>4. \A p \in Procs : pc[p] = "off" BY <1>1 DEF Init
<1>5. used = {} /\ twice = {} /\ lost = {} BY <1>1 DEF Init
<1>. QED BY <1>3, <1>4, <1>5 DEF IInv, Exclusive, Seeded, InBound, Counted, Above,
         Accounted, DiskAhead, ReuseNeedsLostMark, Active

(* The holder of the lock is the only process that is not off. *)
LEMMA OnlyHolder ==
    ASSUME Exclusive, NEW p \in Procs, pc[p] # "off", NEW q \in Procs, q # p
    PROVE  pc[q] = "off"
  BY DEF Exclusive

(* Taking the lock: every process was off. *)
LEMMA AcquireKeeps == ASSUME IInv, NEW p \in Procs, Acquire(p) PROVE IInv'
<1>1. \A q \in Procs : pc[q] = "off"
  BY DEF IInv, Exclusive, Acquire
<1>2. /\ lock' = p /\ pc' = [pc EXCEPT ![p] = "locked"]
      /\ UNCHANGED <<mark, last, disk, used, twice, lost, missed>>
  BY DEF Acquire
<1>3. TypeOK' BY <1>2 DEF IInv, TypeOK, Stages
<1>4. \A q \in Procs : pc'[q] = IF q = p THEN "locked" ELSE "off"
  BY <1>1, <1>2 DEF IInv, TypeOK
<1>5. Exclusive' BY <1>2, <1>4 DEF Exclusive
<1>6. \A q \in Procs : pc'[q] \notin Active BY <1>4 DEF Active
<1>7. Seeded' /\ InBound' /\ Counted' /\ Above'
  BY <1>6 DEF Seeded, InBound, Counted, Above, Active
<1>8. Accounted'
  <2>1. \A q \in Procs : pc[q] \notin Active BY <1>1 DEF Active
  <2>. QED BY <2>1, <1>2 DEF IInv, Accounted
<1>9. DiskAhead' BY <1>2, <1>4 DEF IInv, DiskAhead
<1>10. ReuseNeedsLostMark' BY <1>2 DEF IInv, ReuseNeedsLostMark
<1>. QED BY <1>3, <1>5, <1>7, <1>8, <1>9, <1>10 DEF IInv

(* Seeding: nobody else is seeded, so the disk covers what is used. *)
LEMMA SeedKeeps ==
    ASSUME IInv, NEW p \in Procs, NEW now \in Times, Seed(p, now) PROVE IInv'
<1>1. /\ pc[p] = "locked" /\ pc' = [pc EXCEPT ![p] = "ready"]
      /\ mark' = [mark EXCEPT ![p] = disk]
      /\ last' = [last EXCEPT ![p] = NextSeed(disk, now) - 1]
      /\ UNCHANGED <<lock, disk, used, twice, lost, missed>>
  BY DEF Seed
<1>2. \A q \in Procs : q # p => pc[q] = "off"
  BY <1>1, OnlyHolder DEF IInv
<1>3. \A q \in Procs : pc'[q] = IF q = p THEN "ready" ELSE "off"
  BY <1>1, <1>2 DEF IInv, TypeOK
<1>4. /\ disk \in Nat /\ NextSeed(disk, now) - 1 \in Nat
      /\ NextSeed(disk, now) - 1 >= disk
  BY DEF IInv, TypeOK, NextSeed, Larger
<1>5. mark'[p] = disk /\ last'[p] >= disk /\ last'[p] \in Nat
  BY <1>1, <1>4 DEF IInv, TypeOK
<1>6. TypeOK' BY <1>1, <1>4 DEF IInv, TypeOK, Stages
<1>7. Exclusive' BY <1>1, <1>3 DEF IInv, Exclusive
<1>8. Seeded' BY <1>1, <1>3, <1>5 DEF Seeded, Active
<1>9. InBound' /\ Above' BY <1>3 DEF InBound, Above
<1>10. \A n \in used : n \in lost \/ n <= disk
  BY <1>1, <1>2 DEF IInv, Accounted, Active
<1>11. Counted'
  <2>1. \A n \in used : n \in Nat BY DEF IInv, TypeOK, Nonces
  <2>. QED BY <2>1, <1>1, <1>3, <1>4, <1>5, <1>10 DEF Counted, Active
<1>12. Accounted' BY <1>1, <1>10 DEF Accounted
<1>13. DiskAhead' BY <1>1, <1>3 DEF IInv, DiskAhead
<1>14. ReuseNeedsLostMark' BY <1>1 DEF IInv, ReuseNeedsLostMark
<1>. QED BY <1>6, <1>7, <1>8, <1>9, <1>11, <1>12, <1>13, <1>14 DEF IInv

(* Minting goes strictly up. *)
LEMMA MintKeeps ==
    ASSUME IInv, NEW p \in Procs, NEW now \in Times, Mint(p, now) PROVE IInv'
<1>1. /\ pc[p] = "ready" /\ pc' = [pc EXCEPT ![p] = "minted"]
      /\ Larger(now, last[p] + 1) <= MaxNonce
      /\ last' = [last EXCEPT ![p] = Larger(now, last[p] + 1)]
      /\ UNCHANGED <<lock, mark, disk, used, twice, lost, missed>>
  BY DEF Mint
<1>2. \A q \in Procs : q # p => pc[q] = "off"
  BY <1>1, OnlyHolder DEF IInv
<1>3. \A q \in Procs : pc'[q] = IF q = p THEN "minted" ELSE "off"
  BY <1>1, <1>2 DEF IInv, TypeOK
<1>4. /\ last[p] \in Nat /\ Larger(now, last[p] + 1) \in Nat
      /\ Larger(now, last[p] + 1) > last[p]
  BY DEF IInv, TypeOK, Larger
<1>5. last'[p] > last[p] /\ last'[p] <= MaxNonce /\ last'[p] \in Nat
  BY <1>1, <1>4 DEF IInv, TypeOK
<1>6. TypeOK' BY <1>1, <1>4 DEF IInv, TypeOK, Stages
<1>7. Exclusive' BY <1>1, <1>3 DEF IInv, Exclusive
<1>8. mark[p] = disk /\ last[p] >= disk /\ disk \in Nat
  BY <1>1 DEF IInv, TypeOK, Seeded, Active
<1>9. Seeded' BY <1>1, <1>3, <1>4, <1>5, <1>8 DEF Seeded, Active
<1>10. InBound' BY <1>3, <1>5 DEF InBound
<1>11. \A n \in used : n \in lost \/ n < last'[p]
  <2>1. \A n \in used : n \in Nat BY DEF IInv, TypeOK, Nonces
  <2>2. \A n \in used : n \in lost \/ n <= last[p]
    BY <1>1 DEF IInv, Counted, Active
  <2>. QED BY <2>1, <2>2, <1>4, <1>5
<1>12. Counted' /\ Above'
  <2>1. \A n \in used : n \in Nat BY DEF IInv, TypeOK, Nonces
  <2>. QED BY <2>1, <1>1, <1>3, <1>5, <1>11 DEF Counted, Above, Active
<1>13. Accounted' BY <1>3 DEF Accounted, Active
<1>14. DiskAhead' BY <1>1, <1>3 DEF IInv, DiskAhead
<1>15. ReuseNeedsLostMark' BY <1>1 DEF IInv, ReuseNeedsLostMark
<1>. QED BY <1>6, <1>7, <1>9, <1>10, <1>12, <1>13, <1>14, <1>15 DEF IInv

(* The mark on disk and in memory move together, up to the nonce in hand. *)
LEMMA AdvanceKeeps == ASSUME IInv, NEW p \in Procs, Advance(p) PROVE IInv'
<1>1. /\ pc[p] = "minted" /\ pc' = [pc EXCEPT ![p] = "signing"]
      /\ IF last[p] <= mark[p]
         THEN UNCHANGED <<disk, mark>>
         ELSE disk' = last[p] /\ mark' = [mark EXCEPT ![p] = last[p]]
      /\ UNCHANGED <<lock, last, used, twice, lost, missed>>
  BY DEF Advance
<1>2. \A q \in Procs : q # p => pc[q] = "off"
  BY <1>1, OnlyHolder DEF IInv
<1>3. \A q \in Procs : pc'[q] = IF q = p THEN "signing" ELSE "off"
  BY <1>1, <1>2 DEF IInv, TypeOK
<1>4. mark[p] = disk /\ last[p] >= disk /\ disk \in Nat /\ last[p] \in Nat
  BY <1>1 DEF IInv, TypeOK, Seeded, Active
<1>5. /\ disk' = last[p] /\ disk' >= disk /\ mark'[p] = last[p]
      /\ mark' \in [Procs -> Nat]
  BY <1>1, <1>4 DEF IInv, TypeOK
<1>6. TypeOK' BY <1>1, <1>4, <1>5 DEF IInv, TypeOK, Stages
<1>7. Exclusive' BY <1>1, <1>3 DEF IInv, Exclusive
<1>8. Seeded' BY <1>1, <1>3, <1>4, <1>5 DEF Seeded, Active
<1>9. InBound' BY <1>1, <1>3 DEF IInv, InBound
<1>10. Counted' /\ Above'
  <2>1. \A n \in used : n \in Nat BY DEF IInv, TypeOK, Nonces
  <2>2. \A n \in used : n \in lost \/ n < last[p] BY <1>1 DEF IInv, Above
  <2>. QED BY <2>1, <2>2, <1>1, <1>3, <1>4 DEF Counted, Above, Active
<1>11. Accounted' BY <1>3 DEF Accounted, Active
<1>12. DiskAhead'
  <2>1. \A n \in used : n \in Nat BY DEF IInv, TypeOK, Nonces
  <2>. QED BY <2>1, <1>1, <1>3, <1>4, <1>5 DEF IInv, DiskAhead
<1>13. ReuseNeedsLostMark' BY <1>1 DEF IInv, ReuseNeedsLostMark
<1>. QED BY <1>6, <1>7, <1>8, <1>9, <1>10, <1>11, <1>12, <1>13 DEF IInv

(* A failed write changes nothing but where the process is. *)
LEMMA AdvanceFailsKeeps == ASSUME IInv, NEW p \in Procs, AdvanceFails(p) PROVE IInv'
<1>1. /\ pc[p] = "minted" /\ pc' = [pc EXCEPT ![p] = "signing"]
      /\ missed' = TRUE
      /\ UNCHANGED <<lock, mark, last, disk, used, twice, lost>>
  BY DEF AdvanceFails
<1>2. \A q \in Procs : pc'[q] = IF q = p THEN "signing" ELSE pc[q]
  BY <1>1 DEF IInv, TypeOK
<1>3. TypeOK' BY <1>1 DEF IInv, TypeOK, Stages
<1>4. Exclusive' BY <1>1, <1>2 DEF IInv, Exclusive
<1>5. Seeded' BY <1>1, <1>2 DEF IInv, Seeded, Active
<1>6. InBound' BY <1>1, <1>2 DEF IInv, InBound
<1>7. Counted' BY <1>1, <1>2 DEF IInv, Counted, Active
<1>8. Above' BY <1>1, <1>2 DEF IInv, Above
<1>9. Accounted' BY <1>1, <1>2 DEF Accounted, Active
<1>10. DiskAhead' BY <1>1 DEF DiskAhead
<1>11. ReuseNeedsLostMark' BY <1>1 DEF IInv, ReuseNeedsLostMark
<1>. QED
  BY <1>3, <1>4, <1>5, <1>6, <1>7, <1>8, <1>9, <1>10, <1>11 DEF IInv

(* Signing: a nonce already used is, by Above, a lost one. *)
LEMMA SignKeeps == ASSUME IInv, NEW p \in Procs, Sign(p) PROVE IInv'
<1>1. /\ pc[p] = "signing" /\ pc' = [pc EXCEPT ![p] = "ready"]
      /\ \/ used' = used \cup {last[p]} /\ twice' = twice \cup (used \cap {last[p]})
         \/ UNCHANGED <<used, twice>>
      /\ UNCHANGED <<lock, mark, last, disk, lost, missed>>
  BY DEF Sign
<1>2. \A q \in Procs : q # p => pc[q] = "off"
  BY <1>1, OnlyHolder DEF IInv
<1>3. \A q \in Procs : pc'[q] = IF q = p THEN "ready" ELSE "off"
  BY <1>1, <1>2 DEF IInv, TypeOK
<1>4. last[p] \in Nonces /\ last[p] \in Nat
  BY <1>1 DEF IInv, TypeOK, InBound, Nonces
<1>5. \A n \in used : n \in Nat /\ (n \in lost \/ n < last[p])
  BY <1>1 DEF IInv, Above, TypeOK, Nonces
<1>6. TypeOK' BY <1>1, <1>4 DEF IInv, TypeOK, Stages
<1>7. Exclusive' BY <1>1, <1>3 DEF IInv, Exclusive
<1>8. Seeded' BY <1>1, <1>3 DEF IInv, Seeded, Active
<1>9. InBound' /\ Above' BY <1>3 DEF InBound, Above
<1>10. Counted'
  <2>1. \A n \in used' : n \in lost \/ n <= last[p] BY <1>1, <1>4, <1>5
  <2>. QED BY <2>1, <1>1, <1>3 DEF Counted, Active
<1>11. Accounted' BY <1>3 DEF Accounted, Active
<1>12. DiskAhead' BY <1>1, <1>3 DEF IInv, DiskAhead
<1>13. ReuseNeedsLostMark'
  <2>1. used \cap {last[p]} \subseteq lost BY <1>4, <1>5
  <2>. QED BY <2>1, <1>1 DEF IInv, ReuseNeedsLostMark
<1>. QED BY <1>6, <1>7, <1>8, <1>9, <1>10, <1>11, <1>12, <1>13 DEF IInv

(* The end of a process: what the disk does not cover is lost. *)
LEMMA EndKeeps == ASSUME IInv, NEW p \in Procs, End(p) PROVE IInv'
<1>1. /\ pc[p] # "off" /\ pc' = [pc EXCEPT ![p] = "off"]
      /\ lock' = IF lock = p THEN NoProc ELSE lock
      /\ mark' = [mark EXCEPT ![p] = 0] /\ last' = [last EXCEPT ![p] = 0]
      /\ lost' = lost \cup {n \in used : n > disk}
      /\ UNCHANGED <<disk, used, twice, missed>>
  BY DEF End
<1>2. \A q \in Procs : q # p => pc[q] = "off"
  BY <1>1, OnlyHolder DEF IInv
<1>3. \A q \in Procs : pc'[q] = "off"
  BY <1>1, <1>2 DEF IInv, TypeOK
<1>4. TypeOK' BY <1>1 DEF IInv, TypeOK, Stages
<1>5. Exclusive' BY <1>3 DEF Exclusive
<1>6. Seeded' /\ InBound' /\ Counted' /\ Above'
  BY <1>3 DEF Seeded, InBound, Counted, Above, Active
<1>7. \A n \in used : n \in Nat BY DEF IInv, TypeOK, Nonces
<1>8. disk \in Nat BY DEF IInv, TypeOK
<1>9. Accounted' BY <1>1, <1>7, <1>8 DEF Accounted
<1>10. DiskAhead' BY <1>1, <1>3, <1>7, <1>8 DEF IInv, DiskAhead
<1>11. ReuseNeedsLostMark' BY <1>1 DEF IInv, ReuseNeedsLostMark
<1>. QED BY <1>4, <1>5, <1>6, <1>9, <1>10, <1>11 DEF IInv

(* IInv is inductive. *)
LEMMA IInvNext == IInv /\ [Next]_vars => IInv'
<1>1. SUFFICES ASSUME IInv, [Next]_vars PROVE IInv' OBVIOUS
<1>2. CASE Next
  BY <1>1, <1>2, AcquireKeeps, SeedKeeps, MintKeeps, AdvanceKeeps, AdvanceFailsKeeps,
     SignKeeps, EndKeeps DEF Next
<1>3. CASE UNCHANGED vars
  BY <1>1, <1>3 DEF vars, IInv, TypeOK, Exclusive, Seeded, InBound, Counted, Above,
     Accounted, DiskAhead, ReuseNeedsLostMark
<1>. QED BY <1>1, <1>2, <1>3

(* IInv holds throughout. *)
LEMMA IInvAlways == Spec => []IInv
  BY IInvInit, IInvNext, PTL DEF Spec

(* However many processes compete and whatever the clock shows, a nonce is *)
(* signed twice only if it was above the persisted mark when a process     *)
(* ended (next_nonce, NonceHwm::advance, ProcessLock::acquire).            *)
THEOREM ReuseNeedsLostMarkAlways == Spec => []ReuseNeedsLostMark
<1>1. IInv => ReuseNeedsLostMark BY DEF IInv
<1>. QED BY <1>1, IInvAlways, PTL

(* Until a write of the mark fails, nonces are unique over all processes   *)
(* (ProcessLock::acquire, seed_nonce, next_nonce).                         *)
THEOREM NoncesUniqueAlways == Spec => []NoncesUnique
<1>1. IInv => NoncesUnique
  BY DEF IInv, DiskAhead, ReuseNeedsLostMark, NoncesUnique
<1>. QED BY <1>1, IInvAlways, PTL

(* Until a write of the mark fails, a process that is ready to mint is at  *)
(* or above every nonce used before it, as docs/OPERATIONS.md promises.    *)
THEOREM RestartsAboveUsedAlways == Spec => []RestartsAboveUsed
<1>1. IInv => RestartsAboveUsed
  BY DEF IInv, DiskAhead, Counted, Active, RestartsAboveUsed
<1>. QED BY <1>1, IInvAlways, PTL

-----------------------------------------------------------------------------
(* The calls. *)

Says == {"nothing", "network", "exchange", "accepted", "invalid", "unknown", "settled", "open"}

CallTypeOK ==
    /\ sent \in 0..MaxRequests
    /\ copies \in [Requests -> {0, 1}]
    /\ fate \in [Requests -> {"none", "live", "done"}]
    /\ filled \in [Requests -> {0, 1}]
    /\ reply \in [Requests -> {"none", "filled", "resting", "err", "order_error"}]
    /\ call \in [Procs -> [kind : {"idle", "exchange", "info"}, of : 0..sent, attempt : Nat]]
    /\ verdict \in [Procs -> [kind : {"idle", "exchange", "info"}, of : 0..sent,
                              says : Says, filled : Nat]]

(* A call or a verdict is about a request; an idle one says nothing. *)
Concrete ==
    /\ \A p \in Procs : call[p].kind # "idle" => call[p].of \in 1..sent
    /\ \A p \in Procs : verdict[p].says # "nothing" => verdict[p].of \in 1..sent

(* A request with a copy under way is unanswered and has made no order, as *)
(* has one that was never signed.                                          *)
Fresh ==
    \A n \in Requests :
        /\ copies[n] > 0 => fate[n] = "none" /\ reply[n] = "none"
        /\ n > sent => copies[n] = 0 /\ fate[n] = "none" /\ reply[n] = "none"

(* The exchange's answer is true of the order, and stays so. *)
ReplyTrue ==
    \A n \in Requests :
        /\ reply[n] \in {"filled", "resting"} => fate[n] # "none"
        /\ reply[n] \in {"err", "order_error"} => fate[n] = "none" /\ copies[n] = 0

CInv == CallTypeOK /\ Concrete /\ Fresh /\ ReplyTrue /\ ConclusionIsTrue

USE CallBounds

-----------------------------------------------------------------------------
(* The calls take no step the nonces do not know. *)
LEMMA StepsAreNonceSteps == [CallNext]_allVars => [Next]_vars
<1>1. SUFFICES ASSUME [CallNext]_allVars PROVE [Next]_vars OBVIOUS
<1>2. CASE UNCHANGED allVars BY <1>2 DEF allVars
<1>3. ASSUME NEW p \in Procs, NonceStep(p) PROVE [Next]_vars
  BY <1>3 DEF NonceStep, Next
<1>4. ASSUME NEW p \in Procs, Posts(p) \/ SignerFails(p) PROVE [Next]_vars
  BY <1>4 DEF Posts, SignerFails, Next
<1>5. ASSUME NEW p \in Procs, EndCall(p) PROVE [Next]_vars
  BY <1>5 DEF EndCall, Next
<1>6. ASSUME NEW p \in Procs, Answers(p) \/ \E n \in Requests : AskStatus(p, n)
      PROVE  [Next]_vars
  BY <1>6 DEF Answers, AskStatus, WriteFails, WriteAnswered, ReadRepeated, ReadUnanswered,
     ReadAnswered
<1>7. ASSUME NEW n \in Requests, Arrives(n) \/ Vanishes(n) \/ Finishes(n) PROVE [Next]_vars
  BY <1>7 DEF Arrives, Vanishes, Finishes
<1>. QED BY <1>1, <1>2, <1>3, <1>4, <1>5, <1>6, <1>7 DEF CallNext

(* HlClient's calls implement the nonce specification: whatever is sent,   *)
(* answered or lost, next_nonce and the mark behave as in NonceHwm.        *)
THEOREM CallsImplementNonces == CallSpec => Spec
<1>1. CallInit => Init BY DEF CallInit
<1>. QED BY <1>1, StepsAreNonceSteps, PTL DEF CallSpec, Spec

(* With calls sent, lost and repeated, a nonce is still signed twice only  *)
(* if it was above the persisted mark when a process ended.                *)
THEOREM CallsReuseNeedsLostMark == CallSpec => []ReuseNeedsLostMark
  BY CallsImplementNonces, ReuseNeedsLostMarkAlways, PTL

-----------------------------------------------------------------------------
(* Nothing has been sent at the start. *)
LEMMA CInvInit == CallInit => CInv
<1>1. SUFFICES ASSUME CallInit PROVE CInv OBVIOUS
<1>2. CallTypeOK BY <1>1 DEF CallInit, CallTypeOK, Requests, Idle, NoVerdict, Says
<1>3. Concrete BY <1>1 DEF CallInit, Concrete, Idle, NoVerdict
<1>4. Fresh /\ ReplyTrue BY <1>1 DEF CallInit, Fresh, ReplyTrue
<1>5. ConclusionIsTrue BY <1>1 DEF CallInit, ConclusionIsTrue, NoVerdict
<1>. QED BY <1>2, <1>3, <1>4, <1>5 DEF CInv

(* A step that leaves the requests and the exchange alone, and what is     *)
(* being called and concluded too.                                         *)
LEMMA NonceStepKeeps == ASSUME CInv, UNCHANGED cvars PROVE CInv'
  BY DEF cvars, CInv, CallTypeOK, Concrete, Fresh, ReplyTrue, ConclusionIsTrue, Requests

(* A conclusion keeps the invariant if it is true when it is drawn. *)
LEMMA ConcludesKeeps ==
    ASSUME CInv, NEW p \in Procs, NEW says \in Says, NEW amount \in Nat,
           call[p].kind # "idle", Concludes(p, says, amount),
           UNCHANGED <<sent, copies, fate, filled, reply>>,
           says = "accepted" => fate[call[p].of] # "none",
           call[p].kind = "exchange" /\ says = "exchange" =>
               fate[call[p].of] = "none" /\ copies[call[p].of] = 0,
           says = "settled" => fate[call[p].of] = "done" /\ amount = filled[call[p].of]
    PROVE  CInv'
<1>1. /\ verdict' = [verdict EXCEPT ![p] = [kind |-> call[p].kind, of |-> call[p].of,
                                            says |-> says, filled |-> amount]]
      /\ call' = [call EXCEPT ![p] = Idle]
  BY DEF Concludes
<1>2. call[p].of \in 1..sent BY DEF CInv, Concrete
<1>3. CallTypeOK' BY <1>1, <1>2 DEF CInv, CallTypeOK, Idle
<1>4. Concrete' BY <1>1, <1>2 DEF CInv, CallTypeOK, Concrete, Idle
<1>5. Fresh' /\ ReplyTrue' BY DEF CInv, Fresh, ReplyTrue
<1>6. ConclusionIsTrue' BY <1>1 DEF CInv, CallTypeOK, ConclusionIsTrue
<1>. QED BY <1>3, <1>4, <1>5, <1>6 DEF CInv

(* A new request is about no call or verdict so far. *)
LEMMA PostsKeeps == ASSUME CInv, NEW p \in Procs, Posts(p) PROVE CInv'
<1>1. /\ sent < MaxRequests /\ sent' = sent + 1
      /\ copies' = [copies EXCEPT ![sent + 1] = 1]
      /\ call' = [call EXCEPT ![p] = [kind |-> "exchange", of |-> sent + 1, attempt |-> 0]]
      /\ UNCHANGED <<fate, filled, reply, verdict>>
  BY DEF Posts
<1>2. sent \in Nat /\ sent + 1 \in Requests BY <1>1 DEF CInv, CallTypeOK, Requests
<1>3. CallTypeOK'
  <2>1. sent' \in 0..MaxRequests /\ 0..sent \subseteq 0..sent' BY <1>1, <1>2
  <2>2. copies' \in [Requests -> {0, 1}] BY <1>1, <1>2 DEF CInv, CallTypeOK
  <2>. QED BY <1>1, <1>2, <2>1, <2>2 DEF CInv, CallTypeOK
<1>4. Concrete' BY <1>1, <1>2 DEF CInv, CallTypeOK, Concrete
<1>5. Fresh' /\ ReplyTrue' BY <1>1, <1>2 DEF CInv, CallTypeOK, Fresh, ReplyTrue, Requests
<1>6. ConclusionIsTrue'
  BY <1>1, <1>2 DEF CInv, CallTypeOK, Concrete, ConclusionIsTrue, Requests
<1>. QED BY <1>3, <1>4, <1>5, <1>6 DEF CInv

(* What an /exchange POST brings back is true of the order it was for. *)
LEMMA WriteKeeps ==
    ASSUME CInv, NEW p \in Procs, WriteFails(p) \/ \E body : WriteAnswered(p, body)
    PROVE  CInv'
<1>1. call[p].kind = "exchange" BY DEF WriteFails, WriteAnswered
<1>2. call[p].of \in Requests BY <1>1 DEF CInv, CallTypeOK, Concrete, Requests
<1>3. CASE WriteFails(p)
  <2>1. PICK http \in HttpFailures(call[p].of) : Concludes(p, PostOnce(http), 0)
    BY <1>3 DEF WriteFails
  <2>2. PostOnce(http) \in {"network", "exchange"} BY <2>1 DEF HttpFailures, PostOnce
  <2>3. PostOnce(http) = "exchange" => reply[call[p].of] = "err"
    BY <2>1 DEF HttpFailures, PostOnce
  <2>4. PostOnce(http) = "exchange" => fate[call[p].of] = "none" /\ copies[call[p].of] = 0
    BY <1>2, <2>3 DEF CInv, ReplyTrue
  <2>5. UNCHANGED <<sent, copies, fate, filled, reply>> BY <1>3 DEF WriteFails
  <2>6. PostOnce(http) \in Says /\ PostOnce(http) \notin {"accepted", "settled"} /\ 0 \in Nat
    BY <2>2 DEF Says
  <2>. QED BY <1>1, <2>1, <2>4, <2>5, <2>6, ConcludesKeeps
<1>4. ASSUME NEW body, WriteAnswered(p, body) PROVE CInv'
  <2>1. /\ reply[call[p].of] # "none" /\ body \in {reply[call[p].of], "other"}
        /\ Concludes(p, ParseExchange(body), 0)
        /\ UNCHANGED <<sent, copies, fate, filled, reply>>
    BY <1>4 DEF WriteAnswered
  <2>2. body \in {"filled", "resting", "err", "order_error", "other"}
    BY <1>2, <2>1 DEF CInv, CallTypeOK
  <2>3. ParseExchange(body) \in {"accepted", "exchange", "invalid"} BY <2>2 DEF ParseExchange
  <2>4. /\ ParseExchange(body) = "accepted" => reply[call[p].of] \in {"filled", "resting"}
        /\ ParseExchange(body) = "exchange" => reply[call[p].of] \in {"err", "order_error"}
    BY <2>1, <2>2 DEF ParseExchange
  <2>5. /\ ParseExchange(body) = "accepted" => fate[call[p].of] # "none"
        /\ ParseExchange(body) = "exchange" => fate[call[p].of] = "none" /\ copies[call[p].of] = 0
    BY <1>2, <2>4 DEF CInv, ReplyTrue
  <2>6. ParseExchange(body) \in Says /\ ParseExchange(body) # "settled" /\ 0 \in Nat
    BY <2>3 DEF Says
  <2>. QED BY <1>1, <2>1, <2>5, <2>6, ConcludesKeeps
<1>. QED BY <1>3, <1>4

(* What an orderStatus read brings back is true of the order asked about. *)
LEMMA ReadKeeps ==
    ASSUME CInv, NEW p \in Procs,
           \/ ReadAnswered(p)
           \/ \E http \in {"error", "5xx", "429", "4xx"} : ReadUnanswered(p, http)
    PROVE  CInv'
<1>1. call[p].kind = "info" BY DEF ReadAnswered, ReadUnanswered
<1>2. call[p].of \in Requests BY <1>1 DEF CInv, CallTypeOK, Concrete, Requests
<1>3. ASSUME NEW http \in {"error", "5xx", "429", "4xx"}, ReadUnanswered(p, http)
      PROVE  CInv'
  <2>1. PostOnce(http) \in {"network", "exchange"} BY <1>3 DEF PostOnce
  <2>2. PostOnce(http) \in Says /\ PostOnce(http) \notin {"accepted", "settled"} /\ 0 \in Nat
    BY <2>1 DEF Says
  <2>3. /\ Concludes(p, PostOnce(http), 0)
        /\ UNCHANGED <<sent, copies, fate, filled, reply>>
    BY <1>3 DEF ReadUnanswered
  <2>. QED BY <1>1, <2>2, <2>3, ConcludesKeeps
<1>4. CASE ReadAnswered(p)
  <2>1. PICK answer \in StatusAnswers(call[p].of) :
            Concludes(p, ParseStatus(answer, call[p].of), answer.filled)
    BY <1>4 DEF ReadAnswered
  <2>2. ParseStatus(answer, call[p].of) \in {"unknown", "invalid", "settled", "open"}
    BY DEF ParseStatus
  <2>3. answer.filled \in Nat
    BY <1>2, <2>1 DEF StatusAnswers, CInv, CallTypeOK
  <2>4. ASSUME ParseStatus(answer, call[p].of) = "settled"
        PROVE  fate[call[p].of] = "done" /\ answer.filled = filled[call[p].of]
    <3>1. answer.status \in {"filled", "canceled"} /\ CrossCheck(answer, call[p].of)
      BY <2>4 DEF ParseStatus, IsTerminal
    <3>2. PICK m \in Requests :
              /\ answer.status = StatusOf(m) /\ answer.filled = filled[m]
              /\ answer.cloid = m \/ m = call[p].of
      BY <1>2, <2>1, <3>1 DEF StatusAnswers, CrossCheck
    <3>3. m = call[p].of BY <3>1, <3>2 DEF CrossCheck, Requests
    <3>4. StatusOf(m) \in {"filled", "canceled"} BY <3>1, <3>2
    <3>5. fate[m] = "done" BY <3>4 DEF StatusOf, CInv, CallTypeOK
    <3>. QED BY <3>2, <3>3, <3>5
  <2>5. UNCHANGED <<sent, copies, fate, filled, reply>> BY <1>4 DEF ReadAnswered
  <2>6. /\ ParseStatus(answer, call[p].of) \in Says
        /\ ParseStatus(answer, call[p].of) \notin {"accepted", "exchange"}
    BY <2>2 DEF Says
  <2>. QED BY <1>1, <2>1, <2>3, <2>4, <2>5, <2>6, ConcludesKeeps
<1>. QED BY <1>3, <1>4

(* Asking, asking again and ending a process conclude nothing. *)
LEMMA CallKeeps ==
    ASSUME CInv, NEW p \in Procs,
           \/ \E n \in Requests : AskStatus(p, n)
           \/ \E http : ReadRepeated(p, http)
           \/ EndCall(p)
    PROVE  CInv'
<1>1. UNCHANGED <<sent, copies, fate, filled, reply>> BY DEF AskStatus, ReadRepeated, EndCall
<1>2. Fresh' /\ ReplyTrue' BY <1>1 DEF CInv, Fresh, ReplyTrue
<1>3. ASSUME NEW n \in Requests, AskStatus(p, n) PROVE CInv'
  <2>1. /\ n \in 1..sent /\ UNCHANGED verdict
        /\ call' = [call EXCEPT ![p] = [kind |-> "info", of |-> n, attempt |-> 0]]
    BY <1>3 DEF AskStatus, Requests, CInv, CallTypeOK
  <2>. QED BY <1>1, <1>2, <2>1 DEF CInv, CallTypeOK, Concrete, ConclusionIsTrue
<1>4. ASSUME NEW http, ReadRepeated(p, http) PROVE CInv'
  BY <1>1, <1>2, <1>4 DEF ReadRepeated, CInv, CallTypeOK, Concrete, ConclusionIsTrue
<1>5. CASE EndCall(p)
  BY <1>1, <1>2, <1>5 DEF EndCall, CInv, CallTypeOK, Concrete, ConclusionIsTrue, Idle,
     NoVerdict, Says
<1>. QED BY <1>3, <1>4, <1>5

(* The only copy of a request arrives: before that nothing was concluded   *)
(* about its order, since the order did not exist and might still come.    *)
LEMMA ArrivesKeeps == ASSUME CInv, NEW n \in Requests, Arrives(n) PROVE CInv'
<1>1. /\ copies[n] = 1 /\ fate[n] = "none" /\ reply[n] = "none"
      /\ copies' = [copies EXCEPT ![n] = 0]
      /\ UNCHANGED <<sent, filled, call, verdict>>
  <2>1. copies[n] > 0 /\ copies' = [copies EXCEPT ![n] = @ - 1]
        /\ UNCHANGED <<sent, filled, call, verdict>>
    BY DEF Arrives
  <2>2. copies[n] = 1 BY <2>1 DEF CInv, CallTypeOK
  <2>3. copies' = [copies EXCEPT ![n] = 0] BY <2>1, <2>2
  <2>. QED BY <2>1, <2>2, <2>3 DEF CInv, Fresh
<1>2. \/ /\ fate' = [fate EXCEPT ![n] = "live"]
         /\ \E good \in {"filled", "resting"} : reply' = [reply EXCEPT ![n] = good]
      \/ /\ \E bad \in {"err", "order_error"} : reply' = [reply EXCEPT ![n] = bad]
         /\ UNCHANGED fate
  BY DEF Arrives
<1>3. CallTypeOK' BY <1>1, <1>2 DEF CInv, CallTypeOK
<1>4. Concrete' BY <1>1 DEF CInv, Concrete
<1>5. n <= sent BY <1>1 DEF CInv, CallTypeOK, Fresh, Requests
<1>6. Fresh'
  <2>1. SUFFICES ASSUME NEW m \in Requests
        PROVE  /\ copies'[m] > 0 => fate'[m] = "none" /\ reply'[m] = "none"
               /\ m > sent => copies'[m] = 0 /\ fate'[m] = "none" /\ reply'[m] = "none"
    BY <1>1 DEF Fresh
  <2>2. CASE m = n
    BY <1>1, <1>5, <2>2 DEF CInv, CallTypeOK, Requests
  <2>3. CASE m # n
    <3>1. copies'[m] = copies[m] /\ fate'[m] = fate[m] /\ reply'[m] = reply[m]
      BY <1>1, <1>2, <2>3 DEF CInv, CallTypeOK
    <3>. QED BY <3>1 DEF CInv, Fresh
  <2>. QED BY <2>2, <2>3
<1>7. ReplyTrue' BY <1>1, <1>2 DEF CInv, CallTypeOK, ReplyTrue
<1>8. ASSUME NEW p \in Procs, verdict[p].of = n
      PROVE  /\ verdict[p].says \notin {"accepted", "settled"}
             /\ ~(verdict[p].kind = "exchange" /\ verdict[p].says = "exchange")
  BY <1>1, <1>8 DEF CInv, ConclusionIsTrue
<1>9. \A m \in Requests : m # n => fate'[m] = fate[m] /\ copies'[m] = copies[m]
  BY <1>1, <1>2 DEF CInv, CallTypeOK
<1>10. \A p \in Procs : verdict[p].says # "nothing" => verdict[p].of \in Requests
  BY DEF CInv, CallTypeOK, Concrete, Requests
<1>11. ConclusionIsTrue' BY <1>1, <1>8, <1>9, <1>10 DEF CInv, ConclusionIsTrue
<1>. QED BY <1>3, <1>4, <1>6, <1>7, <1>11 DEF CInv

(* A lost copy makes no order; a finished order was a live one, of which   *)
(* neither its end nor its rejection had been concluded.                   *)
LEMMA FinishesKeeps ==
    ASSUME CInv, NEW n \in Requests, Vanishes(n) \/ Finishes(n) PROVE CInv'
<1>1. CASE Vanishes(n)
  BY <1>1 DEF Vanishes, CInv, CallTypeOK, Concrete, Fresh, ReplyTrue, ConclusionIsTrue, Requests
<1>2. CASE Finishes(n)
  <2>1. /\ fate[n] = "live" /\ fate' = [fate EXCEPT ![n] = "done"]
        /\ \E f \in 0..1 : filled' = [filled EXCEPT ![n] = f]
        /\ UNCHANGED <<sent, copies, reply, call, verdict>>
    BY <1>2 DEF Finishes
  <2>2. CallTypeOK' BY <2>1 DEF CInv, CallTypeOK
  <2>3. Concrete' /\ Fresh' /\ ReplyTrue' BY <2>1 DEF CInv, CallTypeOK, Concrete, Fresh, ReplyTrue
  <2>4. \A p \in Procs : verdict[p].says # "nothing" => verdict[p].of \in Requests
    BY DEF CInv, CallTypeOK, Concrete, Requests
  <2>5. ConclusionIsTrue' BY <2>1, <2>4 DEF CInv, CallTypeOK, ConclusionIsTrue
  <2>. QED BY <2>2, <2>3, <2>5 DEF CInv
<1>. QED BY <1>1, <1>2

(* CInv is inductive. *)
LEMMA CInvNext == CInv /\ [CallNext]_allVars => CInv'
<1>1. SUFFICES ASSUME CInv, [CallNext]_allVars PROVE CInv' OBVIOUS
<1>2. CASE UNCHANGED allVars BY <1>1, <1>2, NonceStepKeeps DEF allVars
<1>3. ASSUME NEW p \in Procs, NonceStep(p) \/ SignerFails(p) PROVE CInv'
  BY <1>1, <1>3, NonceStepKeeps DEF NonceStep, SignerFails
<1>4. ASSUME NEW p \in Procs, Answers(p) PROVE CInv'
  BY <1>1, <1>4, WriteKeeps, ReadKeeps, CallKeeps DEF Answers
<1>. QED BY <1>1, <1>2, <1>3, <1>4, PostsKeeps, CallKeeps, ArrivesKeeps, FinishesKeeps
         DEF CallNext

(* What HlClient tells its caller about an order is true when it is said   *)
(* and ever after, for any number of processes and requests: the rejection *)
(* that post_exchange_once, post_once and parse_place_response report is   *)
(* never that of an order which exists, and parse_order_status with        *)
(* cross_check never credits another order's fill.                         *)
THEOREM ConclusionIsTrueAlways == CallSpec => []ConclusionIsTrue
<1>1. CInv => ConclusionIsTrue BY DEF CInv
<1>. QED BY <1>1, CInvInit, CInvNext, PTL DEF CallSpec
=============================================================================
