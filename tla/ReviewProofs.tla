--------------------------- MODULE ReviewProofs ---------------------------
(***************************************************************************)
(* Proofs about what the review service decides and the messages service   *)
(* keeps: module ReviewRounds, for every set of requests, authors and      *)
(* decisions, and any number of rounds, findings and calls; and module     *)
(* Messages, for any number of calls, every page size and set of agents.   *)
(***************************************************************************)
EXTENDS ReviewRounds, Messages, SequenceTheorems, FiniteSetTheorems,
        WellFoundedInduction, TLAPS

-----------------------------------------------------------------------------
(* Types of the rows and requests                                            *)

\* The rows the code starts from, and a request that is over.
LEMMA StartTypes ==
    /\ Idle \in Request
    /\ \A id \in Identity : [id |-> id, verdict |-> "unset", note |-> 0] \in Round
    /\ \A a \in Authors : [who |-> a, sup |-> 0, kind |-> "code_diff"] \in Identity
    /\ \A a \in Authors : [who |-> a, sup |-> 0, kind |-> "campaign"] \in Identity
<1> USE BoundsAssumption
<1>1. Idle \in Request
  BY DEF Idle, Request
<1> QED
  BY <1>1 DEF Round, Identity, Verdicts

-----------------------------------------------------------------------------
(* What a request holds                                                      *)

Asking == {"request", "campaign", "create_round"}
AboutRound == {"create_finding", "set_verdict", "post_findings", "finalize"}
AboutFindings == {"respond", "set_status", "split"}
Finalizing == {"append", "mark_posted", "read_task", "set_task", "mark_moved", "complete", "fail"}

\* A finalization in progress carries out the decision that is committed.
Carries(r) ==
    finals[r.round] # None /\ finals[r.round].dec = r.dec /\ finals[r.round].key = r.key

\* What a request has read is still there, or was never going to change.
Fits(r) ==
    /\ r.pc = "check" => r.op # "none"
    /\ r.op \in Asking => r.id \in Identity /\ r.id.sup <= Len(rounds)
    /\ r.op \in {"campaign", "create_round"} => r.id.sup = 0
    /\ r.pc \in {"reuse", "create", "reread"} => r.op \in Asking /\ r.id.sup = 0
    /\ r.pc = "supersede" => r.op = "request" /\ r.id.sup # 0
    /\ r.op \in AboutRound => r.round \in 1..Len(rounds)
    /\ r.pc \in {"insert", "set", "find"} => r.op \in AboutRound \ {"finalize"}
    /\ r.op \in AboutFindings => r.todo \subseteq 1..Len(findings)
    /\ r.pc = "update" => r.op \in AboutFindings
    /\ r.pc \in {"packet", "reserve", "append", "accept"} => r.key \in Keys
    /\ r.pc \in {"packet", "reserve", "accept"} => r.op # "finalize"
    /\ r.op = "finalize" => r.dec \in Decisions
    /\ r.pc = "begin" => DOMAIN r.dec.res \subseteq 1..Len(findings)
    /\ r.pc \in ({"lookup", "list", "project", "begin"} \cup Finalizing) \ {"append"} => r.op = "finalize"
    /\ r.pc \in {"accept", "mark_posted"} => r.msg \in 1..Len(thread) /\ thread[r.msg] = r.key
    /\ r.op = "finalize" /\ r.pc \in Finalizing => Carries(r)
    /\ r.pc = "mark_moved" => r.round \in reached

\* What an update of a finalization may not take back.
Stands(f, g) ==
    /\ g.dec = f.dec /\ g.key = f.key
    /\ posted(f) => g.msg = f.msg
    /\ f.moved => g.moved
    /\ f.state = "complete" => g.state = "complete"

\* Rows are added, decisions and messages stay.
Kept ==
    /\ Len(rounds) <= Len(rounds')
    /\ Len(findings) <= Len(findings')
    /\ Len(thread) <= Len(thread')
    /\ \A m \in 1..Len(thread) : thread'[m] = thread[m]
    /\ \A r \in RoundIds : finals[r] # None => finals'[r] # None /\ Stands(finals[r], finals'[r])
    /\ reached \subseteq reached'

TablesTyped ==
    /\ task \in TaskStatus
    /\ rounds \in Seq(Round) /\ Len(rounds) <= MaxRounds
    /\ findings \in Seq(Finding) /\ Len(findings) <= MaxFindings
    /\ thread \in Seq(Keys \cup {None})
    /\ packets \in [Keys -> {None} \cup 0..Len(thread)]
    /\ finals \in [RoundIds -> Finalization \cup {None}]
    /\ reached \subseteq RoundIds

LEMMA FitsKept ==
    ASSUME TablesTyped, TablesTyped', Kept, NEW r \in Request, Fits(r)
    PROVE  Fits(r)'
<1> USE BoundsAssumption
<1>1. /\ Len(rounds) \in Nat /\ Len(rounds') \in Nat /\ Len(findings) \in Nat /\ Len(findings') \in Nat
      /\ Len(thread) \in Nat /\ Len(thread') \in Nat
  BY DEF TablesTyped
<1>2. r.op \in Asking => r.id \in Identity /\ r.id.sup <= Len(rounds')
  BY <1>1 DEF Fits, Kept, Identity
<1>3. r.op \in AboutRound => r.round \in 1..Len(rounds')
  BY <1>1 DEF Fits, Kept
<1>4. r.op \in AboutFindings => r.todo \subseteq 1..Len(findings')
  BY <1>1 DEF Fits, Kept
<1>5. r.pc \in {"accept", "mark_posted"} => r.msg \in 1..Len(thread') /\ thread'[r.msg] = r.key
  BY <1>1 DEF Fits, Kept
<1>6. r.op = "finalize" /\ r.pc \in Finalizing => Carries(r)'
  <2> SUFFICES ASSUME r.op = "finalize", r.pc \in Finalizing PROVE Carries(r)'
    OBVIOUS
  <2>1. r.round \in RoundIds /\ Carries(r)
    BY <1>1 DEF Fits, AboutRound, TablesTyped, RoundIds
  <2> QED
    BY <2>1 DEF Carries, Kept, Stands
<1>7. r.pc = "mark_moved" => r.round \in reached'
  BY DEF Fits, Kept
<1>8. r.pc = "begin" => DOMAIN r.dec.res \subseteq 1..Len(findings')
  BY <1>1 DEF Fits, Kept
<1> QED
  BY <1>2, <1>3, <1>4, <1>5, <1>6, <1>7, <1>8 DEF Fits

-----------------------------------------------------------------------------
(* The invariant                                                             *)

\* Supersessions pair up, and a superseded round was never reviewed.
Replaced ==
    /\ \A r \in 1..Len(rounds) : rounds[r].id.sup <= Len(rounds)
    /\ \A r \in 1..Len(rounds) : rounds[r].verdict = "superseded" => ~Reviewed(r)
    /\ \A r \in 1..Len(rounds) : rounds[r].verdict = "superseded" =>
          rounds[r].note \in 1..Len(rounds) /\ rounds[rounds[r].note].id.sup = r
    /\ \A n \in 1..Len(rounds) : rounds[n].id.sup # 0 =>
          rounds[rounds[n].id.sup].verdict = "superseded" /\ rounds[rounds[n].id.sup].note = n

\* What the row of a finalization says was done.
FinalFits(r) ==
    /\ packets[finals[r].key] # None
    /\ finals[r].msg \in 0..Len(thread)
    /\ posted(finals[r]) => thread[finals[r].msg] = finals[r].key
    /\ finals[r].moved => r \in reached
    /\ finals[r].state = "complete" => posted(finals[r]) /\ finals[r].moved

Delivery ==
    /\ \A m, n \in 1..Len(thread) : thread[m] = thread[n] /\ thread[m] # None => m = n
    /\ \A k \in Keys : packets[k] \notin {None, 0} => thread[packets[k]] = k
    /\ \A r \in RoundIds : finals[r] # None => FinalFits(r)

ReviewInv ==
    /\ TablesTyped
    /\ reqs \in [Reqs -> Request]
    /\ \A q \in Reqs : Fits(reqs[q])
    /\ Replaced
    /\ Delivery

\* What every step shows: the tables keep the invariant, and the request that
\* made the step goes on with what fits them.
Steady == TablesTyped' /\ Kept /\ Replaced' /\ Delivery'

Ready(q) == \E r \in Request : reqs' = [reqs EXCEPT ![q] = r] /\ Fits(r)'

Reached ==
    reached' = reached \cup
        {r \in RoundIds : finals'[r] # None /\ task' = taskStatusForVerdict(finals'[r].dec.verdict)}

LEMMA InvKept ==
    ASSUME ReviewInv, Steady, \/ reqs' = reqs
                              \/ \E q \in Reqs : Ready(q)
    PROVE  ReviewInv'
<1>1. /\ reqs \in [Reqs -> Request] /\ TablesTyped /\ TablesTyped' /\ Kept
      /\ \A q \in Reqs : Fits(reqs[q])
  BY DEF ReviewInv, Steady
<1>2. ASSUME NEW q \in Reqs, reqs'[q] = reqs[q] PROVE Fits(reqs[q])'
  <2>1. PICK r \in Request : r = reqs[q]
    BY <1>1
  <2>2. Fits(r)'
    BY <1>1, <2>1, FitsKept
  <2> QED
    BY <1>2, <2>1, <2>2 DEF Fits, Carries
<1>3. CASE reqs' = reqs
  BY <1>1, <1>2, <1>3 DEF ReviewInv, Steady
<1>4. CASE \E q \in Reqs : Ready(q)
  <2>1. PICK q \in Reqs, r \in Request : reqs' = [reqs EXCEPT ![q] = r] /\ Fits(r)'
    BY <1>4 DEF Ready
  <2>2. reqs'[q] = r /\ \A p \in Reqs : p # q => reqs'[p] = reqs[p]
    BY <1>1, <2>1
  <2>3. reqs' \in [Reqs -> Request]
    BY <1>1, <2>1
  <2>4. Fits(reqs[q])'
    BY <2>1, <2>2 DEF Fits, Carries
  <2>5. \A p \in Reqs : Fits(reqs[p])'
    BY <1>2, <2>2, <2>4
  <2> QED
    BY <2>3, <2>5 DEF ReviewInv, Steady
<1> QED
  BY <1>3, <1>4

-----------------------------------------------------------------------------
(* Steps that write no table                                                 *)

LEMMA Unwritten ==
    ASSUME ReviewInv, Reached, task' \in TaskStatus,
           UNCHANGED <<rounds, findings, packets, finals, thread>>
    PROVE  Steady
<1>1. TablesTyped /\ Replaced /\ Delivery
  BY DEF ReviewInv
<1>2. reached' \subseteq RoundIds /\ reached \subseteq reached'
  BY <1>1 DEF TablesTyped, Reached
<1>3. TablesTyped'
  BY <1>1, <1>2 DEF TablesTyped
<1>4. Kept
  BY <1>1, <1>2 DEF TablesTyped, Kept, Stands
<1>5. Replaced'
  BY <1>1 DEF Replaced, Reviewed
<1>6. Delivery'
  BY <1>1, <1>2 DEF Delivery, FinalFits
<1> QED
  BY <1>3, <1>4, <1>5, <1>6 DEF Steady

\* A request that is over, or goes on to a step that needs no more than what
\* the last one knew.
LEMMA OverFits == Fits(Idle)'
BY DEF Fits, Idle, Asking, AboutRound, AboutFindings, Finalizing

LEMMA ReturnReady ==
    ASSUME NEW q \in Reqs, Return(q)
    PROVE  Ready(q)
BY StartTypes, OverFits DEF Return, Go, Ready

\* What the tables keep, the request keeps.
LEMMA StillFits ==
    ASSUME ReviewInv, Steady, NEW q \in Reqs, NEW r, r = reqs[q]
    PROVE  r \in Request /\ Fits(r) /\ Fits(r)'
<1>1. r \in Request /\ Fits(r)
  BY DEF ReviewInv
<1>2. Fits(r)'
  BY <1>1, FitsKept DEF ReviewInv, Steady
<1> QED
  BY <1>1, <1>2

LEMMA GoToReady ==
    ASSUME ReviewInv, Steady, NEW q \in Reqs, NEW r, r = reqs[q], NEW pc,
           [r EXCEPT !.pc = pc] \in Request, GoTo(q, pc),
           pc = "check" => r.op # "none",
           pc \in {"reuse", "create", "reread"} => r.op \in Asking /\ r.id.sup = 0,
           pc = "supersede" => r.op = "request" /\ r.id.sup # 0,
           pc \in {"insert", "set", "find"} => r.op \in AboutRound \ {"finalize"},
           pc = "update" => r.op \in AboutFindings,
           pc \in {"packet", "reserve", "append", "accept"} => r.key \in Keys,
           pc \in {"packet", "reserve", "accept"} => r.op # "finalize",
           pc \in ({"lookup", "list", "project", "begin"} \cup Finalizing) \ {"append"} => r.op = "finalize",
           pc \notin {"accept", "mark_posted", "begin"},
           r.op = "finalize" /\ pc \in Finalizing => r.pc \in Finalizing,
           pc = "mark_moved" => r.round \in reached'
    PROVE  Ready(q)
<1> DEFINE next == [r EXCEPT !.pc = pc]
<1>1. r \in Request /\ Fits(r)'
  BY StillFits
<1>2. /\ next.pc = pc /\ next.op = r.op /\ next.id = r.id /\ next.round = r.round /\ next.dec = r.dec
      /\ next.todo = r.todo /\ next.key = r.key /\ next.msg = r.msg
  BY <1>1 DEF Request
<1> HIDE DEF next
<1>3. Carries(r)' => Carries(next)'
  BY <1>2 DEF Carries
<1>4. Fits(next)'
  BY <1>1, <1>2, <1>3 DEF Fits
<1>5. reqs' = [reqs EXCEPT ![q] = next]
  BY DEF GoTo, Go, next
<1> QED
  BY <1>4, <1>5 DEF Ready, next

\* A call begins about a round and findings that are there.
LEMMA StartReady ==
    ASSUME ReviewInv, Steady, rounds' = rounds, findings' = findings, NEW q \in Reqs, Start(q)
    PROVE  Ready(q)
<1> USE BoundsAssumption
<1>1. /\ rounds \in Seq(Round) /\ Len(rounds) <= MaxRounds /\ Len(rounds) \in Nat /\ DOMAIN rounds = 1..Len(rounds)
      /\ findings \in Seq(Finding) /\ Len(findings) <= MaxFindings /\ Len(findings) \in Nat
      /\ DOMAIN findings = 1..Len(findings)
  BY DEF ReviewInv, TablesTyped
<1>2. ASSUME NEW c \in Request, Go(q, c), Fits(c)' PROVE Ready(q)
  BY <1>2 DEF Go, Ready
<1>3. ASSUME NEW c \in Requests, Go(q, c) PROVE Ready(q)
  <2>1. PICK id \in Identity, op \in Asking :
            c = Asks(op, id) /\ id.sup <= Len(rounds) /\ (op \in {"campaign", "create_round"} => id.sup = 0)
    <3>1. \/ \E i \in [who : Authors, sup : 0..Len(rounds), kind : {"code_diff"}] : c = Asks("request", i)
          \/ \E a \in Authors : c = Asks("campaign", [who |-> a, sup |-> 0, kind |-> "campaign"])
          \/ \E a \in Authors : c = Asks("create_round", [who |-> a, sup |-> 0, kind |-> "code_diff"])
      BY <1>3 DEF Requests
    <3>2. \A i \in [who : Authors, sup : 0..Len(rounds), kind : {"code_diff"}] :
              i \in Identity /\ i.sup <= Len(rounds)
      BY <1>1 DEF Identity
    <3>3. \A a \in Authors, kind \in {"campaign", "code_diff"} :
              /\ [who |-> a, sup |-> 0, kind |-> kind] \in Identity
              /\ [who |-> a, sup |-> 0, kind |-> kind].sup = 0
      BY StartTypes
    <3>4. {"request", "campaign", "create_round"} \subseteq Asking
      BY DEF Asking
    <3>5. CASE \E i \in [who : Authors, sup : 0..Len(rounds), kind : {"code_diff"}] : c = Asks("request", i)
      BY <3>2, <3>4, <3>5
    <3>6. CASE \E a \in Authors : c = Asks("campaign", [who |-> a, sup |-> 0, kind |-> "campaign"])
      <4>1. PICK a \in Authors : c = Asks("campaign", [who |-> a, sup |-> 0, kind |-> "campaign"])
        BY <3>6
      <4>2. PICK i \in Identity : i = [who |-> a, sup |-> 0, kind |-> "campaign"] /\ i.sup = 0
        BY <3>3
      <4>3. c = Asks("campaign", i) /\ i.sup <= Len(rounds)
        BY <1>1, <4>1, <4>2
      <4> QED
        BY <3>4, <4>2, <4>3
    <3>7. CASE \E a \in Authors : c = Asks("create_round", [who |-> a, sup |-> 0, kind |-> "code_diff"])
      <4>1. PICK a \in Authors : c = Asks("create_round", [who |-> a, sup |-> 0, kind |-> "code_diff"])
        BY <3>7
      <4>2. PICK i \in Identity : i = [who |-> a, sup |-> 0, kind |-> "code_diff"] /\ i.sup = 0
        BY <3>3
      <4>3. c = Asks("create_round", i) /\ i.sup <= Len(rounds)
        BY <1>1, <4>1, <4>2
      <4> QED
        BY <3>4, <4>2, <4>3
    <3> QED
      BY <3>1, <3>5, <3>6, <3>7
  <2>2. c \in Request
    BY <2>1, StartTypes DEF Request, Asking, Asks
  <2>3. c.op = op /\ c.pc = "check" /\ c.id = id
    BY <2>1 DEF Idle, Asks
  <2>4. Fits(c)'
    BY <1>1, <2>1, <2>3 DEF Fits, Asking, AboutRound, AboutFindings, Finalizing
  <2> QED
    BY <1>2, <1>3, <2>2, <2>4
<1>4. ASSUME NEW c \in RoundCalls, Go(q, c) PROVE Ready(q)
  <2>1. PICK op \in AboutRound, pc \in {"check", "lookup"}, r \in DOMAIN rounds, d \in Decisions \cup {None} :
            /\ c = CallsRound(op, pc, r, d)
            /\ op = "finalize" => d \in Decisions
            /\ pc = "lookup" => op = "finalize"
    BY <1>4 DEF RoundCalls, AboutRound
  <2>2. c \in Request
    <3>1. r \in 0..MaxRounds
      BY <1>1
    <3> QED
      BY <2>1, <3>1, StartTypes DEF Request, AboutRound, CallsRound
  <2>3. c.op = op /\ c.pc = pc /\ c.round = r /\ c.dec = d
    BY <2>1 DEF Idle, CallsRound
  <2>4. Fits(c)'
    BY <1>1, <2>1, <2>3 DEF Fits, Asking, AboutRound, AboutFindings, Finalizing
  <2> QED
    BY <1>2, <1>4, <2>2, <2>4
<1>5. ASSUME NEW op \in AboutFindings, NEW F \in SUBSET DOMAIN findings, NEW s \in FindingStatus \cup {None},
             Go(q, CallsFindings(op, F, s))
      PROVE  Ready(q)
  <2> DEFINE c == CallsFindings(op, F, s)
  <2>1. c \in Request
    <3>1. F \in SUBSET (1..MaxFindings)
      BY <1>1
    <3> QED
      BY <3>1, StartTypes DEF Request, AboutFindings, CallsFindings
  <2>2. c.op = op /\ c.pc = "check" /\ c.todo = F
    BY DEF Idle, CallsFindings
  <2> HIDE DEF c
  <2>3. Fits(c)'
    BY <1>1, <2>2 DEF Fits, Asking, AboutRound, AboutFindings, Finalizing
  <2> QED
    BY <1>2, <1>5, <2>1, <2>3 DEF c
<1>6. CASE FindingCalls(q)
  <2>1. /\ {"open", "verified_fixed", "claimed_fixed", "split_to_follow_up"} \subseteq FindingStatus
        /\ "respond" \in AboutFindings /\ "set_status" \in AboutFindings /\ "split" \in AboutFindings
        /\ \A f \in DOMAIN findings : {f} \in SUBSET DOMAIN findings
    BY DEF FindingStatus, AboutFindings
  <2>2. ASSUME NEW f \in DOMAIN findings, NEW s \in {None, "claimed_fixed"},
               Go(q, CallsFindings("respond", {f}, s))
        PROVE  Ready(q)
    BY <1>5, <2>1, <2>2
  <2>3. ASSUME NEW f \in DOMAIN findings, NEW s \in {"open", "verified_fixed"},
               Go(q, CallsFindings("set_status", {f}, s))
        PROVE  Ready(q)
    BY <1>5, <2>1, <2>3
  <2>4. ASSUME NEW F \in SUBSET DOMAIN findings, Go(q, CallsFindings("split", F, "split_to_follow_up"))
        PROVE  Ready(q)
    BY <1>5, <2>1, <2>4
  <2> QED
    BY <1>6, <2>2, <2>3, <2>4 DEF FindingCalls
<1> QED
  BY <1>3, <1>4, <1>6 DEF Start

LEMMA CheckReady ==
    ASSUME ReviewInv, Steady, NEW q \in Reqs, validateTask(q)
    PROVE  Ready(q)
<1>1. PICK r \in Request : r = reqs[q] /\ Fits(r) /\ r.pc = "check"
  BY StillFits DEF validateTask, At
<1>2. CASE Return(q)
  BY <1>2, ReturnReady
<1>3. CASE GoTo(q, AfterCheck(r))
  <2>1. r.op # "none" /\ r.op \in Asking \cup AboutRound \cup AboutFindings
    BY <1>1 DEF Fits, Request, Asking, AboutRound, AboutFindings
  <2>2. CASE r.op = "request"
    <3>1. r.id.sup \in Nat
      BY <1>1, <2>2 DEF Fits, Asking, Identity
    <3>2. CASE r.id.sup = 0
      <4>1. AfterCheck(r) = "reuse" /\ [r EXCEPT !.pc = "reuse"] \in Request
        BY <1>1, <2>2, <3>2 DEF AfterCheck, Request
      <4> QED
        BY <1>1, <1>3, <2>2, <3>2, <4>1, GoToReady DEF Asking, Finalizing
    <3>3. CASE r.id.sup # 0
      <4>1. AfterCheck(r) = "supersede" /\ [r EXCEPT !.pc = "supersede"] \in Request
        BY <1>1, <2>2, <3>3 DEF AfterCheck, Request
      <4> QED
        BY <1>1, <1>3, <2>2, <3>3, <4>1, GoToReady DEF Asking, Finalizing
    <3> QED
      BY <3>2, <3>3
  <2>3. CASE r.op \in {"campaign", "create_round"}
    <3>1. PICK pc \in {"reuse", "create"} : AfterCheck(r) = pc
      BY <2>3 DEF AfterCheck
    <3>2. [r EXCEPT !.pc = pc] \in Request
      BY <1>1 DEF Request
    <3>3. r.id.sup = 0
      BY <1>1, <2>3 DEF Fits
    <3> QED
      BY <1>1, <1>3, <2>3, <3>1, <3>2, <3>3, GoToReady DEF Asking, Finalizing
  <2>4. CASE r.op \in AboutRound \ {"finalize"}
    <3>1. PICK pc \in {"insert", "set", "find"} : AfterCheck(r) = pc
      BY <2>4 DEF AfterCheck, AboutRound
    <3>2. [r EXCEPT !.pc = pc] \in Request
      BY <1>1 DEF Request
    <3> QED
      BY <1>1, <1>3, <2>4, <3>1, <3>2, GoToReady DEF Finalizing
  <2>5. CASE r.op = "finalize"
    <3>1. AfterCheck(r) = "list"
      BY <2>5 DEF AfterCheck
    <3>2. [r EXCEPT !.pc = "list"] \in Request
      BY <1>1 DEF Request
    <3> QED
      BY <1>1, <1>3, <2>5, <3>1, <3>2, GoToReady DEF Finalizing
  <2>6. CASE r.op \in AboutFindings
    <3>1. AfterCheck(r) = "update"
      BY <2>6 DEF AfterCheck, AboutFindings
    <3>2. [r EXCEPT !.pc = "update"] \in Request
      BY <1>1 DEF Request
    <3> QED
      BY <1>1, <1>3, <2>6, <3>1, <3>2, GoToReady DEF Finalizing
  <2> QED
    BY <2>1, <2>2, <2>3, <2>4, <2>5, <2>6 DEF Asking
<1> QED
  BY <1>1, <1>2, <1>3 DEF validateTask

LEMMA PacketRequest ==
    ASSUME NEW r \in Request, NEW n \in 0..MaxRounds, NEW k \in Keys
    PROVE  [r EXCEPT !.pc = "packet", !.round = n, !.key = k] \in Request
BY DEF Request

\* A round that is there, with the packet of its request.
LEMMA WithRoundReady ==
    ASSUME ReviewInv, Steady, NEW q \in Reqs, NEW r, r = reqs[q], r.op \in Asking,
           NEW n \in 1..Len(rounds'), Go(q, WithRound(q, n))
    PROVE  Ready(q)
<1> DEFINE next == [r EXCEPT !.pc = "packet", !.round = n, !.key = <<"request", n>>]
<1>1. r \in Request /\ Fits(r)'
  BY StillFits
<1>2. n \in RoundIds
  BY BoundsAssumption DEF Steady, TablesTyped, RoundIds
<1>3. <<"request", n>> \in Keys
  BY <1>2 DEF Keys
<1>4. next \in Request
  <2>1. n \in 0..MaxRounds
    BY <1>2, BoundsAssumption DEF RoundIds
  <2> QED
    BY <1>1, <1>3, <2>1, PacketRequest
<1>5. next.pc = "packet" /\ next.op = r.op /\ next.id = r.id /\ next.round = n /\ next.key = <<"request", n>>
  BY <1>1 DEF Request
<1> HIDE DEF next
<1>6. Fits(next)'
  BY <1>1, <1>3, <1>5 DEF Fits, Asking, AboutRound, AboutFindings, Finalizing
<1> QED
  BY <1>4, <1>6 DEF Ready, Go, WithRound, next

LEMMA ReuseReady ==
    ASSUME ReviewInv, Steady, rounds' = rounds, NEW q \in Reqs, reusableReviewRound(q)
    PROVE  Ready(q)
<1>1. PICK r \in Request : r = reqs[q] /\ Fits(r) /\ r.pc \in {"reuse", "reread"}
  BY StillFits DEF reusableReviewRound
<1>2. r.op \in Asking /\ r.id.sup = 0
  BY <1>1 DEF Fits
<1>3. Latest \in Nat
  BY DEF Latest, ReviewInv, TablesTyped
<1>4. CASE reusable(r.id)
  <2>1. Go(q, WithRound(q, Latest))
    BY <1>1, <1>4 DEF reusableReviewRound
  <2>2. Latest \in 1..Len(rounds')
    <3>1. Latest > 0
      BY <1>4 DEF reusable
    <3>2. Len(rounds') = Latest
      BY DEF Latest
    <3> QED
      BY <1>3, <3>1, <3>2
  <2> QED
    BY <1>1, <1>2, <2>1, <2>2, WithRoundReady
<1>5. CASE ~reusable(r.id) /\ r.pc = "reuse"
  <2>1. GoTo(q, "create")
    BY <1>1, <1>5 DEF reusableReviewRound, At
  <2>2. [r EXCEPT !.pc = "create"] \in Request
    BY <1>1 DEF Request
  <2> QED
    BY <1>1, <1>2, <2>1, <2>2, GoToReady DEF Finalizing
<1>6. CASE ~reusable(r.id) /\ r.pc # "reuse"
  <2>1. Return(q)
    BY <1>1, <1>6 DEF reusableReviewRound, At
  <2> QED
    BY <2>1, ReturnReady
<1> QED
  BY <1>4, <1>5, <1>6

LEMMA CreateFailsReady ==
    ASSUME ReviewInv, Steady, NEW q \in Reqs, CreateRoundFails(q)
    PROVE  Ready(q)
<1>1. PICK r \in Request : r = reqs[q] /\ Fits(r) /\ r.pc = "create"
  BY StillFits DEF CreateRoundFails, At
<1>2. r.op \in Asking /\ r.id.sup = 0 /\ [r EXCEPT !.pc = "reread"] \in Request
  BY <1>1 DEF Fits, Request
<1> QED
  BY <1>1, <1>2, GoToReady DEF CreateRoundFails, Finalizing

LEMMA DeliveredReady ==
    ASSUME ReviewInv, Steady, NEW q \in Reqs, Delivered(q)
    PROVE  Ready(q)
<1>1. PICK r \in Request : r = reqs[q] /\ Fits(r)
  BY StillFits
<1>2. CASE GoTo(q, "transition")
  <2>1. [r EXCEPT !.pc = "transition"] \in Request
    BY <1>1 DEF Request
  <2> QED
    BY <1>1, <1>2, <2>1, GoToReady DEF Finalizing
<1> QED
  BY <1>2, ReturnReady DEF Delivered

LEMMA AcceptReady ==
    ASSUME ReviewInv, Steady, NEW q \in Reqs, acceptPacket(q)
    PROVE  Ready(q)
<1>1. PICK r \in Request : r = reqs[q] /\ Fits(r) /\ r.pc = "packet"
  BY StillFits DEF acceptPacket, At
<1>2. r.key \in Keys /\ r.op # "finalize"
  BY <1>1 DEF Fits
<1>3. ASSUME NEW pc \in {"reserve", "append"}, GoTo(q, pc) PROVE Ready(q)
  <2>1. [r EXCEPT !.pc = pc] \in Request
    BY <1>1 DEF Request
  <2> QED
    BY <1>1, <1>2, <1>3, <2>1, GoToReady DEF Finalizing
<1>4. GoTo(q, "reserve") \/ GoTo(q, "append") \/ Delivered(q)
  BY DEF acceptPacket
<1> QED
  BY <1>3, <1>4, DeliveredReady

WithKey(r, pc, k) == [r EXCEPT !.pc = pc, !.key = k]

LEMMA KeyRequest ==
    ASSUME NEW r \in Request, NEW pc \in {"packet", "append"}, NEW k \in Keys
    PROVE  LET next == WithKey(r, pc, k) IN
           /\ next \in Request
           /\ next.pc = pc /\ next.key = k /\ next.todo = r.todo
           /\ next.op = r.op /\ next.id = r.id /\ next.round = r.round
BY DEF Request, WithKey

\* The findings packet of a round, if it has one, is stored.
LEMMA FindReady ==
    ASSUME ReviewInv, Steady, NEW q \in Reqs, PostReviewFindings(q)
    PROVE  Ready(q)
<1>1. PICK r \in Request : r = reqs[q] /\ Fits(r) /\ Fits(r)' /\ r.pc = "find"
  BY StillFits DEF PostReviewFindings, At
<1>2. r.op \in AboutRound \ {"finalize"} /\ r.round \in RoundIds
  BY <1>1, BoundsAssumption DEF Fits, ReviewInv, TablesTyped, RoundIds
<1>3. ASSUME NEW pc \in {"packet", "append"}, NEW k \in Keys,
             Go(q, [reqs[q] EXCEPT !.pc = pc, !.key = k])
      PROVE  Ready(q)
  <2> DEFINE next == WithKey(r, pc, k)
  <2>1. reqs' = [reqs EXCEPT ![q] = next]
    BY <1>1, <1>3 DEF Go, WithKey
  <2>2. /\ next \in Request
        /\ next.pc = pc /\ next.key = k /\ next.todo = r.todo
        /\ next.op = r.op /\ next.id = r.id /\ next.round = r.round
    BY KeyRequest
  <2> HIDE DEF next
  <2>3. Fits(next)'
    BY <1>1, <1>2, <2>2 DEF Fits, Asking, AboutRound, AboutFindings, Finalizing
  <2> QED
    BY <2>1, <2>2, <2>3 DEF Ready
<1>4. <<"findings", r.round>> \in Keys /\ <<"final", r.round>> \in Keys
  BY <1>2 DEF Keys
<1>5. FindingsPackets(r.round) \subseteq Keys
  BY <1>4 DEF FindingsPackets
<1>6. \/ Go(q, [reqs[q] EXCEPT !.pc = "packet", !.key = <<"findings", r.round>>])
      \/ \E k \in FindingsPackets(r.round) : Go(q, [reqs[q] EXCEPT !.pc = "append", !.key = k])
      \/ Return(q)
  BY <1>1 DEF PostReviewFindings
<1> QED
  BY <1>3, <1>4, <1>5, <1>6, ReturnReady

AtCheckpoint(r, pc, k, m) == [[[r EXCEPT !.key = k] EXCEPT !.pc = pc] EXCEPT !.msg = m]

\* A request that is sent to a checkpoint keeps what it was about.
SentTo(t, r, pc, k, m) ==
    /\ t \in Request
    /\ t.pc = pc /\ t.key = k /\ t.msg = m
    /\ t.op = r.op /\ t.id = r.id /\ t.round = r.round /\ t.dec = r.dec /\ t.todo = r.todo

LEMMA CheckpointRequest ==
    ASSUME NEW r \in Request, NEW k \in Keys, NEW m \in Nat,
           NEW pc \in {"append", "mark_posted", "read_task", "complete"}
    PROVE  SentTo(AtCheckpoint(r, pc, k, m), r, pc, k, m)
<1> DEFINE s == [r EXCEPT !.key = k]
           t == [s EXCEPT !.pc = pc]
<1>1. /\ s \in Request
      /\ s.op = r.op /\ s.id = r.id /\ s.round = r.round /\ s.dec = r.dec /\ s.todo = r.todo /\ s.key = k
  BY DEF Request
<1> HIDE DEF s
<1>2. /\ t \in Request
      /\ t.op = r.op /\ t.id = r.id /\ t.round = r.round /\ t.dec = r.dec /\ t.todo = r.todo /\ t.key = k
      /\ t.pc = pc
  BY <1>1 DEF Request
<1> HIDE DEF t
<1>3. AtCheckpoint(r, pc, k, m) = [t EXCEPT !.msg = m]
  BY DEF s, t, AtCheckpoint
<1> QED
  BY <1>2, <1>3 DEF Request, SentTo

LEMMA CheckpointFits ==
    ASSUME ReviewInv, Steady, NEW q \in Reqs, NEW r, r = reqs[q], r.op = "finalize",
           NEW f \in Finalization, f = finals'[r.round], f.dec = r.dec,
           NEW m \in Nat, NEW pc \in {"append", "mark_posted", "read_task", "complete"},
           pc = "mark_posted" => m \in 1..Len(thread') /\ thread'[m] = f.key,
           Go(q, AtCheckpoint(r, pc, f.key, m))
    PROVE  Ready(q)
<1>1. r \in Request /\ Fits(r)'
  BY StillFits
<1>2. f.key \in Keys /\ f # None
  BY NoneAssumption DEF Finalization
<1> DEFINE next == AtCheckpoint(r, pc, f.key, m)
<1>3. reqs' = [reqs EXCEPT ![q] = next]
  BY DEF Go
<1>4. next = AtCheckpoint(r, pc, f.key, m)
  OBVIOUS
<1> HIDE DEF next
<1>5. /\ next \in Request
      /\ next.pc = pc /\ next.key = f.key /\ next.msg = m
      /\ next.op = r.op /\ next.id = r.id /\ next.round = r.round /\ next.dec = r.dec /\ next.todo = r.todo
  <2>1. PICK k \in Keys : k = f.key
    BY <1>2
  <2>2. next = AtCheckpoint(r, pc, k, m)
    BY <2>1, <1>4
  <2>3. r \in Request
    BY <1>1
  <2>4. SentTo(AtCheckpoint(r, pc, k, m), r, pc, k, m)
    BY <2>3, CheckpointRequest
  <2>5. SentTo(next, r, pc, k, m)
    BY <2>2, <2>4
  <2> QED
    BY <2>1, <2>5 DEF SentTo
<1>6. Carries(next)'
  BY <1>2, <1>5 DEF Carries
<1>7. Fits(next)'
  BY <1>1, <1>2, <1>5, <1>6 DEF Fits, Asking, AboutRound, AboutFindings, Finalizing
<1> QED
  BY <1>5, <1>3, <1>7 DEF Ready

\* A finalization that is there is resumed at its first open checkpoint.
LEMMA ResumeReady ==
    ASSUME ReviewInv, Steady, NEW q \in Reqs, NEW r, r = reqs[q], r.op = "finalize",
           NEW f \in Finalization, f = finals'[r.round], f.dec = r.dec,
           NEW m \in 0..Len(thread'), m # 0 => thread'[m] = f.key,
           resumeFinalization(q, f, m)
    PROVE  Ready(q)
<1> DEFINE s == [r EXCEPT !.key = f.key, !.msg = m]
<1>1. Len(thread') \in Nat /\ m \in Nat
  BY DEF Steady, TablesTyped
<1>2. r \in Request
  BY StillFits
<1>3. \A pc : [s EXCEPT !.pc = pc] = AtCheckpoint(r, pc, f.key, m)
  BY <1>2 DEF AtCheckpoint, Request
<1>4. \A pc : [s EXCEPT !.pc = pc, !.msg = 0] = AtCheckpoint(r, pc, f.key, 0)
  BY <1>2 DEF AtCheckpoint, Request
<1>5. CASE f.state = "complete"
  <2>1. Return(q)
    BY <1>5 DEF resumeFinalization, NextCheckpoint, Return
  <2> QED
    BY <2>1, ReturnReady
<1>6. CASE f.state # "complete" /\ ~posted(f)
  <2>1. PICK pc \in {"append", "mark_posted"} :
            pc = (IF m = 0 THEN "append" ELSE "mark_posted")
    OBVIOUS
  <2>2. Go(q, [s EXCEPT !.pc = pc])
    BY <1>6, <2>1 DEF resumeFinalization, NextCheckpoint
  <2>3. pc = "mark_posted" => m \in 1..Len(thread') /\ thread'[m] = f.key
    BY <1>1, <2>1
  <2>4. Go(q, AtCheckpoint(r, pc, f.key, m))
    BY <1>3, <2>2 DEF Go
  <2> HIDE DEF s
  <2> QED
    BY <1>1, <2>3, <2>4, CheckpointFits
<1>7. CASE f.state # "complete" /\ posted(f)
  <2>1. PICK pc \in {"read_task", "complete"} : Go(q, [s EXCEPT !.pc = pc, !.msg = 0])
    BY <1>7 DEF resumeFinalization, NextCheckpoint
  <2>2. Go(q, AtCheckpoint(r, pc, f.key, 0))
    BY <1>4, <2>1 DEF Go
  <2> HIDE DEF s
  <2> QED
    BY <1>1, <2>2, CheckpointFits
<1> QED
  BY <1>5, <1>6, <1>7

\* The message of the packet of a finalization carries that packet.
LEMMA PacketOfFinal ==
    ASSUME ReviewInv, NEW r \in RoundIds, NEW f, f = finals[r], f # None
    PROVE  /\ f \in Finalization
           /\ packets[f.key] \in 0..Len(thread)
           /\ packets[f.key] # 0 => thread[packets[f.key]] = f.key
<1>1. f \in Finalization
  BY DEF ReviewInv, TablesTyped
<1>2. f.key \in Keys
  BY <1>1 DEF Finalization
<1>3. packets[f.key] # None
  BY DEF ReviewInv, Delivery, FinalFits
<1> QED
  BY <1>1, <1>2, <1>3 DEF ReviewInv, Delivery, TablesTyped

LEMMA LookupReady ==
    ASSUME ReviewInv, Steady, UNCHANGED <<finals, thread>>, NEW q \in Reqs, LookupFinalization(q)
    PROVE  Ready(q)
<1>1. PICK r \in Request : r = reqs[q] /\ Fits(r) /\ r.pc = "lookup"
  BY StillFits DEF LookupFinalization, At
<1>2. r.op = "finalize" /\ r.round \in RoundIds
  BY <1>1, BoundsAssumption DEF Fits, AboutRound, ReviewInv, TablesTyped, RoundIds
<1>3. PICK f : f = finals[r.round]
  OBVIOUS
<1>4. CASE f = None
  <2>1. [r EXCEPT !.pc = "check"] \in Request
    BY <1>1 DEF Request
  <2>2. GoTo(q, "check")
    BY <1>1, <1>3, <1>4 DEF LookupFinalization
  <2> QED
    BY <1>1, <1>2, <2>1, <2>2, GoToReady DEF Finalizing
<1>5. CASE f # None /\ f.dec # r.dec
  BY <1>1, <1>3, <1>5, ReturnReady DEF LookupFinalization
<1>6. CASE f # None /\ f.dec = r.dec
  <2>1. resumeFinalization(q, f, packets[f.key])
    BY <1>1, <1>3, <1>6 DEF LookupFinalization
  <2>2. f = finals'[r.round] /\ thread' = thread
    BY <1>3
  <2> QED
    BY <1>1, <1>2, <1>3, <1>6, <2>1, <2>2, PacketOfFinal, ResumeReady
<1> QED
  BY <1>4, <1>5, <1>6

WithTodo(r, pc, F) == [r EXCEPT !.pc = pc, !.todo = F]

LEMMA TodoRequest ==
    ASSUME NEW r \in Request, NEW pc \in {"project", "begin", "update"}, NEW F \in SUBSET (1..MaxFindings)
    PROVE  LET next == WithTodo(r, pc, F) IN
           /\ next \in Request
           /\ next.pc = pc /\ next.todo = F /\ next.key = r.key /\ next.msg = r.msg
           /\ next.op = r.op /\ next.id = r.id /\ next.round = r.round /\ next.dec = r.dec
<1>1. [r EXCEPT !.pc = pc] \in Request
  BY DEF Request
<1>2. PICK p \in Request : p = [r EXCEPT !.pc = pc]
  BY <1>1
<1>3. [p EXCEPT !.todo = F] \in Request
  BY DEF Request
<1>4. WithTodo(r, pc, F) = [p EXCEPT !.todo = F]
  BY <1>2 DEF Request, WithTodo
<1> QED
  BY <1>3, <1>4, <1>2 DEF Request

LEMMA ListReady ==
    ASSUME ReviewInv, Steady, NEW q \in Reqs, ListRoundFindings(q) \/ ProjectFindings(q)
    PROVE  Ready(q)
<1>1. PICK r \in Request : r = reqs[q] /\ Fits(r) /\ Fits(r)' /\ r.pc \in {"list", "project"}
  BY StillFits DEF ListRoundFindings, ProjectFindings, At
<1>2. r.op = "finalize"
  BY <1>1 DEF Fits
<1>3. ASSUME NEW pc \in {"project", "begin"}, NEW F \in SUBSET (1..MaxFindings),
             pc = "begin" => DOMAIN r.dec.res \subseteq 1..Len(findings'),
             Go(q, [r EXCEPT !.pc = pc, !.todo = F])
      PROVE  Ready(q)
  <2> DEFINE next == WithTodo(r, pc, F)
  <2>1. reqs' = [reqs EXCEPT ![q] = next]
    BY <1>3 DEF Go, WithTodo
  <2>2. /\ next \in Request
        /\ next.pc = pc /\ next.todo = F /\ next.key = r.key /\ next.msg = r.msg
        /\ next.op = r.op /\ next.id = r.id /\ next.round = r.round /\ next.dec = r.dec
    BY <1>1, TodoRequest
  <2> HIDE DEF next
  <2>3. Fits(next)'
    BY <1>1, <1>2, <1>3, <2>2 DEF Fits, Asking, AboutRound, AboutFindings, Finalizing
  <2> QED
    BY <2>1, <2>2, <2>3 DEF Ready
<1>4. CASE ListRoundFindings(q)
  <2> DEFINE F == {f \in DOMAIN findings : findings[f].round = r.round}
  <2>1. F \in SUBSET (1..MaxFindings)
    BY BoundsAssumption DEF ReviewInv, TablesTyped
  <2>2. Go(q, [r EXCEPT !.pc = "project", !.todo = F])
    BY <1>1, <1>4 DEF ListRoundFindings
  <2> QED
    BY <1>3, <2>1, <2>2
<1>5. CASE ProjectFindings(q)
  <2>1. \/ Return(q)
        \/ DOMAIN r.dec.res \subseteq DOMAIN findings /\ Go(q, [r EXCEPT !.pc = "begin", !.todo = {}])
    BY <1>1, <1>5 DEF ProjectFindings
  <2>2. {} \in SUBSET (1..MaxFindings)
    OBVIOUS
  <2>3. findings' = findings /\ DOMAIN findings = 1..Len(findings)
    BY <1>5 DEF ProjectFindings, reviewTables, ReviewInv, TablesTyped
  <2> QED
    BY <1>3, <2>1, <2>2, <2>3, ReturnReady
<1> QED
  BY <1>4, <1>5

\* The task has the status of the verdict: the request may say so.
LEMMA MovedReady ==
    ASSUME ReviewInv, Steady, Reached, UNCHANGED finals, NEW q \in Reqs, task' = target(q),
           reqs[q].pc \in {"read_task", "set_task"}, GoTo(q, "mark_moved")
    PROVE  Ready(q)
<1>1. PICK r \in Request : r = reqs[q] /\ Fits(r) /\ r.pc \in {"read_task", "set_task"}
  BY StillFits
<1>2. r.op = "finalize" /\ r.round \in RoundIds /\ Carries(r)
  BY <1>1, BoundsAssumption DEF Fits, AboutRound, Finalizing, ReviewInv, TablesTyped, RoundIds
<1>3. r.round \in reached'
  BY <1>1, <1>2 DEF Reached, Carries, target
<1>4. [r EXCEPT !.pc = "mark_moved"] \in Request
  BY <1>1 DEF Request
<1> QED
  BY <1>1, <1>2, <1>3, <1>4, GoToReady DEF Finalizing

\* A failed checkpoint, with the step that failed.
Failing(r, step) == [r EXCEPT !.pc = "fail", !.step = step]

LEMMA FailRequest ==
    ASSUME NEW r \in Request, NEW step \in {"packet_delivery", "task_transition", "completion"}
    PROVE  LET next == Failing(r, step) IN
           /\ next \in Request
           /\ next.pc = "fail" /\ next.todo = r.todo /\ next.key = r.key /\ next.msg = r.msg
           /\ next.op = r.op /\ next.id = r.id /\ next.round = r.round /\ next.dec = r.dec
BY DEF Request, Failing

LEMMA FailReady ==
    ASSUME ReviewInv, Steady, NEW q \in Reqs, reqs[q].op = "finalize", reqs[q].pc \in Finalizing,
           NEW step \in {"packet_delivery", "task_transition", "completion"},
           Go(q, [reqs[q] EXCEPT !.pc = "fail", !.step = step])
    PROVE  Ready(q)
<1>1. PICK r \in Request : r = reqs[q] /\ Fits(r) /\ Fits(r)'
  BY StillFits
<1> DEFINE next == Failing(r, step)
<1>2. reqs' = [reqs EXCEPT ![q] = next]
  BY <1>1 DEF Go, Failing
<1>3. /\ next \in Request
      /\ next.pc = "fail" /\ next.todo = r.todo /\ next.key = r.key /\ next.msg = r.msg
      /\ next.op = r.op /\ next.id = r.id /\ next.round = r.round /\ next.dec = r.dec
  BY <1>1, FailRequest
<1> HIDE DEF next
<1>4. Carries(next)'
  <2>1. Carries(r)'
    BY <1>1 DEF Fits
  <2> QED
    BY <1>3, <2>1 DEF Carries
<1>5. Fits(next)'
  BY <1>1, <1>3, <1>4 DEF Fits, Asking, AboutRound, AboutFindings, Finalizing
<1> QED
  BY <1>2, <1>3, <1>5 DEF Ready

LEMMA TaskReady ==
    ASSUME ReviewInv, Steady, Reached, UNCHANGED finals, NEW q \in Reqs, ReadTaskStatus(q) \/ SetTaskStatus(q)
    PROVE  Ready(q)
<1>1. PICK r \in Request : r = reqs[q] /\ Fits(r) /\ r.pc \in {"read_task", "set_task"}
  BY StillFits DEF ReadTaskStatus, SetTaskStatus, At
<1>2. r.op = "finalize" /\ r.pc \in Finalizing
  BY <1>1 DEF Fits, Finalizing
<1>3. \/ task' = target(q) /\ GoTo(q, "mark_moved")
      \/ GoTo(q, "set_task")
      \/ Go(q, TransitionFailed(q))
  BY DEF ReadTaskStatus, SetTaskStatus
<1>4. CASE GoTo(q, "set_task")
  <2>1. [r EXCEPT !.pc = "set_task"] \in Request
    BY <1>1 DEF Request
  <2> QED
    BY <1>1, <1>2, <1>4, <2>1, GoToReady DEF Finalizing
<1>5. CASE Go(q, TransitionFailed(q))
  BY <1>1, <1>2, <1>5, FailReady DEF TransitionFailed
<1> QED
  BY <1>1, <1>3, <1>4, <1>5, MovedReady

-----------------------------------------------------------------------------
(* Steps that write rounds                                                   *)

LEMMA RoundsSteady ==
    ASSUME ReviewInv, Reached, UNCHANGED <<task, findings, packets, finals, thread>>,
           rounds' \in Seq(Round), Len(rounds) <= Len(rounds'), Len(rounds') <= MaxRounds, Replaced'
    PROVE  Steady
<1>1. TablesTyped /\ Delivery
  BY DEF ReviewInv
<1>2. reached' \subseteq RoundIds /\ reached \subseteq reached'
  BY <1>1 DEF TablesTyped, Reached
<1>3. TablesTyped'
  BY <1>1, <1>2 DEF TablesTyped
<1>4. Kept
  BY <1>1, <1>2 DEF TablesTyped, Kept, Stands
<1>5. Delivery'
  BY <1>1, <1>2 DEF Delivery, FinalFits
<1> QED
  BY <1>3, <1>4, <1>5 DEF Steady

\* What is known of the numbers of rounds.
LEMMA RoundNumbers ==
    ASSUME ReviewInv
    PROVE  /\ Len(rounds) \in Nat /\ Len(rounds) <= MaxRounds /\ MaxRounds \in Nat
           /\ \A r \in 1..Len(rounds) :
                 /\ rounds[r] \in Round /\ rounds[r].id \in Identity /\ rounds[r].id.sup \in 0..Len(rounds)
                 /\ r \in RoundIds
<1>1. Len(rounds) \in Nat /\ Len(rounds) <= MaxRounds /\ MaxRounds \in Nat
  BY BoundsAssumption DEF ReviewInv, TablesTyped
<1>2. ASSUME NEW r \in 1..Len(rounds)
      PROVE  rounds[r] \in Round /\ rounds[r].id \in Identity /\ rounds[r].id.sup \in 0..Len(rounds) /\ r \in RoundIds
  <2>1. rounds[r] \in Round
    BY <1>1 DEF ReviewInv, TablesTyped
  <2>2. rounds[r].id \in Identity
    BY <2>1 DEF Round
  <2>3. rounds[r].id.sup \in Nat /\ rounds[r].id.sup <= Len(rounds)
    BY <1>1, <2>2 DEF ReviewInv, Replaced, Identity
  <2> QED
    BY <1>1, <2>1, <2>2, <2>3 DEF RoundIds
<1> QED
  BY <1>1, <1>2

LEMMA JudgedRound ==
    ASSUME NEW row \in Round, NEW v \in Verdicts
    PROVE  /\ [row EXCEPT !.verdict = v] \in Round
           /\ [row EXCEPT !.verdict = v].id = row.id
           /\ [row EXCEPT !.verdict = v].note = row.note
           /\ [row EXCEPT !.verdict = v].verdict = v
BY DEF Round

Closed(row, n) == [row EXCEPT !.verdict = "superseded", !.note = n]

LEMMA ClosedRound ==
    ASSUME NEW row \in Round, NEW n \in 0..MaxRounds
    PROVE  /\ Closed(row, n) \in Round
           /\ Closed(row, n).id = row.id /\ Closed(row, n).verdict = "superseded" /\ Closed(row, n).note = n
BY DEF Round, Verdicts, Closed

LEMMA CreateRoundKeeps ==
    ASSUME ReviewInv, Reached, NEW q \in Reqs, CreateRound(q)
    PROVE  Steady /\ Ready(q)
<1>1. PICK r \in Request : r = reqs[q] /\ Fits(r) /\ r.pc = "create"
  <2>1. reqs[q] \in Request /\ Fits(reqs[q])
    BY DEF ReviewInv
  <2> QED
    BY <2>1 DEF CreateRound, At
<1>2. r.op \in Asking /\ r.id \in Identity /\ r.id.sup = 0
  BY <1>1 DEF Fits
<1>3. PICK row \in Round : row = [id |-> r.id, verdict |-> "unset", note |-> 0]
  BY <1>2, StartTypes
<1>4. rounds' = Append(rounds, row) /\ Len(rounds) < MaxRounds
  BY <1>1, <1>3 DEF CreateRound, createRoundTx, Latest
<1>5. /\ rounds' \in Seq(Round) /\ Len(rounds') = Len(rounds) + 1 /\ Len(rounds) \in Nat
      /\ \A n \in 1..Len(rounds) : rounds'[n] = rounds[n]
      /\ rounds'[Len(rounds) + 1] = row
      /\ row.id.sup = 0 /\ row.verdict = "unset"
  <2>1. rounds \in Seq(Round) /\ Len(rounds) \in Nat
    BY DEF ReviewInv, TablesTyped
  <2>2. row.id.sup = 0 /\ row.verdict = "unset"
    BY <1>2, <1>3
  <2> QED
    BY <1>4, <2>1, <2>2, AppendProperties
<1>6. Len(rounds') <= MaxRounds /\ Len(rounds) <= Len(rounds')
  <2>1. MaxRounds \in Nat
    BY BoundsAssumption
  <2> QED
    BY <1>4, <1>5, <2>1
<1>7. Replaced'
  <2>1. \A n \in 1..Len(rounds') : n \in 1..Len(rounds) \/ rounds'[n] = row
    BY <1>5
  <2>2. UNCHANGED <<findings, finals>>
    BY DEF CreateRound
  <2>3. \A n : Reviewed(n)' = Reviewed(n)
    BY <2>2 DEF Reviewed
  <2>4. \A n \in 1..Len(rounds') : rounds'[n].id.sup <= Len(rounds')
    BY <1>5, <2>1, RoundNumbers
  <2>5. \A n \in 1..Len(rounds') : rounds'[n].verdict = "superseded" =>
           /\ n \in 1..Len(rounds) /\ ~Reviewed(n)
           /\ rounds'[n].note \in 1..Len(rounds') /\ rounds'[rounds'[n].note].id.sup = n
    BY <1>5, <2>1 DEF ReviewInv, Replaced
  <2>6. \A n \in 1..Len(rounds') : rounds'[n].id.sup # 0 =>
           rounds'[rounds'[n].id.sup].verdict = "superseded" /\ rounds'[rounds'[n].id.sup].note = n
    <3> SUFFICES ASSUME NEW n \in 1..Len(rounds), rounds[n].id.sup # 0
                 PROVE  rounds'[rounds[n].id.sup].verdict = "superseded" /\ rounds'[rounds[n].id.sup].note = n
      BY <1>5, <2>1
    <3>1. rounds[n].id.sup \in 1..Len(rounds)
      BY RoundNumbers
    <3> QED
      BY <1>5, <3>1 DEF ReviewInv, Replaced
  <2> QED
    BY <2>3, <2>4, <2>5, <2>6 DEF Replaced
<1>8. Steady
  BY <1>5, <1>6, <1>7, RoundsSteady DEF CreateRound
<1>9. Ready(q)
  <2>1. Return(q) \/ Go(q, WithRound(q, Len(rounds) + 1))
    BY DEF CreateRound, Latest
  <2>2. Len(rounds) + 1 \in 1..Len(rounds')
    BY <1>5
  <2> QED
    BY <1>1, <1>2, <1>8, <2>1, <2>2, ReturnReady, WithRoundReady
<1> QED
  BY <1>8, <1>9

LEMMA SetVerdictKeeps ==
    ASSUME ReviewInv, Reached, NEW q \in Reqs, SetVerdict(q)
    PROVE  Steady /\ Ready(q)
<1>1. PICK r \in Request : r = reqs[q] /\ Fits(r) /\ r.pc = "set"
  <2>1. reqs[q] \in Request /\ Fits(reqs[q])
    BY DEF ReviewInv
  <2> QED
    BY <2>1 DEF SetVerdict, At
<1>2. r.op \in AboutRound \ {"finalize"} /\ r.round \in 1..Len(rounds)
  BY <1>1 DEF Fits
<1>3. CASE UNCHANGED rounds /\ Return(q)
  <2>1. UNCHANGED <<task, rounds, findings, packets, finals, thread>>
    BY <1>3 DEF SetVerdict
  <2>2. task' \in TaskStatus
    BY <2>1 DEF ReviewInv, TablesTyped
  <2> QED
    BY <1>3, <2>1, <2>2, Unwritten, ReturnReady
<1>4. CASE /\ rounds[r.round].verdict # "superseded" /\ GoTo(q, "say")
           /\ rounds' = [rounds EXCEPT ![r.round].verdict = "follow_up_needed"]
  <2>1. PICK row \in Round :
            /\ row = [rounds[r.round] EXCEPT !.verdict = "follow_up_needed"]
            /\ row.id = rounds[r.round].id /\ row.verdict = "follow_up_needed" /\ row.note = rounds[r.round].note
    <3>1. rounds[r.round] \in Round /\ "follow_up_needed" \in Verdicts
      BY <1>2, RoundNumbers DEF Verdicts
    <3> QED
      BY <3>1, JudgedRound
  <2>2. rounds' = [rounds EXCEPT ![r.round] = row]
    BY <1>4, <2>1
  <2>3. rounds \in Seq(Round)
    BY DEF ReviewInv, TablesTyped
  <2>4. /\ rounds' \in Seq(Round) /\ Len(rounds') = Len(rounds)
        /\ \A n \in 1..Len(rounds) : rounds'[n] = IF n = r.round THEN row ELSE rounds[n]
    BY <1>2, <2>2, <2>3, ExceptSeq
  <2>5. /\ \A n \in 1..Len(rounds) : rounds'[n].id = rounds[n].id /\ rounds'[n].note = rounds[n].note
        /\ \A n \in 1..Len(rounds) : rounds'[n].verdict = "superseded" <=> rounds[n].verdict = "superseded"
    BY <1>4, <2>1, <2>4
  <2>6. UNCHANGED <<findings, finals>>
    BY DEF SetVerdict
  <2>7. \A n : Reviewed(n)' = Reviewed(n)
    BY <2>6 DEF Reviewed
  <2>8. Replaced'
    <3>1. \A n \in 1..Len(rounds) : rounds[n].id.sup # 0 => rounds[n].id.sup \in 1..Len(rounds)
      BY RoundNumbers
    <3> QED
      BY <2>4, <2>5, <2>7, <3>1 DEF ReviewInv, Replaced
  <2>9. Steady
    BY <2>4, <2>8, RoundNumbers, RoundsSteady DEF SetVerdict
  <2>10. [r EXCEPT !.pc = "say"] \in Request
    BY <1>1 DEF Request
  <2> QED
    BY <1>1, <1>4, <2>9, <2>10, GoToReady DEF Finalizing
<1> QED
  BY <1>1, <1>3, <1>4 DEF SetVerdict

LEMMA SupersedeKeeps ==
    ASSUME ReviewInv, Reached, NEW q \in Reqs, CreateRoundSuperseding(q)
    PROVE  Steady /\ Ready(q)
<1>1. PICK r \in Request : r = reqs[q] /\ Fits(r) /\ r.pc = "supersede"
  <2>1. reqs[q] \in Request /\ Fits(reqs[q])
    BY DEF ReviewInv
  <2> QED
    BY <2>1 DEF CreateRoundSuperseding, At
<1>2. r.op \in Asking /\ r.id \in Identity /\ r.id.sup \in 1..Len(rounds)
  <2>1. r.op \in Asking /\ r.id \in Identity /\ r.id.sup # 0 /\ r.id.sup <= Len(rounds)
    BY <1>1 DEF Fits, Asking
  <2>2. r.id.sup \in Nat
    BY <2>1 DEF Identity
  <2> QED
    BY <2>1, <2>2, RoundNumbers
<1> DEFINE old == r.id.sup
           n == Len(rounds) + 1
<1>3. /\ UNCHANGED <<task, findings, packets, finals, thread>>
      /\ \/ Go(q, WithRound(q, Len(rounds))) /\ UNCHANGED rounds
         \/ Return(q) /\ UNCHANGED rounds
         \/ /\ rounds[old].verdict = "unset" /\ ~Reviewed(old) /\ Len(rounds) < MaxRounds
            /\ rounds' = [createRoundTx(r.id) EXCEPT ![old].verdict = "superseded", ![old].note = n]
            /\ Go(q, WithRound(q, n))
  BY <1>1 DEF CreateRoundSuperseding, Latest
<1>4. CASE UNCHANGED rounds
  <2>1. task' \in TaskStatus
    BY <1>3 DEF ReviewInv, TablesTyped
  <2>2. Steady
    BY <1>3, <1>4, <2>1, Unwritten
  <2>3. Len(rounds) \in 1..Len(rounds') /\ n # Len(rounds)
    BY <1>2, <1>4, RoundNumbers
  <2>4. CASE Return(q)
    BY <2>2, <2>4, ReturnReady
  <2>5. CASE Go(q, WithRound(q, Len(rounds)))
    BY <1>1, <1>2, <2>2, <2>3, <2>5, WithRoundReady
  <2>6. rounds' # [createRoundTx(r.id) EXCEPT ![old].verdict = "superseded", ![old].note = n]
    <3>1. rounds \in Seq(Round) /\ old \in 1..Len(rounds)
      BY <1>2 DEF ReviewInv, TablesTyped
    <3>2. Len([createRoundTx(r.id) EXCEPT ![old].verdict = "superseded", ![old].note = n]) = n
      BY <1>2, <3>1, StartTypes DEF createRoundTx
    <3> QED
      BY <1>4, <3>1, <3>2
  <2> QED
    BY <1>3, <2>2, <2>4, <2>5, <2>6
<1>5. CASE /\ rounds[old].verdict = "unset" /\ ~Reviewed(old) /\ Len(rounds) < MaxRounds
           /\ rounds' = [createRoundTx(r.id) EXCEPT ![old].verdict = "superseded", ![old].note = n]
           /\ Go(q, WithRound(q, n))
  <2>1. rounds \in Seq(Round) /\ Len(rounds) \in Nat /\ old \in 1..Len(rounds) /\ n \in Nat /\ n <= MaxRounds
    BY <1>2, <1>5, RoundNumbers DEF ReviewInv, TablesTyped
  <2>2. PICK row \in Round : /\ row = [id |-> r.id, verdict |-> "unset", note |-> 0]
                             /\ row.id = r.id /\ row.verdict = "unset"
    BY <1>2, StartTypes
  <2>3. PICK closed \in Round : /\ closed = [rounds[old] EXCEPT !.verdict = "superseded", !.note = n]
                                /\ closed.id = rounds[old].id /\ closed.verdict = "superseded" /\ closed.note = n
    <3>1. rounds[old] \in Round /\ n \in 0..MaxRounds
      BY <2>1, RoundNumbers
    <3>2. Closed(rounds[old], n) \in Round
      BY <3>1, ClosedRound
    <3>3. /\ Closed(rounds[old], n).id = rounds[old].id /\ Closed(rounds[old], n).verdict = "superseded"
          /\ Closed(rounds[old], n).note = n
      BY <3>1, ClosedRound
    <3>4. Closed(rounds[old], n) = [rounds[old] EXCEPT !.verdict = "superseded", !.note = n]
      BY DEF Closed
    <3> HIDE DEF n, old
    <3> QED
      BY <3>2, <3>3, <3>4
  <2>4. /\ createRoundTx(r.id) \in Seq(Round) /\ Len(createRoundTx(r.id)) = n
        /\ \A m \in 1..Len(rounds) : createRoundTx(r.id)[m] = rounds[m]
        /\ createRoundTx(r.id)[n] = row
    <3>1. createRoundTx(r.id) = Append(rounds, row)
      BY <2>2 DEF createRoundTx
    <3> QED
      BY <2>1, <3>1, AppendProperties
  <2>5. rounds' = [createRoundTx(r.id) EXCEPT ![old] = closed]
    <3>1. createRoundTx(r.id)[old] = rounds[old] /\ old \in DOMAIN createRoundTx(r.id)
      BY <2>1, <2>4
    <3> HIDE DEF n
    <3> QED
      BY <1>5, <2>3, <3>1
  <2>6. /\ rounds' \in Seq(Round) /\ Len(rounds') = n
        /\ rounds'[n] = row /\ rounds'[old] = closed
        /\ \A m \in 1..Len(rounds) : m # old => rounds'[m] = rounds[m]
    <3>1. old \in 1..n /\ n # old /\ n \in 1..n /\ \A m \in 1..Len(rounds) : m \in 1..n
      BY <2>1
    <3> HIDE DEF n
    <3> QED
      BY <2>4, <2>5, <3>1, ExceptSeq
  <2>7. \A m \in 1..n : m \in 1..Len(rounds) \/ m = n
    BY <2>1
  <2>8. \A m : Reviewed(m)' = Reviewed(m)
    BY <1>3 DEF Reviewed
  <2>9. \A m \in 1..Len(rounds) : rounds[m].id.sup # 0 =>
           rounds[m].id.sup \in 1..Len(rounds) /\ rounds[m].id.sup # old
    BY <1>5, RoundNumbers DEF ReviewInv, Replaced
  <2>10. n \in 1..n /\ n \notin 1..Len(rounds) /\ \A m \in 1..Len(rounds) : m \in 1..n
    BY <2>1
  <2> HIDE DEF n
  <2>11. \A m \in 1..n : rounds'[m].id.sup <= n
    <3>1. \A m \in 1..Len(rounds) : rounds[m].id.sup <= n
      BY <2>1, RoundNumbers DEF n
    <3>2. r.id.sup <= n
      BY <2>1 DEF n
    <3>3. rounds'[n].id.sup <= n /\ rounds'[old].id.sup <= n
      BY <2>1, <2>2, <2>3, <2>6, <3>1, <3>2
    <3> QED
      BY <2>6, <2>7, <3>1, <3>3
  <2>12. \A m \in 1..n : rounds'[m].verdict = "superseded" => ~Reviewed(m)
    BY <1>5, <2>2, <2>6, <2>7 DEF ReviewInv, Replaced
  <2>13. \A m \in 1..n : rounds'[m].verdict = "superseded" =>
           rounds'[m].note \in 1..n /\ rounds'[rounds'[m].note].id.sup = m
    <3>1. \A m \in 1..Len(rounds) : rounds'[m].id = rounds[m].id
      BY <2>3, <2>6
    <3>2. ASSUME NEW m \in 1..Len(rounds), m # old, rounds[m].verdict = "superseded"
          PROVE  rounds[m].note \in 1..Len(rounds) /\ rounds[rounds[m].note].id.sup = m
      BY <3>2 DEF ReviewInv, Replaced
    <3>3. ASSUME NEW m \in 1..Len(rounds), m # old, rounds[m].verdict = "superseded"
          PROVE  rounds'[m].note \in 1..n /\ rounds'[rounds'[m].note].id.sup = m
      BY <2>6, <2>10, <3>1, <3>2, <3>3
    <3>4. rounds'[old].note \in 1..n /\ rounds'[rounds'[old].note].id.sup = old
      BY <2>2, <2>3, <2>6, <2>10
    <3> QED
      BY <2>2, <2>6, <2>7, <3>3, <3>4
  <2>14. \A m \in 1..n : rounds'[m].id.sup # 0 =>
           rounds'[rounds'[m].id.sup].verdict = "superseded" /\ rounds'[rounds'[m].id.sup].note = m
    <3>1. \A m \in 1..Len(rounds) : rounds'[m].id = rounds[m].id
      BY <2>3, <2>6
    <3>2. ASSUME NEW m \in 1..Len(rounds), rounds[m].id.sup # 0
          PROVE  rounds'[rounds'[m].id.sup].verdict = "superseded" /\ rounds'[rounds'[m].id.sup].note = m
      <4>1. rounds[m].id.sup \in 1..Len(rounds) /\ rounds[m].id.sup # old
        BY <2>9, <3>2
      <4>2. rounds[rounds[m].id.sup].verdict = "superseded" /\ rounds[rounds[m].id.sup].note = m
        BY <3>2 DEF ReviewInv, Replaced
      <4> QED
        BY <2>6, <3>1, <4>1, <4>2
    <3>3. rounds'[n].id.sup = old /\ rounds'[old].verdict = "superseded" /\ rounds'[old].note = n
      BY <2>2, <2>3, <2>6
    <3>4. ASSUME NEW m \in 1..Len(rounds), rounds'[m].id.sup # 0 PROVE rounds[m].id.sup # 0
      BY <3>1, <3>4
    <3>5. ASSUME NEW m \in 1..n, rounds'[m].id.sup # 0
          PROVE  rounds'[rounds'[m].id.sup].verdict = "superseded" /\ rounds'[rounds'[m].id.sup].note = m
      <4>1. CASE m = n
        BY <3>3, <4>1
      <4>2. CASE m \in 1..Len(rounds)
        BY <3>2, <3>4, <3>5, <4>2
      <4> QED
        BY <2>7, <4>1, <4>2
    <3> QED
      BY <3>5
  <2>15. Replaced'
    BY <2>6, <2>8, <2>11, <2>12, <2>13, <2>14 DEF Replaced
  <2>16. Steady
    <3>1. Len(rounds) <= n
      BY <2>1 DEF n
    <3> QED
      BY <1>3, <2>1, <2>6, <2>15, <3>1, RoundsSteady
  <2> QED
    BY <1>1, <1>2, <1>5, <2>6, <2>10, <2>16, WithRoundReady
<1> QED
  BY <1>3, <1>4, <1>5

-----------------------------------------------------------------------------
(* Steps that write findings                                                 *)

\* Findings come to rounds that are not superseded.
LEMMA FindingsSteady ==
    ASSUME ReviewInv, Reached, UNCHANGED <<task, rounds, packets, finals, thread>>,
           findings' \in Seq(Finding), Len(findings) <= Len(findings'), Len(findings') <= MaxFindings,
           \A f \in 1..Len(findings') :
              \/ f \in 1..Len(findings) /\ findings'[f].round = findings[f].round
              \/ rounds[findings'[f].round].verdict # "superseded"
    PROVE  Steady
<1>1. TablesTyped /\ Delivery /\ Replaced
  BY DEF ReviewInv
<1>2. reached' \subseteq RoundIds /\ reached \subseteq reached'
  BY <1>1 DEF TablesTyped, Reached
<1>3. TablesTyped'
  BY <1>1, <1>2 DEF TablesTyped
<1>4. Kept
  BY <1>1, <1>2 DEF TablesTyped, Kept, Stands
<1>5. Delivery'
  BY <1>1, <1>2 DEF Delivery, FinalFits
<1>6. DOMAIN findings = 1..Len(findings) /\ DOMAIN findings' = 1..Len(findings')
  BY <1>1 DEF TablesTyped
<1>7. \A n : rounds[n].verdict = "superseded" /\ ~Reviewed(n) => ~Reviewed(n)'
  BY <1>6 DEF Reviewed
<1>8. Replaced'
  BY <1>1, <1>7 DEF Replaced
<1> QED
  BY <1>3, <1>4, <1>5, <1>8 DEF Steady

LEMMA CreateFindingKeeps ==
    ASSUME ReviewInv, Reached, NEW q \in Reqs, CreateFinding(q)
    PROVE  Steady /\ Ready(q)
<1>1. PICK r \in Request : r = reqs[q] /\ Fits(r) /\ r.pc = "insert"
  <2>1. reqs[q] \in Request /\ Fits(reqs[q])
    BY DEF ReviewInv
  <2> QED
    BY <2>1 DEF CreateFinding, At
<1>2. r.round \in 1..Len(rounds) /\ r.round \in RoundIds
  BY <1>1, RoundNumbers DEF Fits
<1>3. UNCHANGED <<task, rounds, packets, finals, thread>> /\ Return(q)
  BY DEF CreateFinding
<1>4. CASE UNCHANGED findings
  <2>1. task' \in TaskStatus
    BY <1>3 DEF ReviewInv, TablesTyped
  <2> QED
    BY <1>3, <1>4, <2>1, Unwritten, ReturnReady
<1>5. CASE /\ rounds[r.round].verdict # "superseded" /\ Len(findings) < MaxFindings
           /\ findings' = Append(findings, [round |-> r.round, status |-> "open"])
  <2>1. PICK row \in Finding : row = [round |-> r.round, status |-> "open"] /\ row.round = r.round
    <3>1. [round |-> r.round, status |-> "open"] \in Finding
      BY <1>2 DEF Finding, FindingStatus
    <3> QED
      BY <3>1
  <2>2. findings \in Seq(Finding) /\ Len(findings) \in Nat /\ MaxFindings \in Nat
    BY BoundsAssumption DEF ReviewInv, TablesTyped
  <2>3. /\ findings' \in Seq(Finding) /\ Len(findings') = Len(findings) + 1
        /\ \A f \in 1..Len(findings) : findings'[f] = findings[f]
        /\ findings'[Len(findings) + 1] = row
    BY <1>5, <2>1, <2>2, AppendProperties
  <2>4. \A f \in 1..Len(findings') : f \in 1..Len(findings) \/ f = Len(findings) + 1
    BY <2>2, <2>3
  <2>5. Len(findings) <= Len(findings') /\ Len(findings') <= MaxFindings
    BY <1>5, <2>2, <2>3
  <2> QED
    BY <1>3, <1>5, <2>1, <2>3, <2>4, <2>5, FindingsSteady, ReturnReady
<1> QED
  BY <1>1, <1>4, <1>5 DEF CreateFinding

LEMMA UpdateFindingKeeps ==
    ASSUME ReviewInv, Reached, NEW q \in Reqs, UpdateFinding(q)
    PROVE  Steady /\ Ready(q)
<1>1. PICK r \in Request : r = reqs[q] /\ Fits(r) /\ r.pc = "update"
  <2>1. reqs[q] \in Request /\ Fits(reqs[q])
    BY DEF ReviewInv
  <2> QED
    BY <2>1 DEF UpdateFinding, At
<1>2. r.op \in AboutFindings /\ r.todo \subseteq 1..Len(findings) /\ r.todo \in SUBSET (1..MaxFindings)
  BY <1>1 DEF Fits, Request
<1>3. PICK f \in r.todo :
         /\ findings' = IF r.status = None THEN findings ELSE [findings EXCEPT ![f].status = r.status]
         /\ Return(q) \/ Go(q, [r EXCEPT !.todo = @ \ {f}])
  BY <1>1 DEF UpdateFinding
<1>4. UNCHANGED <<task, rounds, packets, finals, thread>>
  BY DEF UpdateFinding
<1>5. /\ findings' \in Seq(Finding) /\ Len(findings') = Len(findings)
      /\ \A g \in 1..Len(findings) : findings'[g].round = findings[g].round
  <2>1. findings \in Seq(Finding) /\ f \in 1..Len(findings) /\ findings[f] \in Finding
    BY <1>2 DEF ReviewInv, TablesTyped
  <2>2. CASE r.status = None
    BY <1>3, <2>1, <2>2
  <2>3. CASE r.status # None
    <3>1. r.status \in FindingStatus
      BY <2>3 DEF Request
    <3>2. PICK row \in Finding : row = [findings[f] EXCEPT !.status = r.status] /\ row.round = findings[f].round
      <4>1. ASSUME NEW x \in Finding, NEW s \in FindingStatus
            PROVE  [x EXCEPT !.status = s] \in Finding /\ [x EXCEPT !.status = s].round = x.round
        BY DEF Finding
      <4> QED
        BY <2>1, <3>1, <4>1
    <3>3. findings' = [findings EXCEPT ![f] = row]
      BY <1>3, <2>3, <3>2
    <3>4. /\ findings' \in Seq(Finding) /\ Len(findings') = Len(findings)
          /\ \A g \in 1..Len(findings) : findings'[g] = IF g = f THEN row ELSE findings[g]
      BY <2>1, <3>3, ExceptSeq
    <3> QED
      BY <3>2, <3>4
  <2> QED
    BY <2>2, <2>3
<1>6. Steady
  <2>1. Len(findings) <= Len(findings') /\ Len(findings') <= MaxFindings
    BY <1>5 DEF ReviewInv, TablesTyped
  <2> QED
    BY <1>4, <1>5, <2>1, FindingsSteady
<1>7. CASE Return(q)
  BY <1>6, <1>7, ReturnReady
<1>8. CASE Go(q, [r EXCEPT !.todo = @ \ {f}])
  <2> DEFINE next == WithTodo(r, "update", r.todo \ {f})
  <2>1. [r EXCEPT !.todo = @ \ {f}] = next
    BY <1>1 DEF WithTodo, Request
  <2>2. r.todo \ {f} \in SUBSET (1..MaxFindings)
    BY <1>2
  <2>3. /\ next \in Request
        /\ next.pc = "update" /\ next.todo = r.todo \ {f} /\ next.key = r.key /\ next.msg = r.msg
        /\ next.op = r.op /\ next.id = r.id /\ next.round = r.round /\ next.dec = r.dec
    BY <2>2, TodoRequest
  <2>4. reqs' = [reqs EXCEPT ![q] = next]
    BY <1>8, <2>1 DEF Go
  <2> HIDE DEF next
  <2>5. Fits(r)'
    BY <1>1, <1>6, StillFits
  <2>6. Fits(next)'
    BY <1>2, <1>5, <2>3, <2>5 DEF Fits, Asking, AboutRound, AboutFindings, Finalizing
  <2> QED
    BY <1>6, <2>3, <2>4, <2>6 DEF Ready
<1> QED
  BY <1>3, <1>7, <1>8

-----------------------------------------------------------------------------
(* Steps that write packets and messages                                     *)

LEMMA PacketsSteady ==
    ASSUME ReviewInv, Reached, UNCHANGED <<task, rounds, findings, finals, thread>>,
           NEW k \in Keys, NEW m \in 0..Len(thread), m # 0 => thread[m] = k,
           packets' = [packets EXCEPT ![k] = m]
    PROVE  Steady
<1>1. TablesTyped /\ Delivery /\ Replaced
  BY DEF ReviewInv
<1>2. reached' \subseteq RoundIds /\ reached \subseteq reached'
  BY <1>1 DEF TablesTyped, Reached
<1>3. /\ packets' \in [Keys -> {None} \cup 0..Len(thread)]
      /\ packets'[k] = m
      /\ \A l \in Keys : l # k => packets'[l] = packets[l]
  BY <1>1 DEF TablesTyped
<1>4. TablesTyped'
  BY <1>1, <1>2, <1>3 DEF TablesTyped
<1>5. Kept
  BY <1>1, <1>2 DEF TablesTyped, Kept, Stands
<1>6. Replaced'
  BY <1>1 DEF Replaced, Reviewed
<1>7. m # None
  <2>1. m \in Nat
    BY <1>1 DEF TablesTyped
  <2> QED
    BY <2>1, NoneAssumption
<1>8. \A r \in RoundIds : finals[r] # None => finals[r].key \in Keys
  BY <1>1 DEF TablesTyped, Finalization
<1>9. ASSUME NEW r \in RoundIds, finals'[r] # None PROVE FinalFits(r)'
  BY <1>1, <1>2, <1>3, <1>7, <1>8, <1>9 DEF Delivery, FinalFits
<1>10. \A l \in Keys : packets'[l] \notin {None, 0} => thread'[packets'[l]] = l
  BY <1>1, <1>3 DEF Delivery
<1>11. Delivery'
  BY <1>1, <1>9, <1>10 DEF Delivery
<1> QED
  BY <1>4, <1>5, <1>6, <1>11 DEF Steady

LEMMA StoreKeeps ==
    ASSUME ReviewInv, Reached, NEW q \in Reqs, StorePacket(q)
    PROVE  Steady /\ Ready(q)
<1>1. PICK r \in Request : r = reqs[q] /\ Fits(r) /\ r.pc \in {"reserve", "accept"}
  <2>1. reqs[q] \in Request /\ Fits(reqs[q])
    BY DEF ReviewInv
  <2> QED
    BY <2>1 DEF StorePacket, At
<1>2. r.key \in Keys /\ Len(thread) \in Nat
  BY <1>1 DEF Fits, ReviewInv, TablesTyped
<1>3. CASE r.pc = "reserve"
  <2>1. packets' = [packets EXCEPT ![r.key] = 0] /\ GoTo(q, "append")
    BY <1>1, <1>3 DEF StorePacket, At
  <2>2. 0 \in 0..Len(thread)
    BY <1>2
  <2>3. Steady
    BY <1>2, <2>1, <2>2, PacketsSteady DEF StorePacket
  <2>4. [r EXCEPT !.pc = "append"] \in Request /\ r.op # "finalize"
    BY <1>1 DEF Request, Fits
  <2> QED
    BY <1>1, <1>2, <2>1, <2>3, <2>4, GoToReady DEF Finalizing
<1>4. CASE r.pc = "accept"
  <2>1. packets' = [packets EXCEPT ![r.key] = r.msg] /\ Delivered(q)
    BY <1>1, <1>4 DEF StorePacket, At
  <2>2. r.msg \in 0..Len(thread) /\ thread[r.msg] = r.key
    BY <1>1, <1>2, <1>4 DEF Fits
  <2>3. Steady
    BY <1>2, <2>1, <2>2, PacketsSteady DEF StorePacket
  <2> QED
    BY <2>1, <2>3, DeliveredReady
<1> QED
  BY <1>1, <1>3, <1>4

\* A message is added, or none: a packet that is on the thread is not added.
LEMMA ThreadSteady ==
    ASSUME ReviewInv, Reached, UNCHANGED <<task, reviewTables>>,
           NEW k \in Keys \cup {None}, thread' \in {thread, CreateMessage(k)}
    PROVE  Steady
<1>1. TablesTyped /\ Delivery /\ Replaced
  BY DEF ReviewInv
<1>2. reached' \subseteq RoundIds /\ reached \subseteq reached'
  BY <1>1 DEF TablesTyped, Reached, reviewTables
<1>3. thread \in Seq(Keys \cup {None}) /\ Len(thread) \in Nat /\ DOMAIN thread = 1..Len(thread)
  BY <1>1 DEF TablesTyped
<1>4. CASE thread' = thread
  <2>1. task' \in TaskStatus
    BY <1>1 DEF TablesTyped
  <2> QED
    BY <1>4, <2>1, Unwritten DEF reviewTables
<1>5. CASE /\ thread' = Append(thread, k)
           /\ k = None \/ \A m \in 1..Len(thread) : thread[m] # k
  <2>1. /\ thread' \in Seq(Keys \cup {None}) /\ Len(thread') = Len(thread) + 1
        /\ \A m \in 1..Len(thread) : thread'[m] = thread[m]
        /\ thread'[Len(thread) + 1] = k
    <3> DEFINE Carried == Keys \cup {None}
    <3>1. thread \in Seq(Carried) /\ k \in Carried
      BY <1>3
    <3> HIDE DEF Carried
    <3>2. thread' \in Seq(Carried)
      BY <1>5, <3>1, AppendProperties
    <3>3. /\ Len(thread') = Len(thread) + 1
          /\ \A m \in 1..Len(thread) : thread'[m] = thread[m]
          /\ thread'[Len(thread) + 1] = k
      BY <1>5, <3>1, AppendProperties
    <3> QED
      BY <3>2, <3>3 DEF Carried
  <2>2. /\ \A m \in 1..Len(thread') : m \in 1..Len(thread) \/ m = Len(thread) + 1
        /\ 0..Len(thread) \subseteq 0..Len(thread')
        /\ Len(thread) <= Len(thread')
    BY <1>3, <2>1
  <2>3. packets' \in [Keys -> {None} \cup 0..Len(thread')]
    <3>1. packets' = packets
      BY DEF reviewTables
    <3>2. packets \in [Keys -> {None} \cup 0..Len(thread)]
      BY <1>1 DEF TablesTyped
    <3> QED
      BY <2>2, <3>1, <3>2
  <2>4. TablesTyped'
    BY <1>1, <1>2, <2>1, <2>3 DEF TablesTyped, reviewTables
  <2>5. Kept
    BY <1>1, <1>2, <2>1, <2>2 DEF TablesTyped, Kept, Stands, reviewTables
  <2>6. Replaced'
    BY <1>1 DEF Replaced, Reviewed, reviewTables
  <2>7. \A m, n \in 1..Len(thread') : thread'[m] = thread'[n] /\ thread'[m] # None => m = n
    BY <1>1, <1>5, <2>1, <2>2 DEF Delivery
  <2>8. \A l \in Keys : packets'[l] \notin {None, 0} => thread'[packets'[l]] = l
    <3> SUFFICES ASSUME NEW l \in Keys, packets[l] \notin {None, 0} PROVE thread'[packets[l]] = l
      BY DEF reviewTables
    <3>1. packets[l] \in 1..Len(thread) /\ thread[packets[l]] = l
      BY <1>1, <1>3 DEF Delivery, TablesTyped
    <3> QED
      BY <2>1, <3>1
  <2>9. ASSUME NEW r \in RoundIds, finals'[r] # None PROVE FinalFits(r)'
    <3>1. UNCHANGED <<finals, packets>> /\ FinalFits(r)
      BY <1>1, <2>9 DEF Delivery, reviewTables
    <3>2. finals[r].msg \in 0..Len(thread')
      BY <2>2, <3>1 DEF FinalFits
    <3>3. posted(finals[r]) => thread'[finals[r].msg] = finals[r].key
      BY <1>3, <2>1, <3>1 DEF FinalFits, posted
    <3> QED
      BY <1>2, <3>1, <3>2, <3>3 DEF FinalFits, posted
  <2>10. Delivery'
    BY <2>7, <2>8, <2>9 DEF Delivery
  <2> QED
    BY <2>4, <2>5, <2>6, <2>10 DEF Steady
<1> QED
  BY <1>3, <1>4, <1>5 DEF CreateMessage

\* The message found after the insert carries the packet.
LEMMA MessageFound ==
    ASSUME NEW k \in Keys, thread \in Seq(Keys \cup {None})
    PROVE  LET th == CreateMessage(k) IN MessageOf(k, th) \in 1..Len(th) /\ th[MessageOf(k, th)] = k
<1> DEFINE th == CreateMessage(k)
<1>1. th \in Seq(Keys \cup {None}) /\ \E m \in 1..Len(th) : th[m] = k
  <2>1. CASE \E m \in DOMAIN thread : thread[m] = k
    BY <2>1, NoneAssumption DEF CreateMessage
  <2>2. CASE ~ \E m \in DOMAIN thread : thread[m] = k
    <3>1. th = Append(thread, k)
      BY <2>2 DEF CreateMessage
    <3>2. th \in Seq(Keys \cup {None}) /\ Len(th) = Len(thread) + 1 /\ th[Len(thread) + 1] = k
      BY <3>1, AppendProperties
    <3>3. Len(thread) + 1 \in 1..Len(th)
      BY <3>2
    <3> QED
      BY <3>2, <3>3
  <2> QED
    BY <2>1, <2>2
<1>2. DOMAIN th = 1..Len(th)
  BY <1>1
<1> HIDE DEF th
<1>3. MessageOf(k, th) \in 1..Len(th) /\ th[MessageOf(k, th)] = k
  BY <1>1, <1>2 DEF MessageOf
<1> QED
  BY <1>3 DEF th

LEMMA SayKeeps ==
    ASSUME ReviewInv, Reached, NEW q \in Reqs, AppendVerdictMessage(q)
    PROVE  Steady /\ Ready(q)
<1>1. UNCHANGED <<task, reviewTables>> /\ thread' = CreateMessage(None) /\ Return(q)
  BY DEF AppendVerdictMessage
<1> QED
  BY <1>1, ThreadSteady, ReturnReady

Answered == {"mark_posted", "accept", "read_task", "complete"}
WithMessage(r, pc, m) == [r EXCEPT !.pc = pc, !.msg = m]

LEMMA MessageRequest ==
    ASSUME NEW r \in Request, NEW pc \in Answered, NEW m \in Nat
    PROVE  LET next == WithMessage(r, pc, m) IN
           /\ next \in Request
           /\ next.pc = pc /\ next.msg = m /\ next.key = r.key /\ next.todo = r.todo
           /\ next.op = r.op /\ next.id = r.id /\ next.round = r.round /\ next.dec = r.dec
<1> DEFINE a == [r EXCEPT !.pc = pc]
<1>1. /\ a \in Request
      /\ a.pc = pc /\ a.key = r.key /\ a.todo = r.todo
      /\ a.op = r.op /\ a.id = r.id /\ a.round = r.round /\ a.dec = r.dec
  BY DEF Request, Answered
<1>2. WithMessage(r, pc, m) = [a EXCEPT !.msg = m]
  BY DEF WithMessage, Request
<1> HIDE DEF a
<1> QED
  BY <1>1, <1>2 DEF Request

LEMMA AppendKeeps ==
    ASSUME ReviewInv, Reached, NEW q \in Reqs, appendPacketMessage(q)
    PROVE  Steady /\ Ready(q)
<1>1. PICK r \in Request : r = reqs[q] /\ Fits(r) /\ r.pc = "append"
  <2>1. reqs[q] \in Request /\ Fits(reqs[q])
    BY DEF ReviewInv
  <2> QED
    BY <2>1 DEF appendPacketMessage, At
<1>2. r.key \in Keys /\ (r.op = "finalize" => r.pc \in Finalizing)
  BY <1>1 DEF Fits, Finalizing
<1>3. UNCHANGED <<task, reviewTables>>
  BY DEF appendPacketMessage
<1>4. Steady
  <2>1. thread' \in {thread, CreateMessage(r.key)}
    BY <1>1 DEF appendPacketMessage
  <2> QED
    BY <1>2, <1>3, <2>1, ThreadSteady
<1>5. r \in Request /\ Fits(r)'
  BY <1>1, <1>4, StillFits
<1>6. ASSUME NEW pc \in {"mark_posted", "accept"}, pc = "mark_posted" <=> r.op = "finalize",
             thread' = CreateMessage(r.key), Go(q, WithMessage(r, pc, MessageOf(r.key, CreateMessage(r.key))))
      PROVE  Ready(q)
  <2>1. PICK m : m = MessageOf(r.key, CreateMessage(r.key))
    OBVIOUS
  <2>2. m \in 1..Len(thread') /\ thread'[m] = r.key
    BY <1>2, <1>6, <2>1, MessageFound DEF ReviewInv, TablesTyped
  <2>3. m \in Nat
    BY <2>2, <1>4 DEF Steady, TablesTyped
  <2> DEFINE next == WithMessage(r, pc, m)
  <2>4. /\ next \in Request
        /\ next.pc = pc /\ next.msg = m /\ next.key = r.key /\ next.todo = r.todo
        /\ next.op = r.op /\ next.id = r.id /\ next.round = r.round /\ next.dec = r.dec
    <3>1. pc \in Answered
      BY DEF Answered
    <3> QED
      BY <1>1, <2>3, <3>1, MessageRequest
  <2> HIDE DEF next
  <2>5. Carries(r)' => Carries(next)'
    BY <2>4 DEF Carries
  <2>6. Fits(next)'
    BY <1>2, <1>5, <1>6, <2>2, <2>4, <2>5 DEF Fits, Asking, AboutRound, AboutFindings, Finalizing
  <2> QED
    BY <1>6, <2>1, <2>4, <2>6 DEF Ready, Go, next
<1>7. \/ /\ thread' = CreateMessage(r.key)
         /\ Go(q, WithMessage(r, IF r.op = "finalize" THEN "mark_posted" ELSE "accept",
                              MessageOf(r.key, CreateMessage(r.key))))
      \/ r.op = "finalize" /\ Go(q, [reqs[q] EXCEPT !.pc = "fail", !.step = "packet_delivery"])
      \/ Return(q)
  BY <1>1 DEF appendPacketMessage, WithMessage
<1>8. CASE r.op = "finalize" /\ Go(q, [reqs[q] EXCEPT !.pc = "fail", !.step = "packet_delivery"])
  BY <1>1, <1>2, <1>4, <1>8, FailReady
<1> QED
  BY <1>4, <1>6, <1>7, <1>8, ReturnReady

-----------------------------------------------------------------------------
(* Steps that write finalizations                                            *)

LEMMA FinalSteady ==
    ASSUME ReviewInv, Reached, UNCHANGED <<task, thread>>, Replaced',
           rounds' \in Seq(Round), Len(rounds) <= Len(rounds'), Len(rounds') <= MaxRounds,
           findings' \in Seq(Finding), Len(findings) <= Len(findings'), Len(findings') <= MaxFindings,
           packets' \in [Keys -> {None} \cup 0..Len(thread)],
           \A k \in Keys : packets[k] # None => packets'[k] # None,
           \A k \in Keys : packets'[k] \notin {None, 0} => thread[packets'[k]] = k,
           NEW r \in RoundIds, NEW g \in Finalization, finals' = [finals EXCEPT ![r] = g],
           finals[r] # None => Stands(finals[r], g),
           packets'[g.key] # None,
           g.msg \in 0..Len(thread), posted(g) => thread[g.msg] = g.key,
           g.moved => r \in reached,
           g.state = "complete" => posted(g) /\ g.moved
    PROVE  Steady
<1>1. TablesTyped /\ Delivery
  BY DEF ReviewInv
<1>2. reached' \subseteq RoundIds /\ reached \subseteq reached'
  BY <1>1 DEF TablesTyped, Reached
<1>3. /\ finals' \in [RoundIds -> Finalization \cup {None}]
      /\ finals'[r] = g /\ g # None
      /\ \A s \in RoundIds : s # r => finals'[s] = finals[s]
  BY <1>1, NoneAssumption DEF TablesTyped
<1>4. TablesTyped'
  BY <1>1, <1>2, <1>3 DEF TablesTyped
<1>5. Kept
  BY <1>1, <1>2, <1>3 DEF TablesTyped, Kept, Stands
<1>6. ASSUME NEW s \in RoundIds, finals'[s] # None PROVE FinalFits(s)'
  <2>1. CASE s = r
    BY <1>2, <1>3, <2>1 DEF FinalFits
  <2>2. CASE s # r
    <3>1. finals'[s] = finals[s] /\ FinalFits(s) /\ finals[s].key \in Keys
      BY <1>1, <1>3, <1>6, <2>2 DEF Delivery, TablesTyped, Finalization
    <3> QED
      BY <1>2, <3>1 DEF FinalFits
  <2> QED
    BY <2>1, <2>2
<1>7. Delivery'
  BY <1>1, <1>6 DEF Delivery
<1> QED
  BY <1>4, <1>5, <1>7 DEF Steady

\* A finalization that is updated: its round was reviewed before.
LEMMA UpdateSteady ==
    ASSUME ReviewInv, Reached, UNCHANGED <<task, thread, rounds, findings>>,
           packets' \in [Keys -> {None} \cup 0..Len(thread)],
           \A k \in Keys : packets[k] # None => packets'[k] # None,
           \A k \in Keys : packets'[k] \notin {None, 0} => thread[packets'[k]] = k,
           NEW r \in RoundIds, finals[r] # None, NEW g \in Finalization, finals' = [finals EXCEPT ![r] = g],
           Stands(finals[r], g),
           g.msg \in 0..Len(thread), posted(g) => thread[g.msg] = g.key,
           g.moved => r \in reached,
           g.state = "complete" => posted(g) /\ g.moved
    PROVE  Steady
<1>1. TablesTyped /\ Delivery /\ Replaced
  BY DEF ReviewInv
<1>2. finals'[r] = g /\ g # None /\ \A s \in RoundIds : s # r => finals'[s] = finals[s]
  BY <1>1, NoneAssumption DEF TablesTyped
<1>3. \A s \in 1..Len(rounds) : Reviewed(s)' => Reviewed(s)
  <2>1. \A s \in 1..Len(rounds) : finals'[s] # None => finals[s] # None
    BY <1>2, RoundNumbers
  <2> QED
    BY <2>1 DEF Reviewed
<1>4. Replaced'
  BY <1>1, <1>3 DEF Replaced
<1>5. packets'[g.key] # None
  BY <1>1 DEF Delivery, FinalFits, Finalization, Stands
<1>6. /\ Len(rounds) <= MaxRounds /\ Len(findings) <= MaxFindings
      /\ rounds' \in Seq(Round) /\ findings' \in Seq(Finding)
      /\ Len(rounds) <= Len(rounds') /\ Len(findings) <= Len(findings')
  BY <1>1 DEF TablesTyped
<1> QED
  BY <1>4, <1>5, <1>6, FinalSteady

\* The request carries out a decision that is there.
LEMMA CarriedOut ==
    ASSUME ReviewInv, NEW q \in Reqs, NEW r, r = reqs[q], r.pc \in Finalizing \ {"append"}
    PROVE  /\ r \in Request /\ Fits(r) /\ r.op = "finalize" /\ r.round \in RoundIds
           /\ finals[r.round] \in Finalization /\ finals[r.round] # None
           /\ finals[r.round].dec = r.dec /\ finals[r.round].key = r.key
           /\ FinalFits(r.round)
<1>1. r \in Request /\ Fits(r)
  BY DEF ReviewInv
<1>2. r.op = "finalize" /\ r.round \in RoundIds /\ Carries(r)
  BY <1>1, BoundsAssumption DEF Fits, AboutRound, Finalizing, ReviewInv, TablesTyped, RoundIds
<1>3. finals[r.round] # None /\ finals[r.round] \in Finalization
  BY <1>2 DEF Carries, ReviewInv, TablesTyped
<1> QED
  BY <1>1, <1>2, <1>3 DEF Carries, ReviewInv, Delivery

FinalState == {"pending", "packet_posted", "task_transitioned", "complete", "retryable_error"}
Changed(f, m, v, s) == [[[f EXCEPT !.msg = m] EXCEPT !.moved = v] EXCEPT !.state = s]

LEMMA ChangedFinal ==
    ASSUME NEW f \in Finalization, NEW m \in Nat, NEW v \in BOOLEAN, NEW s \in FinalState
    PROVE  LET g == Changed(f, m, v, s) IN
           /\ g \in Finalization
           /\ g.dec = f.dec /\ g.key = f.key /\ g.msg = m /\ g.moved = v /\ g.state = s
<1> DEFINE a == [f EXCEPT !.msg = m]
           b == [a EXCEPT !.moved = v]
<1>1. a \in Finalization /\ a.dec = f.dec /\ a.key = f.key /\ a.msg = m
  BY DEF Finalization
<1> HIDE DEF a
<1>2. b \in Finalization /\ b.dec = f.dec /\ b.key = f.key /\ b.msg = m /\ b.moved = v
  BY <1>1 DEF Finalization
<1> HIDE DEF b
<1>3. Changed(f, m, v, s) = [b EXCEPT !.state = s]
  BY DEF a, b, Changed
<1> QED
  BY <1>2, <1>3 DEF Finalization, FinalState

\* Without a change of the packets.
LEMMA ChangeSteady ==
    ASSUME ReviewInv, Reached, UNCHANGED <<task, thread, rounds, findings, packets>>,
           NEW r \in RoundIds, finals[r] # None, NEW g \in Finalization, finals' = [finals EXCEPT ![r] = g],
           Stands(finals[r], g), g.msg = finals[r].msg,
           g.moved => r \in reached,
           g.state = "complete" => posted(g) /\ g.moved
    PROVE  Steady
<1>1. TablesTyped /\ Delivery
  BY DEF ReviewInv
<1>2. /\ packets' \in [Keys -> {None} \cup 0..Len(thread)]
      /\ \A k \in Keys : packets[k] # None => packets'[k] # None
      /\ \A k \in Keys : packets'[k] \notin {None, 0} => thread[packets'[k]] = k
  BY <1>1 DEF TablesTyped, Delivery
<1>3. g.msg \in 0..Len(thread) /\ (posted(g) => thread[g.msg] = g.key)
  BY <1>1 DEF Delivery, FinalFits, posted, Stands
<1> QED
  BY <1>2, <1>3, UpdateSteady

LEMMA MarkMovedKeeps ==
    ASSUME ReviewInv, Reached, NEW q \in Reqs, MarkFinalizationTaskTransitioned(q)
    PROVE  Steady /\ Ready(q)
<1>1. PICK r : r = reqs[q] /\ r.pc = "mark_moved"
  BY DEF MarkFinalizationTaskTransitioned, At
<1>2. /\ r \in Request /\ Fits(r) /\ r.op = "finalize" /\ r.round \in RoundIds
      /\ finals[r.round] \in Finalization /\ finals[r.round] # None
      /\ FinalFits(r.round)
  BY <1>1, CarriedOut DEF Finalizing
<1>3. PICK f \in Finalization : f = finals[r.round]
  BY <1>2
<1>4. PICK s \in FinalState : s = (IF f.state = "complete" THEN f.state ELSE "task_transitioned")
  BY DEF Finalization, FinalState
<1> DEFINE v == TRUE
           g == Changed(f, f.msg, v, s)
<1>5. finals' = [finals EXCEPT ![r.round] = g]
  <2>1. finals' = [finals EXCEPT ![r.round] = [f EXCEPT !.moved = TRUE, !.state = s]]
    BY <1>1, <1>2, <1>3, <1>4 DEF MarkFinalizationTaskTransitioned, ReviewInv, TablesTyped
  <2>2. [f EXCEPT !.moved = TRUE, !.state = s] = g
    BY DEF Changed, Finalization
  <2> QED
    BY <2>1, <2>2
<1>6. g \in Finalization /\ g.dec = f.dec /\ g.key = f.key /\ g.msg = f.msg /\ g.moved = v /\ g.state = s
  <2>1. f.msg \in Nat /\ v \in BOOLEAN
    BY DEF Finalization
  <2> HIDE DEF v
  <2> QED
    BY <2>1, ChangedFinal
<1> HIDE DEF g
<1>7. Steady
  <2>1. r.round \in reached
    BY <1>1, <1>2 DEF Fits
  <2>2. s = "complete" => posted(g)
    BY <1>2, <1>3, <1>4, <1>6 DEF FinalFits, posted
  <2>3. Stands(f, g)
    BY <1>4, <1>6 DEF Stands
  <2> QED
    BY <1>2, <1>3, <1>5, <1>6, <2>1, <2>2, <2>3, ChangeSteady DEF MarkFinalizationTaskTransitioned
<1>8. GoTo(q, "complete") /\ [r EXCEPT !.pc = "complete"] \in Request
  BY <1>2 DEF MarkFinalizationTaskTransitioned, Request
<1> QED
  BY <1>1, <1>2, <1>7, <1>8, GoToReady DEF Finalizing

LEMMA CompleteKeeps ==
    ASSUME ReviewInv, Reached, NEW q \in Reqs, CompleteFinalization(q)
    PROVE  Steady /\ Ready(q)
<1>1. PICK r : r = reqs[q] /\ r.pc = "complete"
  BY DEF CompleteFinalization, At
<1>2. /\ r \in Request /\ Fits(r) /\ r.op = "finalize" /\ r.round \in RoundIds
      /\ finals[r.round] \in Finalization /\ finals[r.round] # None
      /\ FinalFits(r.round)
  BY <1>1, CarriedOut DEF Finalizing
<1>3. PICK f \in Finalization : f = finals[r.round]
  BY <1>2
<1>4. UNCHANGED <<task, rounds, findings, packets, thread>>
  BY DEF CompleteFinalization
<1>5. CASE posted(f) /\ f.moved
  <2> DEFINE g == Changed(f, f.msg, f.moved, "complete")
  <2>1. finals' = [finals EXCEPT ![r.round] = g] /\ Return(q)
    <3>1. finals' = [finals EXCEPT ![r.round] = [f EXCEPT !.state = "complete"]]
      BY <1>1, <1>3, <1>5 DEF CompleteFinalization
    <3>2. [f EXCEPT !.state = "complete"] = g
      BY DEF Changed, Finalization
    <3>3. Return(q)
      BY <1>1, <1>3, <1>5 DEF CompleteFinalization
    <3> QED
      BY <3>1, <3>2, <3>3
  <2>2. g \in Finalization /\ g.dec = f.dec /\ g.key = f.key /\ g.msg = f.msg /\ g.moved = f.moved
        /\ g.state = "complete"
    <3>1. f.msg \in Nat /\ f.moved \in BOOLEAN /\ "complete" \in FinalState
      BY DEF Finalization, FinalState
    <3> QED
      BY <3>1, ChangedFinal
  <2> HIDE DEF g
  <2>3. r.round \in reached /\ posted(g)
    BY <1>2, <1>3, <1>5, <2>2 DEF FinalFits, posted
  <2>4. Steady
    <3>1. Stands(f, g)
      BY <2>2 DEF Stands
    <3> QED
      BY <1>2, <1>3, <1>4, <1>5, <2>1, <2>2, <2>3, <3>1, ChangeSteady
  <2> QED
    BY <2>1, <2>4, ReturnReady
<1>6. CASE ~(posted(f) /\ f.moved)
  <2>1. UNCHANGED finals /\ Go(q, [reqs[q] EXCEPT !.pc = "fail", !.step = "completion"])
    BY <1>1, <1>3, <1>6 DEF CompleteFinalization
  <2>2. task' \in TaskStatus
    BY <1>4 DEF ReviewInv, TablesTyped
  <2>3. Steady
    BY <1>4, <2>1, <2>2, Unwritten
  <2> QED
    BY <1>1, <1>2, <2>1, <2>3, FailReady DEF Finalizing
<1> QED
  BY <1>5, <1>6

LEMMA ErrorFinal ==
    ASSUME NEW f \in Finalization, NEW step
    PROVE  LET g == RecordFinalizationError(f, step) IN
           /\ g \in Finalization /\ g.dec = f.dec /\ g.key = f.key /\ g.msg = f.msg /\ g.moved = f.moved
           /\ (g.state = "complete" <=> f.state = "complete")
<1> DEFINE h == [f EXCEPT !.state = "retryable_error"]
<1>1. /\ h \in Finalization /\ h.dec = f.dec /\ h.key = f.key /\ h.msg = f.msg /\ h.moved = f.moved
      /\ h.state # "complete"
  BY DEF Finalization
<1> HIDE DEF h
<1>2. RecordFinalizationError(f, step) = f \/ RecordFinalizationError(f, step) = h
  BY DEF RecordFinalizationError, h
<1>3. f.state = "complete" => RecordFinalizationError(f, step) = f
  BY DEF RecordFinalizationError
<1> QED
  BY <1>1, <1>2, <1>3

LEMMA FailureKeeps ==
    ASSUME ReviewInv, Reached, NEW q \in Reqs, finalizationFailure(q)
    PROVE  Steady /\ Ready(q)
<1>1. PICK r : r = reqs[q] /\ r.pc = "fail"
  BY DEF finalizationFailure, At
<1>2. /\ r \in Request /\ Fits(r) /\ r.op = "finalize" /\ r.round \in RoundIds
      /\ finals[r.round] \in Finalization /\ finals[r.round] # None
      /\ FinalFits(r.round)
  BY <1>1, CarriedOut DEF Finalizing
<1>3. PICK f \in Finalization : f = finals[r.round]
  BY <1>2
<1> DEFINE g == RecordFinalizationError(f, r.step)
<1>4. finals' = [finals EXCEPT ![r.round] = g]
  BY <1>1, <1>3 DEF finalizationFailure
<1>5. UNCHANGED <<task, rounds, findings, packets, thread>> /\ Return(q)
  BY DEF finalizationFailure
<1>6. /\ g \in Finalization /\ g.dec = f.dec /\ g.key = f.key /\ g.msg = f.msg /\ g.moved = f.moved
      /\ (g.state = "complete" <=> f.state = "complete")
  BY ErrorFinal
<1> HIDE DEF g
<1>7. r.round \in RoundIds /\ f # None /\ finals[r.round] = f
  BY <1>2, <1>3
<1>8. /\ f.moved => r.round \in reached
      /\ f.state = "complete" => posted(f) /\ f.moved
  BY <1>2, <1>3 DEF FinalFits
<1>9. /\ g.moved => r.round \in reached
      /\ g.state = "complete" => posted(g) /\ g.moved
  BY <1>6, <1>8 DEF posted
<1>10. Stands(f, g)
  BY <1>6 DEF Stands
<1>11. Steady
  BY <1>4, <1>5, <1>6, <1>7, <1>9, <1>10, ChangeSteady
<1> QED
  BY <1>5, <1>11, ReturnReady

LEMMA MarkPostedKeeps ==
    ASSUME ReviewInv, Reached, NEW q \in Reqs, MarkFinalizationPacketPosted(q)
    PROVE  Steady /\ Ready(q)
<1>1. PICK r : r = reqs[q] /\ r.pc = "mark_posted"
  BY DEF MarkFinalizationPacketPosted, At
<1>2. /\ r \in Request /\ Fits(r) /\ r.op = "finalize" /\ r.round \in RoundIds
      /\ finals[r.round] \in Finalization /\ finals[r.round] # None
      /\ finals[r.round].dec = r.dec /\ finals[r.round].key = r.key
      /\ FinalFits(r.round)
  BY <1>1, CarriedOut DEF Finalizing
<1>3. PICK f \in Finalization : f = finals[r.round]
  BY <1>2
<1>4. r.key \in Keys /\ f.key = r.key /\ r.msg \in 1..Len(thread) /\ thread[r.msg] = r.key /\ Len(thread) \in Nat
  BY <1>1, <1>2, <1>3 DEF Fits, Finalization, ReviewInv, TablesTyped
<1>5. PICK m \in 1..Len(thread) : m = (IF posted(f) THEN f.msg ELSE r.msg) /\ thread[m] = f.key
  <2>1. posted(f) => f.msg \in 1..Len(thread) /\ thread[f.msg] = f.key
    BY <1>2, <1>3, <1>4 DEF FinalFits, posted
  <2> QED
    BY <1>4, <2>1
<1>6. PICK s \in FinalState : s = (IF f.state = "complete" THEN f.state ELSE "packet_posted")
  BY DEF Finalization, FinalState
<1> DEFINE g == Changed(f, m, f.moved, s)
<1>7. g = [f EXCEPT !.msg = IF posted(f) THEN @ ELSE r.msg,
                    !.state = IF @ = "complete" THEN @ ELSE "packet_posted"]
  <2>1. g = [f EXCEPT !.msg = m, !.state = s]
    BY DEF Changed, Finalization
  <2> QED
    BY <1>5, <1>6, <2>1 DEF Finalization
<1>8. /\ finals' = [finals EXCEPT ![r.round] = g]
      /\ packets' = [packets EXCEPT ![f.key] = IF @ = 0 THEN r.msg ELSE @]
      /\ Go(q, WithMessage(r, IF g.moved THEN "complete" ELSE "read_task", 0))
      /\ UNCHANGED <<task, rounds, findings, thread>>
  BY <1>1, <1>3, <1>7 DEF MarkFinalizationPacketPosted, WithMessage
<1>9. g \in Finalization /\ g.dec = f.dec /\ g.key = f.key /\ g.msg = m /\ g.moved = f.moved /\ g.state = s
  <2>1. m \in Nat /\ f.moved \in BOOLEAN
    BY <1>4 DEF Finalization
  <2> QED
    BY <2>1, ChangedFinal
<1>10. PICK moved \in BOOLEAN : moved = g.moved
  BY <1>9 DEF Finalization
<1> HIDE DEF g
<1>11. /\ packets' \in [Keys -> {None} \cup 0..Len(thread)]
       /\ \A k \in Keys : packets[k] # None => packets'[k] # None
       /\ \A k \in Keys : packets'[k] \notin {None, 0} => thread[packets'[k]] = k
  <2>1. packets \in [Keys -> {None} \cup 0..Len(thread)] /\ \A k \in Keys : packets[k] \notin {None, 0} => thread[packets[k]] = k
    BY DEF ReviewInv, TablesTyped, Delivery
  <2>2. r.msg \in {None} \cup 0..Len(thread) /\ r.msg # None
    <3>1. r.msg \in Nat
      BY <1>4
    <3> QED
      BY <1>4, <3>1, NoneAssumption
  <2>3. packets' \in [Keys -> {None} \cup 0..Len(thread)]
    BY <1>4, <1>8, <2>1, <2>2
  <2>4. \A k \in Keys : packets'[k] = packets[k] \/ (k = f.key /\ packets'[k] = r.msg)
    BY <1>8, <2>1
  <2> QED
    BY <1>4, <2>1, <2>2, <2>3, <2>4
<1>12. Steady
  <2>1. (g.moved => r.round \in reached) /\ (g.state = "complete" => posted(g) /\ g.moved)
    BY <1>2, <1>3, <1>4, <1>5, <1>6, <1>9 DEF FinalFits, posted
  <2>2. g.msg \in 0..Len(thread) /\ thread[g.msg] = g.key
    BY <1>4, <1>5, <1>9
  <2>3. Stands(f, g)
    BY <1>5, <1>6, <1>9 DEF Stands
  <2> QED
    BY <1>2, <1>3, <1>8, <1>9, <1>11, <2>1, <2>2, <2>3, UpdateSteady
<1>13. PICK pc \in {"read_task", "complete"} : Go(q, WithMessage(r, pc, 0))
  BY <1>8
<1> DEFINE next == WithMessage(r, pc, 0)
<1>14. /\ next \in Request
       /\ next.pc = pc /\ next.msg = 0 /\ next.key = r.key /\ next.todo = r.todo
       /\ next.op = r.op /\ next.id = r.id /\ next.round = r.round /\ next.dec = r.dec
  <2>1. pc \in Answered /\ 0 \in Nat
    BY DEF Answered
  <2> QED
    BY <1>2, <2>1, MessageRequest
<1>15. reqs' = [reqs EXCEPT ![q] = next]
  BY <1>13 DEF Go
<1> HIDE DEF next
<1>16. Fits(r)' /\ Carries(r)'
  BY <1>1, <1>2, <1>12, StillFits DEF Fits, Finalizing
<1>17. Carries(next)'
  BY <1>14, <1>16 DEF Carries
<1>18. Fits(next)'
  BY <1>2, <1>14, <1>16, <1>17 DEF Fits, Asking, AboutRound, AboutFindings, Finalizing
<1> QED
  BY <1>12, <1>14, <1>15, <1>18 DEF Ready

\* The rows after the mutation: the old ones stay, the new ones are the round's.
LEMMA MutationFindings ==
    ASSUME ReviewInv, NEW r \in RoundIds, NEW d \in Decisions, DOMAIN d.res \subseteq 1..Len(findings),
           Len(findings) + d.new <= MaxFindings
    PROVE  LET rows == applyFinalizationMutationTx(r, d) IN
           /\ rows \in Seq(Finding) /\ Len(rows) = Len(findings) + d.new /\ Len(findings) <= Len(rows)
           /\ \A f \in 1..Len(rows) :
                 \/ f \in 1..Len(findings) /\ rows[f].round = findings[f].round
                 \/ rows[f].round = r
<1> DEFINE n == Len(findings) + d.new
           e(f) == IF f \in DOMAIN d.res THEN [findings[f] EXCEPT !.status = d.res[f]]
                   ELSE IF f \in DOMAIN findings THEN findings[f]
                   ELSE [round |-> r, status |-> "open"]
<1>1. /\ findings \in Seq(Finding) /\ Len(findings) \in Nat /\ DOMAIN findings = 1..Len(findings)
      /\ d.new \in Nat /\ n \in Nat /\ Len(findings) <= n
  BY DecisionsAssumption DEF ReviewInv, TablesTyped
<1>2. ASSUME NEW f \in 1..n
      PROVE  e(f) \in Finding /\ ((f \in 1..Len(findings) /\ e(f).round = findings[f].round) \/ e(f).round = r)
  <2>1. CASE f \in DOMAIN d.res
    <3>1. f \in 1..Len(findings) /\ findings[f] \in Finding
      BY <1>1, <2>1
    <3>2. d.res[f] \in FindingStatus
      BY <2>1, DecisionsAssumption
    <3>3. ASSUME NEW x \in Finding, NEW s \in FindingStatus
          PROVE  [x EXCEPT !.status = s] \in Finding /\ [x EXCEPT !.status = s].round = x.round
      BY DEF Finding
    <3>4. e(f) = [findings[f] EXCEPT !.status = d.res[f]]
      BY <2>1
    <3> HIDE DEF e
    <3> QED
      BY <3>1, <3>2, <3>3, <3>4
  <2>2. CASE f \notin DOMAIN d.res /\ f \in DOMAIN findings
    BY <1>1, <2>2
  <2>3. CASE f \notin DOMAIN d.res /\ f \notin DOMAIN findings
    <3>1. [round |-> r, status |-> "open"] \in Finding /\ [round |-> r, status |-> "open"].round = r
      BY DEF Finding, FindingStatus
    <3> QED
      BY <2>3, <3>1
  <2> QED
    BY <2>1, <2>2, <2>3
<1>3. applyFinalizationMutationTx(r, d) = [f \in 1..n |-> e(f)]
  BY DEF applyFinalizationMutationTx
<1> HIDE DEF e, n
<1>4. [f \in 1..n |-> e(f)] \in Seq(Finding) /\ Len([f \in 1..n |-> e(f)]) = n
  BY <1>1, <1>2
<1> QED
  BY <1>1, <1>2, <1>3, <1>4 DEF n

\* Rounds that are judged anew, but neither closed nor reopened.
LEMMA JudgedReplaced ==
    ASSUME ReviewInv, Len(rounds') = Len(rounds),
           \A n \in 1..Len(rounds) : rounds'[n].id = rounds[n].id /\ rounds'[n].note = rounds[n].note,
           \A n \in 1..Len(rounds) : rounds'[n].verdict = "superseded" <=> rounds[n].verdict = "superseded",
           \A n \in 1..Len(rounds) : rounds[n].verdict = "superseded" => ~Reviewed(n)'
    PROVE  Replaced'
<1>1. \A n \in 1..Len(rounds) : rounds[n].id.sup # 0 => rounds[n].id.sup \in 1..Len(rounds)
  BY RoundNumbers
<1> QED
  BY <1>1 DEF ReviewInv, Replaced

\* The row that a decision is committed with.
LEMMA NewFinal ==
    ASSUME NEW d \in Decisions, NEW k \in Keys, NEW m \in Nat
    PROVE  LET g == [dec |-> d, key |-> k, msg |-> m, moved |-> FALSE,
                     state |-> IF m = 0 THEN "pending" ELSE "packet_posted"]
           IN  /\ g \in Finalization
               /\ g.dec = d /\ g.key = k /\ g.msg = m /\ ~g.moved /\ g.state # "complete"
BY DEF Finalization

LEMMA BeginKeeps ==
    ASSUME ReviewInv, Reached, NEW q \in Reqs, BeginFinalization(q)
    PROVE  Steady /\ Ready(q)
<1>1. PICK c \in Request : c = reqs[q] /\ Fits(c) /\ c.pc = "begin"
  <2>1. reqs[q] \in Request /\ Fits(reqs[q])
    BY DEF ReviewInv
  <2> QED
    BY <2>1 DEF BeginFinalization, At
<1>2. PICK r \in RoundIds : r = c.round /\ r \in 1..Len(rounds)
  <2>1. c.round \in 1..Len(rounds)
    BY <1>1 DEF Fits, AboutRound
  <2> QED
    BY <2>1, RoundNumbers
<1>3. PICK d \in Decisions : d = c.dec /\ DOMAIN d.res \subseteq 1..Len(findings)
  BY <1>1 DEF Fits
<1>4. c.op = "finalize" /\ UNCHANGED <<task, thread>>
  BY <1>1 DEF Fits, BeginFinalization
<1>5. TablesTyped /\ Delivery /\ task' \in TaskStatus /\ Len(thread) \in Nat /\ Len(thread') = Len(thread)
  BY <1>4 DEF ReviewInv, TablesTyped
<1>6. CASE UNCHANGED reviewTables /\ Return(q)
  <2>1. UNCHANGED <<rounds, findings, packets, finals, thread>>
    BY <1>4, <1>6 DEF reviewTables
  <2> QED
    BY <1>5, <1>6, <2>1, Unwritten, ReturnReady
<1>7. CASE /\ UNCHANGED reviewTables /\ finals[r] # None /\ finals[r].dec = d
           /\ resumeFinalization(q, finals[r], packets[finals[r].key])
  <2>1. UNCHANGED <<rounds, findings, packets, finals, thread>>
    BY <1>4, <1>7 DEF reviewTables
  <2>2. Steady
    BY <1>5, <2>1, Unwritten
  <2>3. PICK f \in Finalization : f = finals[r] /\ f # None
    BY <1>7, PacketOfFinal
  <2>4. PICK m \in 0..Len(thread) : m = packets[f.key] /\ (m # 0 => thread[m] = f.key)
    BY <2>3, PacketOfFinal
  <2>5. f = finals'[c.round] /\ f.dec = c.dec /\ thread' = thread /\ resumeFinalization(q, f, m)
    BY <1>2, <1>3, <1>7, <2>1, <2>3, <2>4
  <2> QED
    BY <1>1, <1>4, <2>2, <2>4, <2>5, ResumeReady
<1>8. ASSUME NEW k \in Keys, NEW m \in 0..Len(thread), m # 0 => thread[m] = k,
             NEW g, g = [dec |-> d, key |-> k, msg |-> m, moved |-> FALSE,
                         state |-> IF m = 0 THEN "pending" ELSE "packet_posted"],
             finals[r] = None, rounds[r].verdict \in {"unset", d.verdict},
             Len(findings) + d.new <= MaxFindings,
             findings' = applyFinalizationMutationTx(r, d),
             rounds' = [rounds EXCEPT ![r].verdict = d.verdict],
             packets' = [packets EXCEPT ![k] = m],
             finals' = [finals EXCEPT ![r] = g],
             resumeFinalization(q, g, m)
      PROVE  Steady /\ Ready(q)
  <2>1. /\ g \in Finalization
        /\ g.dec = d /\ g.key = k /\ g.msg = m /\ ~g.moved /\ g.state # "complete"
    <3>1. m \in Nat
      BY <1>5
    <3> QED
      BY <1>8, <3>1, NewFinal
  <2>2. /\ findings' \in Seq(Finding) /\ Len(findings') = Len(findings) + d.new /\ Len(findings) <= Len(findings')
        /\ \A f \in 1..Len(findings') :
              (f \in 1..Len(findings) /\ findings'[f].round = findings[f].round) \/ findings'[f].round = r
    BY <1>3, <1>8, MutationFindings
  <2>3. PICK row \in Round :
            /\ row = [rounds[r] EXCEPT !.verdict = d.verdict]
            /\ row.id = rounds[r].id /\ row.verdict = d.verdict /\ row.note = rounds[r].note
    <3>1. rounds[r] \in Round /\ d.verdict \in Verdicts
      BY <1>2, RoundNumbers, DecisionsAssumption DEF Verdicts
    <3> QED
      BY <3>1, JudgedRound
  <2>4. d.verdict # "superseded" /\ rounds[r].verdict # "superseded"
    BY <1>8, DecisionsAssumption
  <2>5. /\ rounds' \in Seq(Round) /\ Len(rounds') = Len(rounds)
        /\ \A n \in 1..Len(rounds) : rounds'[n] = IF n = r THEN row ELSE rounds[n]
    <3>1. rounds' = [rounds EXCEPT ![r] = row] /\ rounds \in Seq(Round)
      BY <1>5, <1>8, <2>3 DEF TablesTyped
    <3> QED
      BY <1>2, <3>1, ExceptSeq
  <2>6. /\ \A n \in 1..Len(rounds) : rounds'[n].id = rounds[n].id /\ rounds'[n].note = rounds[n].note
        /\ \A n \in 1..Len(rounds) : rounds'[n].verdict = "superseded" <=> rounds[n].verdict = "superseded"
    BY <2>3, <2>4, <2>5
  <2>7. finals'[r] = g /\ \A s \in RoundIds : s # r => finals'[s] = finals[s]
    BY <1>5, <1>8 DEF TablesTyped
  <2>8. ASSUME NEW n \in 1..Len(rounds), rounds[n].verdict = "superseded" PROVE ~Reviewed(n)'
    <3>1. n # r /\ n \in RoundIds /\ ~Reviewed(n)
      BY <2>4, <2>8, RoundNumbers DEF ReviewInv, Replaced
    <3>2. finals'[n] = None
      BY <2>7, <3>1 DEF Reviewed
    <3>3. DOMAIN findings' = 1..Len(findings') /\ DOMAIN findings = 1..Len(findings)
      BY <1>5, <2>2 DEF TablesTyped
    <3>4. \A f \in DOMAIN findings' : findings'[f].round # n
      BY <2>2, <3>1, <3>3 DEF Reviewed
    <3> QED
      BY <3>2, <3>4 DEF Reviewed
  <2>9. Replaced'
    BY <2>5, <2>6, <2>8, JudgedReplaced
  <2>10. m # None
    <3>1. m \in Nat
      BY <1>5
    <3> QED
      BY <3>1, NoneAssumption
  <2>11. /\ packets' \in [Keys -> {None} \cup 0..Len(thread)] /\ packets'[k] = m
         /\ \A l \in Keys : l # k => packets'[l] = packets[l]
    BY <1>5, <1>8 DEF TablesTyped
  <2>12. /\ \A l \in Keys : packets[l] # None => packets'[l] # None
         /\ \A l \in Keys : packets'[l] \notin {None, 0} => thread[packets'[l]] = l
    BY <1>5, <1>8, <2>10, <2>11 DEF Delivery
  <2>13. Len(rounds) <= Len(rounds') /\ Len(rounds') <= MaxRounds /\ Len(findings') <= MaxFindings
    BY <1>5, <1>8, <2>2, <2>5 DEF TablesTyped
  <2>14. Steady
    BY <1>4, <1>8, <2>1, <2>2, <2>5, <2>9, <2>10, <2>11, <2>12, <2>13, FinalSteady DEF posted
  <2>15. g = finals'[c.round] /\ g.dec = c.dec /\ m \in 0..Len(thread') /\ (m # 0 => thread'[m] = g.key)
    BY <1>2, <1>3, <1>4, <1>5, <1>8, <2>1, <2>7
  <2> QED
    BY <1>1, <1>4, <1>8, <2>1, <2>14, <2>15, ResumeReady
<1>9. CASE /\ finals[r] = None /\ rounds[r].verdict \in {"unset", d.verdict}
           /\ Len(findings) + d.new <= MaxFindings
           /\ findings' = applyFinalizationMutationTx(r, d)
           /\ rounds' = [rounds EXCEPT ![r].verdict = d.verdict]
           /\ \E k \in IF FindingsPackets(r) = {} THEN {<<"final", r>>} ELSE FindingsPackets(r) :
                 \E m, g : /\ m = IF packets[k] = None THEN 0 ELSE packets[k]
                          /\ g = [dec |-> d, key |-> k, msg |-> m, moved |-> FALSE,
                                   state |-> IF m = 0 THEN "pending" ELSE "packet_posted"]
                          /\ packets' = [packets EXCEPT ![k] = m]
                          /\ finals' = [finals EXCEPT ![r] = g]
                          /\ resumeFinalization(q, g, m)
  <2>1. PICK k \in IF FindingsPackets(r) = {} THEN {<<"final", r>>} ELSE FindingsPackets(r) :
                 \E m, g : /\ m = IF packets[k] = None THEN 0 ELSE packets[k]
                          /\ g = [dec |-> d, key |-> k, msg |-> m, moved |-> FALSE,
                                   state |-> IF m = 0 THEN "pending" ELSE "packet_posted"]
                          /\ packets' = [packets EXCEPT ![k] = m]
                          /\ finals' = [finals EXCEPT ![r] = g]
                          /\ resumeFinalization(q, g, m)
    BY <1>9
  <2>2. k \in Keys
    <3>1. <<"findings", r>> \in Keys /\ <<"final", r>> \in Keys
      BY DEF Keys
    <3>2. FindingsPackets(r) \subseteq {<<"findings", r>>, <<"final", r>>}
      BY DEF FindingsPackets
    <3> QED
      BY <3>1, <3>2
  <2>3. PICK m, g : /\ m = IF packets[k] = None THEN 0 ELSE packets[k]
                    /\ g = [dec |-> d, key |-> k, msg |-> m, moved |-> FALSE,
                             state |-> IF m = 0 THEN "pending" ELSE "packet_posted"]
                    /\ packets' = [packets EXCEPT ![k] = m]
                    /\ finals' = [finals EXCEPT ![r] = g]
                    /\ resumeFinalization(q, g, m)
    BY <2>1
  <2>4. m \in 0..Len(thread) /\ (m # 0 => thread[m] = k)
    BY <1>5, <2>2, <2>3 DEF TablesTyped, Delivery
  <2> QED
    BY <1>8, <1>9, <2>2, <2>3, <2>4
<1> QED
  BY <1>1, <1>2, <1>3, <1>6, <1>7, <1>9 DEF BeginFinalization

-----------------------------------------------------------------------------
(* The theorems                                                              *)

\* A step that only reads.
LEMMA ReadingSteady ==
    ASSUME ReviewInv, Reached, UNCHANGED <<task, reviewTables, thread>>
    PROVE  Steady /\ UNCHANGED <<rounds, findings, finals, thread>>
<1>1. UNCHANGED <<rounds, findings, packets, finals, thread>>
  BY DEF reviewTables
<1>2. task' \in TaskStatus
  BY DEF ReviewInv, TablesTyped
<1> QED
  BY <1>1, <1>2, Unwritten

LEMMA TaskKeeps ==
    ASSUME ReviewInv, Reached, NEW q \in Reqs, SetTaskStatus(q) \/ TransitionTaskToReview(q)
    PROVE  Steady /\ Ready(q)
<1>1. task' \in TaskStatus
  <2>1. task \in TaskStatus /\ "review" \in TaskStatus
    BY DEF ReviewInv, TablesTyped, TaskStatus
  <2>2. target(q) \in TaskStatus
    BY DEF target, taskStatusForVerdict, TaskStatus
  <2> QED
    BY <2>1, <2>2 DEF SetTaskStatus, TransitionTaskToReview
<1>2. UNCHANGED <<rounds, findings, packets, finals, thread>>
  BY DEF SetTaskStatus, TransitionTaskToReview, reviewTables
<1>3. Steady
  BY <1>1, <1>2, Unwritten
<1>4. CASE SetTaskStatus(q)
  BY <1>2, <1>3, <1>4, TaskReady
<1>5. CASE TransitionTaskToReview(q)
  BY <1>3, <1>5, ReturnReady DEF TransitionTaskToReview
<1> QED
  BY <1>3, <1>4, <1>5

LEMMA StepKeeps ==
    ASSUME ReviewInv, Reached, NEW q \in Reqs, Step(q)
    PROVE  Steady /\ Ready(q)
<1>1. CASE Start(q)
  BY <1>1, ReadingSteady, StartReady DEF Start
<1>2. CASE Abort(q)
  BY <1>2, ReadingSteady, ReturnReady DEF Abort
<1>3. CASE validateTask(q)
  BY <1>3, ReadingSteady, CheckReady DEF validateTask
<1>4. CASE reusableReviewRound(q)
  BY <1>4, ReadingSteady, ReuseReady DEF reusableReviewRound
<1>5. CASE CreateRoundFails(q)
  BY <1>5, ReadingSteady, CreateFailsReady DEF CreateRoundFails
<1>6. CASE acceptPacket(q)
  BY <1>6, ReadingSteady, AcceptReady DEF acceptPacket
<1>7. CASE PostReviewFindings(q)
  BY <1>7, ReadingSteady, FindReady DEF PostReviewFindings
<1>8. CASE LookupFinalization(q)
  BY <1>8, ReadingSteady, LookupReady DEF LookupFinalization
<1>9. CASE ListRoundFindings(q)
  BY <1>9, ReadingSteady, ListReady DEF ListRoundFindings
<1>10. CASE ProjectFindings(q)
  BY <1>10, ReadingSteady, ListReady DEF ProjectFindings
<1>11. CASE ReadTaskStatus(q)
  BY <1>11, ReadingSteady, TaskReady DEF ReadTaskStatus
<1>12. CASE SetTaskStatus(q) \/ TransitionTaskToReview(q)
  BY <1>12, TaskKeeps
<1>13. CASE CreateRound(q) \/ CreateRoundSuperseding(q) \/ SetVerdict(q)
  BY <1>13, CreateRoundKeeps, SupersedeKeeps, SetVerdictKeeps
<1>14. CASE StorePacket(q) \/ appendPacketMessage(q) \/ AppendVerdictMessage(q)
  BY <1>14, StoreKeeps, AppendKeeps, SayKeeps
<1>15. CASE CreateFinding(q) \/ UpdateFinding(q)
  BY <1>15, CreateFindingKeeps, UpdateFindingKeeps
<1>16. CASE BeginFinalization(q) \/ MarkFinalizationPacketPosted(q) \/ MarkFinalizationTaskTransitioned(q)
  BY <1>16, BeginKeeps, MarkPostedKeeps, MarkMovedKeeps
<1>17. CASE CompleteFinalization(q) \/ finalizationFailure(q)
  BY <1>17, CompleteKeeps, FailureKeeps
<1> QED
  BY <1>1, <1>2, <1>3, <1>4, <1>5, <1>6, <1>7, <1>8, <1>9, <1>10, <1>11, <1>12, <1>13, <1>14, <1>15, <1>16,
     <1>17 DEF Step

LEMMA ReviewStepInv == ReviewInv /\ [ReviewNext]_reviewVars => ReviewInv'
<1> SUFFICES ASSUME ReviewInv, [ReviewNext]_reviewVars PROVE ReviewInv'
  OBVIOUS
<1>1. CASE ReviewNext
  <2>1. Reached
    BY <1>1 DEF ReviewNext, Reached
  <2>2. CASE TaskMoves
    <3>1. task' \in TaskStatus /\ reqs' = reqs /\ UNCHANGED <<rounds, findings, packets, finals, thread>>
      BY <2>2 DEF TaskMoves, reviewTables
    <3> QED
      BY <2>1, <3>1, Unwritten, InvKept
  <2>3. CASE \E q \in Reqs : Step(q)
    BY <2>1, <2>3, StepKeeps, InvKept
  <2> QED
    BY <1>1, <2>2, <2>3 DEF ReviewNext
<1>2. CASE UNCHANGED reviewVars
  BY <1>2 DEF reviewVars, reviewTables, ReviewInv, TablesTyped, Fits, Carries, Replaced, Reviewed, Delivery, FinalFits
<1> QED
  BY <1>1, <1>2

LEMMA ReviewInitInv == ReviewInit => ReviewInv
<1> SUFFICES ASSUME ReviewInit PROVE ReviewInv
  OBVIOUS
<1>1. /\ findings = <<>> /\ finals = [r \in RoundIds |-> None] /\ reqs = [q \in Reqs |-> Idle] /\ reached = {}
      /\ findings \in Seq(Finding) /\ Len(findings) = 0 /\ Len(findings) <= MaxFindings
  BY BoundsAssumption DEF ReviewInit
<1>2. reqs \in [Reqs -> Request]
  BY <1>1, StartTypes
<1>3. \A q \in Reqs : Fits(reqs[q])
  <2>1. Fits(Idle)
    BY DEF Fits, Idle, Asking, AboutRound, AboutFindings, Finalizing
  <2> QED
    BY <1>1, <2>1
<1>4. finals \in [RoundIds -> Finalization \cup {None}] /\ reached \subseteq RoundIds /\ \A r \in RoundIds : finals[r] = None
  BY <1>1
<1>5. CASE /\ task = "in_progress" /\ rounds = <<>> /\ packets = [k \in Keys |-> None] /\ thread = <<>>
  <2>1. /\ rounds \in Seq(Round) /\ Len(rounds) = 0 /\ Len(rounds) <= MaxRounds
        /\ thread \in Seq(Keys \cup {None}) /\ Len(thread) = 0
    BY <1>5, BoundsAssumption
  <2>2. packets \in [Keys -> {None} \cup 0..Len(thread)] /\ \A k \in Keys : packets[k] = None
    BY <1>5
  <2>3. TablesTyped
    BY <1>1, <1>4, <1>5, <2>1, <2>2 DEF TablesTyped, TaskStatus
  <2>4. Replaced
    BY <2>1 DEF Replaced
  <2>5. Delivery
    BY <1>4, <2>1, <2>2 DEF Delivery
  <2> QED
    BY <1>2, <1>3, <2>3, <2>4, <2>5 DEF ReviewInv
<1>6. ASSUME task = "review", NEW a \in Authors,
             rounds = <<[id |-> [who |-> a, sup |-> 0, kind |-> "code_diff"], verdict |-> "unset", note |-> 0]>>,
             packets = [k \in Keys |-> IF k = <<"request", 1>> THEN 1 ELSE None],
             thread = << <<"request", 1>> >>
      PROVE  ReviewInv
  <2>1. PICK id \in Identity : id = [who |-> a, sup |-> 0, kind |-> "code_diff"] /\ id.sup = 0
    BY StartTypes
  <2>2. PICK row \in Round : row = [id |-> id, verdict |-> "unset", note |-> 0] /\ row.id = id /\ row.verdict = "unset"
    BY StartTypes
  <2>3. rounds = <<row>>
    BY <1>6, <2>1, <2>2
  <2>4. /\ rounds \in Seq(Round) /\ Len(rounds) = 1 /\ Len(rounds) <= MaxRounds
        /\ \A r \in 1..Len(rounds) : rounds[r] = row
    BY <2>3, BoundsAssumption
  <2>5. PICK k \in Keys : k = <<"request", 1>>
    <3>1. 1 \in RoundIds
      BY BoundsAssumption DEF RoundIds
    <3>2. <<"request", 1>> \in Keys
      BY <3>1 DEF Keys
    <3> QED
      BY <3>2
  <2>6. /\ thread \in Seq(Keys \cup {None}) /\ Len(thread) = 1
        /\ \A m \in 1..Len(thread) : m = 1 /\ thread[m] = k
    BY <1>6, <2>5
  <2>7. /\ packets \in [Keys -> {None} \cup 0..Len(thread)]
        /\ \A l \in Keys : packets[l] # None => l = k /\ packets[l] = 1
    BY <1>6, <2>5, <2>6
  <2>8. TablesTyped
    BY <1>1, <1>4, <1>6, <2>4, <2>6, <2>7 DEF TablesTyped, TaskStatus
  <2>9. Replaced
    BY <2>1, <2>2, <2>4 DEF Replaced
  <2>10. Delivery
    BY <1>4, <2>6, <2>7 DEF Delivery
  <2> QED
    BY <1>2, <1>3, <2>8, <2>9, <2>10 DEF ReviewInv
<1> QED
  BY <1>5, <1>6 DEF ReviewInit

\* RoundsSettleOnce holds of every behaviour: a superseded round has neither
\* findings nor a finalization and is paired with its one replacement
\* (CreateRoundSuperseding against CreateFinding, SetVerdict and FinalizeReview),
\* a packet is on the thread once, and a finalization is complete only when its
\* message and the task's status are there.
THEOREM RoundsSettle == ReviewSpec => []RoundsSettleOnce
<1>1. ReviewInv => RoundsSettleOnce
  <2> SUFFICES ASSUME ReviewInv PROVE RoundsSettleOnce
    OBVIOUS
  <2>1. ReviewTypeOK
    BY DEF ReviewInv, TablesTyped, ReviewTypeOK
  <2>2. DOMAIN rounds = 1..Len(rounds) /\ DOMAIN thread = 1..Len(thread)
    BY DEF ReviewInv, TablesTyped
  <2>3. ReplacedOnce
    BY <2>1, <2>2 DEF ReviewInv, Replaced, ReplacedOnce
  <2>4. DeliveredOnce
    BY <2>2 DEF ReviewInv, Delivery, FinalFits, DeliveredOnce
  <2> QED
    BY <2>3, <2>4 DEF RoundsSettleOnce
<1> QED
  BY <1>1, ReviewInitInv, ReviewStepInv, PTL DEF ReviewSpec

\* DecisionStands holds of every behaviour: once a decision is committed for a
\* round, no finalization, raced, retried or failed, replaces it, its message,
\* or what it has completed.
THEOREM DecisionsStand == ReviewSpec => DecisionStands
<1> DEFINE Standing ==
        \A r \in RoundIds : finals[r] # None =>
            /\ finals'[r].dec = finals[r].dec /\ finals'[r].key = finals[r].key
            /\ posted(finals[r]) => finals'[r].msg = finals[r].msg
            /\ finals[r].moved => finals'[r].moved
            /\ finals[r].state = "complete" => finals'[r].state = "complete"
<1>1. ReviewInv /\ [ReviewNext]_reviewVars => [Standing]_reviewVars
  <2> SUFFICES ASSUME ReviewInv, ReviewNext PROVE Standing
    BY DEF reviewVars
  <2>1. Kept \/ UNCHANGED finals
    <3>1. Reached
      BY DEF ReviewNext, Reached
    <3> QED
      BY <3>1, StepKeeps DEF ReviewNext, TaskMoves, reviewTables, Steady
  <2>2. CASE Kept
    BY <2>2 DEF Kept, Stands
  <2>3. CASE UNCHANGED finals
    BY <2>3
  <2> QED
    BY <2>1, <2>2, <2>3
<1>2. ReviewSpec => []ReviewInv
  BY ReviewInitInv, ReviewStepInv, PTL DEF ReviewSpec
<1> QED
  BY <1>1, <1>2, PTL DEF ReviewSpec, DecisionStands

-----------------------------------------------------------------------------
(* Sets of numbers have a first and a last                                   *)

Below == {p \in Nat \X Nat : p[1] < p[2]}

LEMMA FirstNatural ==
    ASSUME NEW S \in SUBSET Nat, S # {}
    PROVE  \E x \in S : \A y \in S : x <= y
<1>1. IsWellFoundedOn(Below, Nat)
  BY NatLessThanWellFounded DEF OpToRel, Below
<1>2. PICK x \in S : \A y \in S : <<y, x>> \notin Below
  BY <1>1, WFMin
<1>3. \A y \in S : x <= y
  <2> SUFFICES ASSUME NEW y \in S PROVE x <= y
    OBVIOUS
  <2>1. <<y, x>> \in Nat \X Nat /\ <<y, x>>[1] = y /\ <<y, x>>[2] = x
    OBVIOUS
  <2>2. ~(<<y, x>>[1] < <<y, x>>[2])
    BY <1>2, <2>1 DEF Below
  <2> QED
    BY <2>1, <2>2
<1> QED
  BY <1>3

LEMMA LastNatural ==
    ASSUME NEW n \in Nat, NEW S \in SUBSET (-1..n), S # {}
    PROVE  Max(S) \in S /\ \A y \in S : Max(S) >= y
<1> DEFINE T == {n - x : x \in S}
<1>1. T \in SUBSET Nat /\ T # {}
  <2>1. ASSUME NEW x \in S PROVE n - x \in Nat
    <3>1. x \in -1..n /\ x \in Int /\ x <= n
      OBVIOUS
    <3> QED
      BY <3>1
  <2>2. T \in SUBSET Nat
    BY <2>1, Zenon
  <2>3. T # {}
    BY Zenon
  <2> QED
    BY <2>2, <2>3
<1>2. PICK t \in T : \A u \in T : t <= u
  BY <1>1, FirstNatural
<1>3. PICK m \in S : t = n - m
  OBVIOUS
<1>4. \A y \in S : m >= y
  <2> SUFFICES ASSUME NEW y \in S PROVE m >= y
    OBVIOUS
  <2>1. n - y \in T
    OBVIOUS
  <2>2. n - m <= n - y
    BY <1>2, <1>3, <2>1
  <2> QED
    BY <2>2
<1> QED
  BY <1>4 DEF Max

-----------------------------------------------------------------------------
(* Messages.  The inductive invariant: what is stored, what a call that has   *)
(* not finished may count on, and what keeps two of them apart.               *)

Count == Cardinality(Sends)

Kinds == {"none", "general", "notification", "review_request_packet", "worker_packet", "completion"}

Intents == {"none", "handoff", "review_request", "notification", "general"}

Mail ==
    [by : Talkers \cup {"none"}, task : {0, 1}, thread : MailIds \cup {0},
     intent : Intents, schema : Kinds, packet : {0, 1}, at : 0..(Count + 1)]

SendState == {"idle", "built", "insert", "conflict", "done", "failed"}

Send == [pc : SendState, m : Mail, id : MailIds \cup {0}]

MessagesTyped ==
    /\ mail \in [MailIds -> Mail]
    /\ lastMailId \in Nat
    /\ sends \in [Sends -> Send]
    /\ inbox \in [Waiters -> [got : SUBSET MailIds, cursor : 0..Count]]

\* A message has a sender and a date, and the one that stands for a packet is
\* the review service's.
Proper(m) ==
    /\ m.by \in Talkers /\ m.at # 0
    /\ m.packet # 0 => m.by \notin Waiters /\ m.task = 1 /\ m.schema = "review_request_packet"

RowKept(i) ==
    mail[i] # NoMail => Proper(mail[i]) /\ i <= lastMailId /\ mail[i].thread < i

\* The calls that have drawn an id.
Drawn == {c \in Sends : sends[c].pc \in {"insert", "conflict", "done"}}

SamePacketRow(m, i) == mail[i].packet = m.packet /\ m.packet # 0

\* What a call may count on: the id it drew is free until it commits, and a
\* call that gave way has a row to find.
CallFits(s) ==
    /\ s.pc \in {"built", "insert", "conflict", "done"} => Proper(s.m)
    /\ s.pc = "built" => s.m.thread <= lastMailId
    /\ s.pc = "insert" => /\ s.id \in MailIds /\ s.id <= lastMailId /\ mail[s.id] = NoMail
                          /\ s.m.thread < s.id
                          /\ ~\E i \in Present : SamePacketRow(s.m, i)
    /\ s.pc = "conflict" => \E i \in Present : SamePacketRow(s.m, i)
    /\ s.pc = "done" => s.id \in Present /\ (mail[s.id] = s.m \/ SamePacketRow(s.m, s.id))

\* Inserts that have not committed differ in their ids and packets.
InsertsDiffer ==
    \A c, d \in Sends : sends[c].pc = "insert" /\ sends[d].pc = "insert" /\ c # d
                          => sends[c].id # sends[d].id /\ ~SamePacket(c, d)

PacketsDiffer ==
    \A i, j \in Present : mail[i].packet # 0 /\ mail[i].packet = mail[j].packet => i = j

MessagesInv ==
    /\ MessagesTyped
    /\ \A i \in MailIds : RowKept(i)
    /\ lastMailId = Cardinality(Drawn)
    /\ \A c \in Sends : CallFits(sends[c])
    /\ InsertsDiffer /\ PacketsDiffer
    /\ marks \in SUBSET (Present \X Waiters)
    /\ \A r \in Waiters : inbox[r].got \in SUBSET Present

-----------------------------------------------------------------------------
(* Numbers and requests                                                      *)

LEMMA CallNumbers ==
    /\ Count \in Nat /\ MailIds = 1..Count /\ MailIds \in SUBSET Nat /\ IsFiniteSet(MailIds)
    /\ Sends = MailIds /\ Cardinality(MailIds) = Count
<1>1. Count \in Nat
  BY MessagesAssumption, FS_CardinalityType DEF Count
<1> QED
  BY <1>1, MessagesAssumption DEF Count, MailIds

LEMMA NoMailFits == NoMail \in Mail /\ NoMail.thread = 0 /\ NoMail.at = 0
<1>1. 0 \in 0..(Count + 1)
  BY CallNumbers
<1> QED
  BY <1>1 DEF NoMail, Mail, Intents, Kinds

\* What a caller hands over.
Asked(m) ==
    /\ m \in Mail /\ m.by \in Talkers
    /\ m.packet # 0 => m.by \notin Waiters /\ m.task = 1 /\ m.schema = "review_request_packet"

LEMMA Built ==
    ASSUME NEW by \in Talkers, NEW about \in {0, 1}, NEW on \in MailIds \cup {0},
           NEW type \in Kinds, NEW packet \in {0, 1},
           packet # 0 => by \notin Waiters /\ about = 1 /\ type = "review_request_packet"
    PROVE  Asked(NewMessage(by, about, on, type, packet))
<1>1. PICK intent \in Intents : intent = normalizeIntent(type)
  BY DEF Intents, Kinds, normalizeIntent
<1>2. PICK m : m = [by |-> by, task |-> about, thread |-> on, intent |-> intent,
                    schema |-> type, packet |-> packet, at |-> 0]
  OBVIOUS
<1>3. m = NewMessage(by, about, on, type, packet)
  BY <1>1, <1>2 DEF NewMessage
<1>4. 0 \in 0..(Count + 1)
  BY CallNumbers
<1> QED
  BY <1>2, <1>3, <1>4 DEF Asked, Mail

\* Whatever is sent begins with SendMessage, of something a caller may ask.
LEMMA CallsAsk ==
    ASSUME NEW c \in Sends, Calling(c)
    PROVE  \E m : Asked(m) /\ SendMessage(c, m)
<1>1. Min(MailIds) \in MailIds
  <2>1. 1 \in MailIds /\ \A y \in MailIds : 1 <= y
    BY CallNumbers
  <2> QED
    BY <2>1 DEF Min
<1>2. {"general", "notification", "review_request_packet", "worker_packet", "completion"} \subseteq Kinds
  BY DEF Kinds
<1>3. CASE \E m \in SendMessageRequests : SendMessage(c, m)
  <2>1. PICK m \in SendMessageRequests : SendMessage(c, m)
    BY <1>3
  <2>2. Asked(m)
    BY <1>1, <1>2, <2>1, Built DEF SendMessageRequests
  <2> QED
    BY <2>1, <2>2
<1>4. CASE CreateContextPacket(c)
  <2>1. PICK m \in CreateContextPacketRequests : SendMessage(c, m)
    BY <1>4 DEF CreateContextPacket
  <2>2. Asked(m)
    BY <1>2, <2>1, Built DEF CreateContextPacketRequests
  <2> QED
    BY <2>1, <2>2
<1>5. CASE \E r \in Talkers \ Waiters : AppendCompletionPacket(c, r)
  <2>1. PICK r \in Talkers \ Waiters : SendMessage(c, NewMessage(r, 1, 0, "completion", 0))
    BY <1>5 DEF AppendCompletionPacket
  <2>2. Asked(NewMessage(r, 1, 0, "completion", 0))
    BY <1>2, Built
  <2> QED
    BY <2>1, <2>2
<1> QED
  BY <1>3, <1>4, <1>5 DEF Calling

-----------------------------------------------------------------------------
(* Pages                                                                     *)

\* A page as long as there are calls leaves nothing out.
LEMMA WholePage ==
    ASSUME MessagesTyped, NEW S \in SUBSET MailIds
    PROVE  Page(S, Count) = S
<1>1. ASSUME NEW i \in S PROVE Cardinality({j \in S : Newer(j, i)}) < Count
  <2>1. PICK T : T = {j \in S : Newer(j, i)}
    OBVIOUS
  <2>2. i \notin T
    <3>1. mail[i].at \in Int /\ i \in Int
      BY CallNumbers DEF MessagesTyped, Mail
    <3> QED
      BY <2>1, <3>1 DEF Newer
  <2>3. T \subseteq MailIds /\ i \in MailIds /\ T # MailIds
    BY <2>1, <2>2
  <2>4. Cardinality(T) <= Cardinality(MailIds) /\ Cardinality(T) # Cardinality(MailIds)
    BY <2>3, CallNumbers, FS_Subset
  <2>5. Cardinality(T) \in Nat
    BY <2>3, CallNumbers, FS_Subset, FS_CardinalityType
  <2> QED
    BY <2>1, <2>4, <2>5, CallNumbers
<1> QED
  BY <1>1 DEF Page

\* The first of a page is not older than any.
LEMMA FirstOfPage ==
    ASSUME MessagesTyped, NEW S \in SUBSET MailIds, NEW i \in S
    PROVE  \E k \in Page(S, 1) : mail[k].at >= mail[i].at
<1> DEFINE T == {mail[j].at : j \in S}
<1>1. \A j \in S : mail[j].at \in 0..(Count + 1) /\ mail[j].at \in Int
  BY CallNumbers DEF MessagesTyped, Mail
<1>2. T \in SUBSET (-1..(Count + 1)) /\ T # {} /\ Count + 1 \in Nat
  <2>1. \A j \in S : mail[j].at \in -1..(Count + 1)
    BY <1>1, CallNumbers
  <2> QED
    BY <2>1, CallNumbers
<1>3. PICK a \in T : \A x \in T : a >= x
  BY <1>2, LastNatural
<1> DEFINE U == {j \in S : mail[j].at = a}
<1>4. U \in SUBSET (-1..Count) /\ U # {}
  <2>1. U # {}
    BY <1>3
  <2>2. \A j \in S : j \in -1..Count
    BY CallNumbers
  <2> QED
    BY <2>1, <2>2
<1>5. PICK k \in U : \A j \in U : k >= j
  BY <1>4, CallNumbers, LastNatural
<1>6. k \in S /\ mail[k].at = a /\ \A j \in S : a >= mail[j].at
  BY <1>3, <1>5
<1>7. ASSUME NEW j \in S PROVE ~Newer(j, k)
  <2>1. mail[j].at = a => k >= j
    BY <1>5
  <2>2. a >= mail[j].at /\ a \in Int /\ mail[j].at \in Int /\ j \in Int /\ k \in Int
    BY <1>1, <1>6, CallNumbers
  <2> QED
    BY <1>6, <2>1, <2>2 DEF Newer
<1>8. {j \in S : Newer(j, k)} = {}
  BY <1>7
<1>9. k \in Page(S, 1)
  BY <1>6, <1>8, FS_EmptySet DEF Page
<1> QED
  BY <1>6, <1>9

-----------------------------------------------------------------------------
(* Steps                                                                     *)

LEMMA MessagesStart == MessagesInit => MessagesInv
<1> SUFFICES ASSUME MessagesInit PROVE MessagesInv
  OBVIOUS
<1>1. PICK none \in Mail : none = NoMail
  BY NoMailFits
<1>2. PICK s : s = [pc |-> "idle", m |-> none, id |-> 0]
  OBVIOUS
<1>3. s \in Send /\ s.pc = "idle"
  BY <1>2 DEF Send, SendState
<1>4. sends = [c \in Sends |-> s] /\ mail = [i \in MailIds |-> none]
  BY <1>1, <1>2 DEF MessagesInit
<1>5. MessagesTyped
  <2>1. 0 \in 0..Count /\ {} \in SUBSET MailIds
    BY CallNumbers
  <2>2. inbox \in [Waiters -> [got : SUBSET MailIds, cursor : 0..Count]]
    BY <2>1 DEF MessagesInit
  <2> QED
    BY <1>3, <1>4, <2>2 DEF MessagesTyped, MessagesInit
<1>6. Present = {}
  BY <1>1, <1>4 DEF Present
<1>7. Drawn = {} /\ lastMailId = Cardinality(Drawn)
  BY <1>3, <1>4, FS_EmptySet DEF Drawn, MessagesInit
<1>8. \A i \in MailIds : RowKept(i)
  BY <1>1, <1>4 DEF RowKept
<1>9. \A c \in Sends : CallFits(sends[c])
  BY <1>3, <1>4 DEF CallFits
<1>10. InsertsDiffer /\ PacketsDiffer
  BY <1>3, <1>4, <1>6 DEF InsertsDiffer, PacketsDiffer
<1>11. marks = {} /\ \A r \in Waiters : inbox[r].got = {}
  BY DEF MessagesInit
<1> QED
  BY <1>5, <1>6, <1>7, <1>8, <1>9, <1>10, <1>11 DEF MessagesInv

\* Readers leave the messages and the calls as they are.
LEMMA ReadersKeep ==
    ASSUME MessagesInv, UNCHANGED <<mail, lastMailId, sends>>,
           inbox' \in [Waiters -> [got : SUBSET MailIds, cursor : 0..Count]],
           marks' \in SUBSET (Present \X Waiters),
           \A r \in Waiters : inbox'[r].got \in SUBSET Present
    PROVE  MessagesInv'
<1>1. Present' = Present
  BY DEF Present
<1>2. MessagesTyped'
  BY DEF MessagesInv, MessagesTyped
<1>3. (\A i \in MailIds : RowKept(i))'
  BY DEF MessagesInv, RowKept
<1>4. Drawn' = Drawn /\ (lastMailId = Cardinality(Drawn))'
  BY DEF MessagesInv, Drawn
<1>5. (\A c \in Sends : CallFits(sends[c]))'
  BY <1>1 DEF MessagesInv, CallFits, SamePacketRow
<1>6. (InsertsDiffer /\ PacketsDiffer)'
  BY <1>1 DEF MessagesInv, InsertsDiffer, PacketsDiffer, SamePacket
<1> QED
  BY <1>1, <1>2, <1>3, <1>4, <1>5, <1>6 DEF MessagesInv

LEMMA ReadKeeps ==
    ASSUME MessagesInv, NEW r \in Waiters, NEW about \in {0, 1},
           WaitForMessages(r) \/ MarkRead(r) \/ MarkNotificationsRead(r, about)
    PROVE  MessagesInv'
<1>1. /\ inbox \in [Waiters -> [got : SUBSET MailIds, cursor : 0..Count]]
      /\ marks \in SUBSET (Present \X Waiters)
      /\ \A q \in Waiters : inbox[q].got \in SUBSET Present
      /\ Present \in SUBSET MailIds
  BY DEF MessagesInv, MessagesTyped, Present
<1>2. CASE WaitForMessages(r)
  <2>1. PICK found : /\ found = UnreadAfterCursor(r, inbox[r].cursor, PageLimit)
                     /\ inbox' = [inbox EXCEPT ![r].got = found]
                     /\ UNCHANGED <<mail, lastMailId, marks, sends>>
    BY <1>2 DEF WaitForMessages
  <2>2. found \in SUBSET Present
    BY <2>1 DEF UnreadAfterCursor, Page, Unread
  <2> QED
    BY <1>1, <2>1, <2>2, ReadersKeep
<1>3. CASE MarkRead(r)
  <2>1. PICK got \in SUBSET Present : got = inbox[r].got /\ got # {}
    BY <1>1, <1>3 DEF MarkRead
  <2>2. PICK cursor : cursor = IF r \in KeepsCursor THEN Max(got) ELSE 0
    OBVIOUS
  <2>3. cursor \in 0..Count
    <3>1. got \in SUBSET (-1..Count)
      BY <1>1, <2>1, CallNumbers
    <3>2. Max(got) \in got
      BY <2>1, <3>1, CallNumbers, LastNatural
    <3> QED
      BY <1>1, <2>1, <2>2, <3>2, CallNumbers
  <2>4. /\ inbox' = [inbox EXCEPT ![r] = [got |-> {}, cursor |-> cursor]]
        /\ marks' = marks \cup (got \X {r})
        /\ UNCHANGED <<mail, lastMailId, sends>>
    BY <1>3, <2>1, <2>2 DEF MarkRead
  <2>5. marks' \in SUBSET (Present \X Waiters)
    BY <1>1, <2>1, <2>4
  <2>6. /\ inbox' \in [Waiters -> [got : SUBSET MailIds, cursor : 0..Count]]
        /\ \A q \in Waiters : inbox'[q].got \in SUBSET Present
    BY <1>1, <2>3, <2>4
  <2> QED
    BY <2>4, <2>5, <2>6, ReadersKeep
<1>4. CASE MarkNotificationsRead(r, about)
  <2>1. PICK shown \in SUBSET Present :
           marks' = marks \cup (shown \X {r}) /\ UNCHANGED <<mail, lastMailId, sends, inbox>>
    BY <1>4 DEF MarkNotificationsRead, ListNotifications
  <2>2. marks' \in SUBSET (Present \X Waiters)
    BY <1>1, <2>1
  <2> QED
    BY <1>1, <2>1, <2>2, ReadersKeep
<1> QED
  BY <1>2, <1>3, <1>4

\* A call goes on; the table stays.
LEMMA CallGoesOn ==
    ASSUME MessagesInv, NEW c \in Sends, NEW s \in Send,
           sends' = [sends EXCEPT ![c] = s], UNCHANGED <<mail, marks, inbox>>,
           lastMailId' \in Nat, lastMailId' >= lastMailId,
           lastMailId' = Cardinality(Drawn'), CallFits(s)',
           s.pc = "insert" =>
              \A d \in Sends \ {c} : sends[d].pc = "insert" =>
                 /\ s.id # sends[d].id
                 /\ ~(s.m.packet # 0 /\ s.m.packet = sends[d].m.packet)
    PROVE  MessagesInv'
<1>1. Present' = Present
  BY DEF Present
<1>2. MessagesTyped'
  BY DEF MessagesInv, MessagesTyped
<1>3. lastMailId \in Nat /\ \A i \in MailIds : i \in Nat
  BY CallNumbers DEF MessagesInv, MessagesTyped
<1>4. (\A i \in MailIds : RowKept(i))'
  BY <1>3 DEF MessagesInv, RowKept
<1>5. sends'[c] = s /\ \A d \in Sends \ {c} : sends'[d] = sends[d]
  BY DEF MessagesInv, MessagesTyped
<1>6. ASSUME NEW d \in Sends \ {c} PROVE CallFits(sends[d])'
  <2>1. PICK t \in Send : t = sends[d]
    BY DEF MessagesInv, MessagesTyped
  <2>2. CallFits(t)
    BY <2>1 DEF MessagesInv
  <2>3. t.m.thread \in Nat
    BY CallNumbers DEF Send, Mail
  <2>4. CallFits(t)'
    BY <1>1, <1>3, <2>2, <2>3 DEF CallFits, SamePacketRow
  <2> QED
    BY <1>5, <2>1, <2>4
<1>7. (\A d \in Sends : CallFits(sends[d]))'
  BY <1>5, <1>6
<1>8. InsertsDiffer'
  BY <1>5 DEF MessagesInv, InsertsDiffer, SamePacket
<1>9. PacketsDiffer'
  BY <1>1 DEF MessagesInv, PacketsDiffer
<1> QED
  BY <1>1, <1>2, <1>4, <1>7, <1>8, <1>9 DEF MessagesInv

LEMMA AskKeeps ==
    ASSUME MessagesInv, NEW c \in Sends, NEW m, Asked(m), SendMessage(c, m)
    PROVE  MessagesInv'
<1>1. PICK k : k = 1 + Cardinality({d \in Sends : sends[d].m.at # 0})
  OBVIOUS
<1>2. k \in 0..(Count + 1) /\ k # 0
  <2>1. PICK T : T = {d \in Sends : sends[d].m.at # 0}
    OBVIOUS
  <2>2. Cardinality(T) \in Nat /\ Cardinality(T) <= Count
    BY <2>1, CallNumbers, FS_Subset, FS_CardinalityType
  <2> QED
    BY <1>1, <2>1, <2>2, CallNumbers
<1>3. PICK none \in Mail : none = NoMail
  BY NoMailFits
<1>4. PICK dated : dated = [m EXCEPT !.at = k]
  OBVIOUS
<1>5. dated \in Mail /\ Proper(dated) /\ dated.thread = m.thread /\ dated.at # 0
  BY <1>2, <1>4 DEF Asked, Mail, Proper
<1>6. PICK built \in {none, dated} :
        /\ sends' = [sends EXCEPT ![c] =
              [pc |-> IF built = none THEN "failed" ELSE "built", m |-> built, id |-> 0]]
        /\ built = dated => m.thread = 0 \/ m.thread \in Present
  <2>1. buildMessage(m) \in {none, dated}
        /\ (buildMessage(m) = dated => m.thread = 0 \/ m.thread \in Present)
    <3>1. none # dated
      BY <1>3, <1>5, NoMailFits
    <3> QED
      BY <1>1, <1>3, <1>4, <3>1 DEF buildMessage
  <2>2. PICK built \in AssertWritable(buildMessage(m)) :
          sends' = [sends EXCEPT ![c] =
              [pc |-> IF built = NoMail THEN "failed" ELSE "built", m |-> built, id |-> 0]]
    BY DEF SendMessage
  <2>3. built \in {none, buildMessage(m)}
    BY <1>3, <2>2 DEF AssertWritable
  <2>4. built \in {none, dated} /\ (built = dated => m.thread = 0 \/ m.thread \in Present)
    BY <1>3, <1>5, <2>1, <2>3, NoMailFits
  <2> QED
    BY <1>3, <2>2, <2>4
<1>7. PICK s : s = [pc |-> IF built = none THEN "failed" ELSE "built", m |-> built, id |-> 0]
  OBVIOUS
<1>8. s \in Send /\ s.m = built /\ s.pc = IF built = none THEN "failed" ELSE "built"
  BY <1>5, <1>6, <1>7 DEF Send, SendState
<1>9. sends' = [sends EXCEPT ![c] = s]
  BY <1>6, <1>7
<1>10. UNCHANGED <<mail, lastMailId, marks, inbox>> /\ sends[c].pc = "idle"
  BY DEF SendMessage, SendOnly
<1>11. CallFits(s)'
  <2>1. m.thread \in Present => m.thread <= lastMailId
    BY DEF MessagesInv, RowKept, Present
  <2>2. lastMailId \in Nat
    BY DEF MessagesInv, MessagesTyped
  <2> QED
    BY <1>5, <1>6, <1>8, <1>10, <2>1, <2>2 DEF CallFits
<1>12. Drawn' = Drawn
  BY <1>8, <1>9, <1>10 DEF Drawn, MessagesInv, MessagesTyped
<1>13. lastMailId' = lastMailId /\ lastMailId \in Nat /\ lastMailId = Cardinality(Drawn)
  BY <1>10 DEF MessagesInv, MessagesTyped
<1>14. lastMailId' \in Nat /\ lastMailId' >= lastMailId /\ lastMailId' = Cardinality(Drawn')
  BY <1>12, <1>13
<1>15. s.pc # "insert" /\ UNCHANGED <<mail, marks, inbox>>
  BY <1>8, <1>10
<1> QED
  BY <1>8, <1>9, <1>11, <1>14, <1>15, CallGoesOn

LEMMA InsertKeeps == ASSUME MessagesInv, NEW c \in Sends, InsertMessage(c) PROVE MessagesInv'
<1>1. PICK s \in Send : s = sends[c] /\ s.pc = "built" /\ CallFits(s)
  BY DEF MessagesInv, MessagesTyped, InsertMessage
<1>2. PICK last \in Nat : last = lastMailId /\ last = Cardinality(Drawn)
  BY DEF MessagesInv, MessagesTyped
<1>3. sends \in [Sends -> Send]
  BY DEF MessagesInv, MessagesTyped
<1>4. Drawn \in SUBSET Sends /\ c \notin Drawn /\ IsFiniteSet(Drawn)
  <2>1. Drawn \in SUBSET Sends /\ c \notin Drawn
    BY <1>1 DEF Drawn
  <2> QED
    BY <2>1, CallNumbers, FS_Subset
<1>5. last + 1 \in MailIds
  <2>1. Drawn # Sends
    BY <1>4
  <2>2. Cardinality(Drawn) <= Count /\ Cardinality(Drawn) # Count
    BY <1>4, <2>1, CallNumbers, FS_Subset
  <2> QED
    BY <1>2, <2>2, CallNumbers
<1>6. PICK t \in Send :
        /\ sends' = [sends EXCEPT ![c] = t]
        /\ t.m = s.m
        /\ \/ t.pc = "conflict" /\ \E i \in Present : SamePacketRow(s.m, i)
           \/ /\ t.pc = "insert" /\ t.id = last + 1
              /\ ~\E i \in Present : SamePacketRow(s.m, i)
  <2>1. CASE \E i \in Present : SamePacketRow(s.m, i)
    <3>1. PICK t : t = [s EXCEPT !.pc = "conflict"]
      OBVIOUS
    <3>2. t \in Send /\ t.m = s.m /\ t.pc = "conflict"
      BY <3>1 DEF Send, SendState
    <3>3. sends' = [sends EXCEPT ![c] = t]
      BY <1>1, <2>1, <3>1 DEF InsertMessage, SamePacketRow
    <3> QED
      BY <2>1, <3>2, <3>3
  <2>2. CASE ~\E i \in Present : SamePacketRow(s.m, i)
    <3>1. PICK t : t = [s EXCEPT !.pc = "insert", !.id = last + 1]
      OBVIOUS
    <3>2. t \in Send /\ t.m = s.m /\ t.pc = "insert" /\ t.id = last + 1
      BY <1>5, <3>1 DEF Send, SendState
    <3>3. sends' = [sends EXCEPT ![c] = t]
      BY <1>1, <1>2, <2>2, <3>1 DEF InsertMessage, SamePacketRow
    <3> QED
      BY <2>2, <3>2, <3>3
  <2> QED
    BY <2>1, <2>2
<1>7. lastMailId' = last + 1 /\ UNCHANGED <<mail, marks, inbox>>
  BY <1>2 DEF InsertMessage
<1>8. lastMailId' = Cardinality(Drawn')
  <2>1. Drawn' = Drawn \cup {c}
    BY <1>3, <1>6 DEF Drawn
  <2>2. Cardinality(Drawn \cup {c}) = Cardinality(Drawn) + 1
    BY <1>4, FS_AddElement
  <2> QED
    BY <1>2, <1>7, <2>1, <2>2
<1>9. mail[last + 1] = NoMail
  <2>1. ~(last + 1 <= last)
    OBVIOUS
  <2> QED
    BY <1>2, <1>5, <2>1 DEF MessagesInv, RowKept
<1>10. Present' = Present
  BY <1>7 DEF Present
<1>11. CallFits(t)'
  <2>1. Proper(s.m) /\ s.m.thread <= last /\ s.m.thread \in Nat
    <3>1. s.m.thread \in Nat
      BY CallNumbers DEF Send, Mail
    <3> QED
      BY <1>1, <1>2, <3>1 DEF CallFits
  <2>2. s.m.thread < last + 1 /\ last + 1 <= last + 1
    BY <2>1
  <2>3. t.pc = "insert" \/ t.pc = "conflict"
    BY <1>6
  <2>4. CASE t.pc = "conflict"
    BY <1>6, <1>7, <1>10, <2>1, <2>4 DEF CallFits, SamePacketRow
  <2>5. CASE t.pc = "insert"
    BY <1>5, <1>6, <1>7, <1>9, <1>10, <2>1, <2>2, <2>5 DEF CallFits, SamePacketRow
  <2> QED
    BY <2>3, <2>4, <2>5
<1>12. ASSUME t.pc = "insert", NEW d \in Sends \ {c}, sends[d].pc = "insert"
       PROVE  t.id # sends[d].id /\ ~(t.m.packet # 0 /\ t.m.packet = sends[d].m.packet)
  <2>1. PICK u \in Send : u = sends[d]
    BY <1>3
  <2>2. u.id <= last /\ u.id \in Nat
    BY <1>2, <1>12, <2>1, CallNumbers DEF MessagesInv, CallFits, Send
  <2>3. t.id = last + 1
    BY <1>6, <1>12
  <2>4. ~SamePacket(c, d)
    BY <1>12 DEF InsertMessage
  <2>5. ~(s.m.packet # 0 /\ s.m.packet = u.m.packet)
    BY <1>1, <2>1, <2>4 DEF SamePacket
  <2> QED
    BY <1>6, <2>1, <2>2, <2>3, <2>5
<1>13. lastMailId' \in Nat /\ lastMailId' >= lastMailId
  BY <1>2, <1>7
<1> QED
  BY <1>6, <1>7, <1>8, <1>11, <1>12, <1>13, CallGoesOn

LEMMA AnswerKeeps ==
    ASSUME MessagesInv, NEW c \in Sends, GetMessageByReviewPacket(c) PROVE MessagesInv'
<1>1. PICK s \in Send : s = sends[c] /\ s.pc = "conflict" /\ CallFits(s)
  BY DEF MessagesInv, MessagesTyped, GetMessageByReviewPacket
<1>2. sends \in [Sends -> Send]
  BY DEF MessagesInv, MessagesTyped
<1>3. PICK i \in Present : /\ mail[i].packet = s.m.packet
                           /\ sends' = [sends EXCEPT ![c].pc = "done", ![c].id = i]
  BY <1>1 DEF GetMessageByReviewPacket
<1>4. i \in MailIds
  BY DEF Present
<1>5. PICK t : t = [s EXCEPT !.pc = "done", !.id = i]
  OBVIOUS
<1>6. t \in Send /\ t.m = s.m /\ t.pc = "done" /\ t.id = i
  BY <1>4, <1>5 DEF Send, SendState
<1>7. sends' = [sends EXCEPT ![c] = t]
  <2>1. PICK half : half = [sends EXCEPT ![c].pc = "done"]
    OBVIOUS
  <2>2. sends' = [half EXCEPT ![c].id = i]
    BY <1>3, <2>1
  <2> QED
    BY <1>1, <1>2, <1>5, <2>1, <2>2
<1>8. UNCHANGED <<mail, lastMailId, marks, inbox>>
  BY DEF GetMessageByReviewPacket, SendOnly
<1>9. Present' = Present
  BY <1>8 DEF Present
<1>10. s.m.packet # 0 /\ Proper(s.m)
  BY <1>1 DEF CallFits, SamePacketRow
<1>11. CallFits(t)'
  BY <1>3, <1>6, <1>8, <1>9, <1>10 DEF CallFits, SamePacketRow
<1>12. Drawn' = Drawn
  BY <1>1, <1>2, <1>6, <1>7 DEF Drawn
<1>13. lastMailId' \in Nat /\ lastMailId' >= lastMailId /\ lastMailId' = Cardinality(Drawn')
  <2>1. lastMailId \in Nat /\ lastMailId = Cardinality(Drawn)
    BY DEF MessagesInv, MessagesTyped
  <2> QED
    BY <1>8, <1>12, <2>1
<1> QED
  BY <1>6, <1>7, <1>8, <1>11, <1>13, CallGoesOn

LEMMA CommitKeeps == ASSUME MessagesInv, NEW c \in Sends, CommitMessage(c) PROVE MessagesInv'
<1>1. PICK s \in Send : s = sends[c] /\ s.pc = "insert" /\ CallFits(s)
  BY DEF MessagesInv, MessagesTyped, CommitMessage
<1>2. sends \in [Sends -> Send] /\ mail \in [MailIds -> Mail]
  BY DEF MessagesInv, MessagesTyped
<1>3. PICK i \in MailIds : /\ i = s.id /\ i <= lastMailId /\ mail[i] = NoMail /\ s.m.thread < i
                           /\ ~\E j \in Present : SamePacketRow(s.m, j)
  BY <1>1 DEF CallFits
<1>4. Proper(s.m) /\ s.m \in Mail /\ s.m # NoMail
  <2>1. Proper(s.m) /\ s.m \in Mail /\ s.m.at # 0
    BY <1>1 DEF CallFits, Proper, Send
  <2> QED
    BY <2>1, NoMailFits
<1>5. PICK t : t = [s EXCEPT !.pc = "done"]
  OBVIOUS
<1>6. t \in Send /\ t.m = s.m /\ t.pc = "done" /\ t.id = i
  BY <1>3, <1>5 DEF Send, SendState
<1>7. /\ mail' = [mail EXCEPT ![i] = s.m] /\ sends' = [sends EXCEPT ![c] = t]
      /\ UNCHANGED <<lastMailId, marks, inbox>>
  BY <1>1, <1>2, <1>3, <1>5 DEF CommitMessage, SendBecomes
<1>8. /\ mail'[i] = s.m /\ \A j \in MailIds \ {i} : mail'[j] = mail[j]
      /\ sends'[c] = t /\ \A d \in Sends \ {c} : sends'[d] = sends[d]
  BY <1>2, <1>7
<1>9. Present' = Present \cup {i} /\ i \notin Present /\ Present \subseteq MailIds
  BY <1>3, <1>4, <1>8 DEF Present
<1>10. MessagesTyped'
  BY <1>2, <1>4, <1>6, <1>7 DEF MessagesInv, MessagesTyped
<1>11. (\A j \in MailIds : RowKept(j))'
  BY <1>3, <1>4, <1>7, <1>8 DEF MessagesInv, RowKept
<1>12. (lastMailId = Cardinality(Drawn))'
  <2>1. Drawn' = Drawn
    BY <1>1, <1>6, <1>8 DEF Drawn
  <2> QED
    BY <1>7, <2>1 DEF MessagesInv
<1>13. ASSUME NEW d \in Sends \ {c} PROVE CallFits(sends[d])'
  <2>1. PICK u \in Send : u = sends[d] /\ CallFits(u)
    BY <1>2 DEF MessagesInv
  <2>2. u.pc = "insert" => u.id # i /\ ~(s.m.packet # 0 /\ s.m.packet = u.m.packet)
    BY <1>1, <1>3, <2>1 DEF MessagesInv, InsertsDiffer, SamePacket
  <2>3. u.pc = "insert" => /\ mail'[u.id] = NoMail
                           /\ ~\E j \in Present' : (mail'[j].packet = u.m.packet /\ u.m.packet # 0)
    <3> SUFFICES ASSUME u.pc = "insert"
                 PROVE  /\ mail'[u.id] = NoMail
                        /\ ~\E j \in Present' : (mail'[j].packet = u.m.packet /\ u.m.packet # 0)
      OBVIOUS
    <3>1. mail'[u.id] = NoMail
      BY <1>8, <2>1, <2>2 DEF CallFits
    <3>2. ASSUME NEW j \in Present PROVE ~(mail'[j].packet = u.m.packet /\ u.m.packet # 0)
      BY <1>8, <1>9, <2>1 DEF CallFits, SamePacketRow
    <3>3. ~(mail'[i].packet = u.m.packet /\ u.m.packet # 0)
      BY <1>8, <2>2
    <3> QED
      BY <1>9, <3>1, <3>2, <3>3
  <2>4. \A j \in Present : mail'[j] = mail[j]
    BY <1>8, <1>9
  <2>5. CallFits(u)'
    <3>1. u.pc = "conflict" =>
             \E j \in Present' : mail'[j].packet = u.m.packet /\ u.m.packet # 0
      BY <1>9, <2>1, <2>4 DEF CallFits, SamePacketRow
    <3>2. u.pc = "done" =>
             /\ u.id \in Present'
             /\ mail'[u.id] = u.m \/ (mail'[u.id].packet = u.m.packet /\ u.m.packet # 0)
      BY <1>9, <2>1, <2>4 DEF CallFits, SamePacketRow
    <3> QED
      BY <1>7, <2>1, <2>3, <3>1, <3>2 DEF CallFits, SamePacketRow
  <2> QED
    BY <1>8, <2>1, <2>5
<1>14. CallFits(sends[c])'
  <2>1. CallFits(t)'
    BY <1>4, <1>6, <1>8, <1>9 DEF CallFits
  <2> QED
    BY <1>8, <2>1
<1>15. InsertsDiffer'
  BY <1>6, <1>8 DEF MessagesInv, InsertsDiffer, SamePacket
<1>16. PacketsDiffer'
  <2>1. ASSUME NEW j \in Present, NEW k \in Present,
               mail'[j].packet # 0, mail'[j].packet = mail'[k].packet
        PROVE  j = k
    BY <1>8, <1>9, <2>1 DEF MessagesInv, PacketsDiffer
  <2>2. ASSUME NEW j \in Present PROVE ~(s.m.packet # 0 /\ s.m.packet = mail'[j].packet)
    BY <1>3, <1>8, <1>9 DEF SamePacketRow
  <2> QED
    BY <1>8, <1>9, <2>1, <2>2 DEF PacketsDiffer
<1>17. (/\ marks \in SUBSET (Present \X Waiters)
        /\ \A r \in Waiters : inbox[r].got \in SUBSET Present)'
  BY <1>7, <1>9 DEF MessagesInv
<1> QED
  BY <1>10, <1>11, <1>12, <1>13, <1>14, <1>15, <1>16, <1>17 DEF MessagesInv

-----------------------------------------------------------------------------
(* What a caller finds                                                       *)

LEMMA FoundByCallers == MessagesInv => SentIsFound
<1> SUFFICES ASSUME MessagesInv PROVE SentIsFound
  OBVIOUS
<1>1. MessagesTyped /\ Present \in SUBSET MailIds
  BY DEF MessagesInv, Present
<1>2. MessagesTypeOK
  <2>1. ASSUME NEW i \in MailIds, mail[i] # NoMail
        PROVE  mail[i].by \in Talkers /\ i <= lastMailId /\ mail[i].thread < i
    BY <2>1 DEF MessagesInv, RowKept, Proper
  <2>2. marks \subseteq {i \in MailIds : mail[i] # NoMail} \X Waiters
    BY DEF MessagesInv, Present
  <2>3. \A c \in Sends : sends[c].pc \in {"idle", "built", "insert", "conflict", "done", "failed"}
    BY <1>1 DEF MessagesTyped, Send, SendState
  <2>4. \A r \in Waiters : inbox[r].got \subseteq MailIds /\ inbox[r].cursor \in 0..Cardinality(Sends)
    BY <1>1 DEF MessagesTyped, Count
  <2> QED
    BY <2>1, <2>2, <2>3, <2>4 DEF MessagesTypeOK
<1>3. ASSUME NEW c \in Sends, sends[c].pc = "done"
      PROVE  \E m \in Mail, i \in Present :
                /\ m = sends[c].m /\ i = sends[c].id /\ Proper(m) /\ Proper(mail[i])
                /\ mail[i] = m \/ (mail[i].packet = m.packet /\ m.packet # 0)
                /\ mail[i].task = m.task
  <2>1. PICK s \in Send : s = sends[c] /\ CallFits(s) /\ s.pc = "done"
    BY <1>1, <1>3 DEF MessagesInv, MessagesTyped
  <2>2. PICK m \in Mail : m = s.m /\ Proper(m)
    BY <2>1 DEF CallFits, Send
  <2>3. PICK i \in Present : i = s.id /\ (mail[i] = m \/ (mail[i].packet = m.packet /\ m.packet # 0))
    BY <2>1, <2>2 DEF CallFits, SamePacketRow
  <2>4. Proper(mail[i])
    BY DEF MessagesInv, RowKept, Present
  <2>5. mail[i].task = m.task
    BY <2>2, <2>3, <2>4 DEF Proper
  <2> QED
    BY <2>1, <2>2, <2>3, <2>4, <2>5
<1>4. ASSUME NEW c \in Sends, sends[c].pc = "done"
      PROVE  sends[c].id \in ListMessages(sends[c].m.task, "anyone", Cardinality(Sends))
  <2>1. PICK m \in Mail, i \in Present :
           m = sends[c].m /\ i = sends[c].id /\ mail[i].task = m.task
    BY <1>3, <1>4
  <2>2. PICK S : S = {j \in Present : m.task = 0 \/ mail[j].task = m.task}
    OBVIOUS
  <2>3. S \in SUBSET MailIds /\ i \in S
    BY <1>1, <2>1, <2>2
  <2>4. Page(S, Count) = S
    BY <1>1, <2>3, WholePage
  <2>5. ListMessages(m.task, "anyone", Count) = Page(S, Count)
    BY <2>2, MessagesAssumption DEF ListMessages
  <2> QED
    BY <2>1, <2>3, <2>4, <2>5 DEF Count
<1>5. ASSUME NEW c \in Sends, NEW d \in Sends, sends[c].pc = "done", sends[d].pc = "done",
             SamePacket(c, d)
      PROVE  sends[c].id = sends[d].id
  <2>1. PICK m \in Mail, i \in Present :
           /\ m = sends[c].m /\ i = sends[c].id
           /\ mail[i] = m \/ (mail[i].packet = m.packet /\ m.packet # 0)
    BY <1>3, <1>5
  <2>2. PICK n \in Mail, j \in Present :
           /\ n = sends[d].m /\ j = sends[d].id
           /\ mail[j] = n \/ (mail[j].packet = n.packet /\ n.packet # 0)
    BY <1>3, <1>5
  <2>3. m.packet # 0 /\ m.packet = n.packet
    BY <1>5, <2>1, <2>2 DEF SamePacket
  <2> QED
    BY <2>1, <2>2, <2>3 DEF MessagesInv, PacketsDiffer
<1>6. ASSUME NEW c \in Sends, sends[c].pc = "done",
             sends[c].m.schema \in {"worker_packet", "completion"}
      PROVE  \E i \in LatestTaskPacket(sends[c].m.task) \cup LatestCompletion(sends[c].m.task) :
                mail[i].schema = sends[c].m.schema /\ mail[i].at >= sends[c].m.at
  <2>1. PICK m \in Mail, i \in Present :
           /\ m = sends[c].m /\ Proper(m)
           /\ mail[i] = m \/ (mail[i].packet = m.packet /\ m.packet # 0)
    BY <1>3, <1>6
  <2>2. mail[i] = m
    BY <1>6, <2>1 DEF Proper
  <2>3. PICK S : S = {j \in Present : mail[j].task = m.task /\ mail[j].schema = m.schema}
    OBVIOUS
  <2>4. S \in SUBSET MailIds /\ i \in S
    BY <1>1, <2>2, <2>3
  <2>5. PICK k \in Page(S, 1) : mail[k].at >= mail[i].at
    BY <1>1, <2>4, FirstOfPage
  <2>6. mail[k].schema = m.schema
    BY <2>3, <2>5 DEF Page
  <2>7. Page(S, 1) \subseteq LatestTaskPacket(m.task) \cup LatestCompletion(m.task)
    BY <1>6, <2>1, <2>3 DEF LatestTaskPacket, LatestCompletion
  <2> QED
    BY <2>1, <2>2, <2>5, <2>6, <2>7
<1>7. ASSUME NEW c \in Sends, sends[c].pc = "done", NEW r \in Waiters, sends[c].m.by # r,
             <<sends[c].id, r>> \notin marks
      PROVE  UnreadCount(r, 0) > 0
  <2>1. PICK m \in Mail, i \in Present :
           /\ m = sends[c].m /\ i = sends[c].id /\ Proper(mail[i])
           /\ mail[i] = m \/ (mail[i].packet = m.packet /\ m.packet # 0)
    BY <1>3, <1>7
  <2>2. mail[i].by # r
    BY <1>7, <2>1 DEF Proper
  <2>3. PICK S : S = {j \in Unread(r) : j > 0}
    OBVIOUS
  <2>4. i \in S /\ S \subseteq MailIds
    <3>1. i > 0
      BY <1>1, CallNumbers
    <3>2. i \in Unread(r)
      BY <1>7, <2>1, <2>2 DEF Unread
    <3>3. Unread(r) \subseteq MailIds
      BY <1>1 DEF Unread
    <3> QED
      BY <2>3, <3>1, <3>2, <3>3
  <2>5. Cardinality(S) \in Nat /\ Cardinality(S) # 0
    BY <2>4, CallNumbers, FS_Subset, FS_EmptySet, FS_CardinalityType
  <2> QED
    BY <2>3, <2>5 DEF UnreadCount
<1> QED
  BY <1>2, <1>4, <1>5, <1>6, <1>7 DEF SentIsFound

\* A caller that has its answer finds what it sent, a review packet is one
\* message for all who sent it, the packet a worker is given is not an older
\* one, and what others sent is counted as unread (CreateMessage and the
\* queries of messages/internal/store.go).
THEOREM MessagesFound == MessagesSpec => []SentIsFound
<1>1. MessagesInv /\ [MessagesNext]_messageVars => MessagesInv'
  <2> SUFFICES ASSUME MessagesInv, [MessagesNext]_messageVars PROVE MessagesInv'
    OBVIOUS
  <2>1. ASSUME NEW c \in Sends, Calling(c) PROVE MessagesInv'
    BY <2>1, CallsAsk, AskKeeps
  <2>2. ASSUME NEW c \in Sends, Sending(c) PROVE MessagesInv'
    BY <2>2, InsertKeeps, CommitKeeps, AnswerKeeps DEF Sending
  <2>3. ASSUME NEW r \in Waiters, NEW about \in {0, 1},
               WaitForMessages(r) \/ MarkRead(r) \/ MarkNotificationsRead(r, about)
        PROVE  MessagesInv'
    BY <2>3, ReadKeeps
  <2>4. CASE UNCHANGED messageVars
    <3>1. UNCHANGED <<mail, lastMailId, sends, marks, inbox>>
      BY <2>4 DEF messageVars
    <3> QED
      BY <3>1, ReadersKeep DEF MessagesInv, MessagesTyped
  <2> QED
    BY <2>1, <2>2, <2>3, <2>4 DEF MessagesNext
<1> QED
  BY <1>1, MessagesStart, FoundByCallers, PTL DEF MessagesSpec

=============================================================================
