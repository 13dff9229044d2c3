----------------------------- MODULE StatusProofs -----------------------------
(***************************************************************************)
(* Theorems about the handlers that only read, for every configuration,    *)
(* number of clients and set of questions.                                 *)
(***************************************************************************)
EXTENDS StatusApi, TerminateProofs

-----------------------------------------------------------------------------
(* The invariant of the reading handlers.                                  *)

\* What is published fits together.
PublishedFacts ==
    \A i \in 1..Len(latestDecisions) :
        /\ latestSnapshot # NoSnapshot
        /\ latestDecisions[i].pids \subseteq latestSnapshot

Plans == Seq({"snapshot", "decisions"})
Shots == (SUBSET Pids) \cup {NoSnapshot}
DecisionLists == Seq(Decision)
Replies == Seq([policy : PolicyNames, triggered : BOOLEAN, pids : SUBSET Pids,
                onCooldown : BOOLEAN])

ReaderRecord ==
    [at : {"idle", "reading", "replied"}, question : Questions \cup {NotReading.question},
     plan : Plans, status : {0, 200, 404},
     shot : Shots, shotOld : BOOLEAN,
     decisions : DecisionLists, decOld : BOOLEAN,
     states : Replies]

\* A status whose snapshot is not old has the published decisions as well.
InStep(r) ==
    r.question.about = "status" =>
        /\ r.plan \in {<<"snapshot", "decisions">>, <<"decisions">>, <<>>}
        /\ r.plan = <<"decisions">> /\ ~r.shotOld => r.shot = latestSnapshot
        /\ r.plan = <<>> /\ ~r.shotOld =>
              ~r.decOld /\ r.shot = latestSnapshot /\ r.decisions = latestDecisions

\* The targets of a reply are those of the decisions fetched.
Faithful(r) ==
    /\ r.plan # <<>> => r.states = <<>>
    /\ Len(r.states) <= Len(r.decisions)
    /\ \A i \in 1..Len(r.states) : r.states[i].pids = r.decisions[i].pids

Readers ==
    /\ reader \in [Clients -> ReaderRecord]
    /\ \A c \in Clients : reader[c].at = "reading" => InStep(reader[c]) /\ Faithful(reader[c])

WebInv == SysInv /\ PublishedFacts /\ Readers

\* Either a check publishes, or what was published stays.
LEMMA PublicationFrame ==
    ASSUME SysInv, [SysNext]_sysVars
    PROVE  \/ pc = "evaluate" /\ pc' = "decide" /\ Publish
           \/ ~(pc = "evaluate" /\ pc' = "decide") /\ UNCHANGED latestVars
<1>1. TypeOK /\ [Next]_vars
  BY SysStep DEF SysInv, TypeInv
<1>2. QED
  BY <1>1, DaemonFrame

LEMMA PublishedStep ==
    ASSUME SysInv, PublishedFacts, [SysNext]_sysVars
    PROVE  PublishedFacts'
<1>1. CASE Publish
  <2> SUFFICES ASSUME NEW i \in 1..Len(latestDecisions')
               PROVE  /\ latestSnapshot' # NoSnapshot
                      /\ latestDecisions'[i].pids \subseteq latestSnapshot'
    BY DEF PublishedFacts
  <2>1. /\ latestSnapshot' = {s.pid : s \in snapshot.procs}
        /\ latestDecisions' \in Evaluations(Policies, snapshot)
    BY <1>1 DEF Publish
  <2>2. \A s \in snapshot.procs : s.pid \in Pids
    BY DEF SysInv, TypeInv, TypeOK
  <2>3. latestDecisions'[i].pids \subseteq latestSnapshot'
    BY <2>1, <2>2, EvaluationsTargetSnapshot
  <2>4. latestSnapshot' # NoSnapshot
    BY <2>1, <2>2, DaemonAssumption
  <2>5. QED
    BY <2>3, <2>4
<1>2. CASE UNCHANGED latestVars
  BY <1>2 DEF PublishedFacts, latestVars
<1>3. QED
  BY <1>1, <1>2, PublicationFrame

\* What a reading handler fetches or shows is of the right kind.
LEMMA ReaderUpdated ==
    ASSUME NEW r \in ReaderRecord
    PROVE  /\ \A plan \in Plans, shot \in Shots :
                  [r EXCEPT !.plan = plan, !.shot = shot, !.shotOld = FALSE] \in ReaderRecord
           /\ \A plan \in Plans, decisions \in DecisionLists :
                  [r EXCEPT !.plan = plan, !.decisions = decisions, !.decOld = FALSE]
                      \in ReaderRecord
           /\ \A states \in Replies : [r EXCEPT !.states = states] \in ReaderRecord
           /\ \A shot \in Shots :
                  [r EXCEPT !.shot = shot, !.shotOld = TRUE, !.decOld = TRUE] \in ReaderRecord
<1> DEFINE stages == {"idle", "reading", "replied"}
           questions == Questions \cup {NotReading.question}
           codes == {0, 200, 404}
           flags == BOOLEAN
<1>1. ReaderRecord = [at : stages, question : questions, plan : Plans, status : codes,
                      shot : Shots, shotOld : flags, decisions : DecisionLists,
                      decOld : flags, states : Replies]
  BY DEF ReaderRecord
<1>2. TRUE \in flags /\ FALSE \in flags
  OBVIOUS
<1> HIDE DEF stages, questions, codes, flags
<1>3. \A plan \in Plans, shot \in Shots :
         [r EXCEPT !.plan = plan, !.shot = shot, !.shotOld = FALSE] \in ReaderRecord
  BY <1>1, <1>2
<1>4. \A plan \in Plans, decisions \in DecisionLists :
         [r EXCEPT !.plan = plan, !.decisions = decisions, !.decOld = FALSE] \in ReaderRecord
  BY <1>1, <1>2
<1>5. \A states \in Replies : [r EXCEPT !.states = states] \in ReaderRecord
  BY <1>1
<1>6. \A shot \in Shots :
         [r EXCEPT !.shot = shot, !.shotOld = TRUE, !.decOld = TRUE] \in ReaderRecord
  BY <1>1, <1>2
<1>7. QED
  BY <1>3, <1>4, <1>5, <1>6

LEMMA NotReadingTyped ==
    /\ NotReading \in ReaderRecord
    /\ NotReading.at = "idle"
    /\ \A status \in {200, 404} :
          LET r == [NotReading EXCEPT !.at = "replied", !.status = status]
          IN  r \in ReaderRecord /\ r.at = "replied"
<1>1. NotReading.question \in Questions \cup {NotReading.question}
  OBVIOUS
<1>2. NotReading = [at |-> "idle", question |-> NotReading.question, plan |-> <<>>, status |-> 0,
                    shot |-> {}, shotOld |-> FALSE, decisions |-> <<>>, decOld |-> FALSE,
                    states |-> <<>>]
  BY DEF NotReading, Reader
<1> DEFINE n == NotReading
           q == NotReading.question
<1>3. n = [at |-> "idle", question |-> q, plan |-> <<>>, status |-> 0,
           shot |-> {}, shotOld |-> FALSE, decisions |-> <<>>, decOld |-> FALSE,
           states |-> <<>>]
  BY <1>2
<1>4. q \in Questions \cup {NotReading.question}
  BY <1>1
<1> HIDE DEF n, q
<1>5. n \in ReaderRecord /\ n.at = "idle"
  <2>1. <<>> \in Plans /\ <<>> \in DecisionLists /\ <<>> \in Replies /\ {} \in Shots
    BY DEF Plans, DecisionLists, Replies, Shots
  <2>2. QED
    BY <1>3, <1>4, <2>1 DEF ReaderRecord
<1>6. \A status \in {200, 404} :
          LET r == [n EXCEPT !.at = "replied", !.status = status]
          IN  r \in ReaderRecord /\ r.at = "replied"
  <2> SUFFICES ASSUME NEW status \in {200, 404}
               PROVE  /\ [n EXCEPT !.at = "replied", !.status = status] \in ReaderRecord
                      /\ [n EXCEPT !.at = "replied", !.status = status].at = "replied"
    OBVIOUS
  <2> DEFINE stages == {"idle", "reading", "replied"}
             questions == Questions \cup {NotReading.question}
             codes == {0, 200, 404}
  <2>1. ReaderRecord = [at : stages, question : questions, plan : Plans, status : codes,
                        shot : Shots, shotOld : BOOLEAN, decisions : DecisionLists,
                        decOld : BOOLEAN, states : Replies]
    BY DEF ReaderRecord
  <2>2. "replied" \in stages /\ status \in codes
    OBVIOUS
  <2> HIDE DEF stages, questions, codes
  <2>3. [n EXCEPT !.at = "replied", !.status = status] \in ReaderRecord
    BY <1>5, <2>1, <2>2
  <2>4. [n EXCEPT !.at = "replied", !.status = status].at = "replied"
    BY <1>5, <2>1
  <2>5. QED
    BY <2>3, <2>4
<1>7. QED
  BY <1>5, <1>6 DEF n

LEMMA WebInvInit == WebInit => WebInv
<1> SUFFICES ASSUME WebInit PROVE WebInv
  OBVIOUS
<1>1. SysInv
  BY SysInvInit DEF WebInit
<1>2. PublishedFacts
  BY DEF WebInit, SysInit, Init, PublishedFacts
<1>3. Readers
  BY NotReadingTyped DEF WebInit, Readers
<1>4. QED
  BY <1>1, <1>2, <1>3 DEF WebInv

\* While others move, what a handler has fetched grows old.
LEMMA ReaderAges ==
    ASSUME NEW r \in ReaderRecord, r.at = "reading", InStep(r), Faithful(r),
           NEW publishing \in BOOLEAN, ~publishing => UNCHANGED latestVars,
           NEW k, k = IF publishing
                      THEN [r EXCEPT !.shot = {}, !.shotOld = TRUE, !.decOld = TRUE]
                      ELSE r
    PROVE  k \in ReaderRecord /\ InStep(k)' /\ Faithful(k)'
<1>1. /\ k \in ReaderRecord
      /\ k.question = r.question /\ k.plan = r.plan
      /\ k.decisions = r.decisions /\ k.states = r.states
      /\ publishing => k.shotOld
      /\ ~publishing => k.shot = r.shot /\ k.shotOld = r.shotOld /\ k.decOld = r.decOld
  <2>1. CASE publishing
    <3>1. k = [r EXCEPT !.shot = {}, !.shotOld = TRUE, !.decOld = TRUE]
      BY <2>1
    <3>2. k \in ReaderRecord
      <4>1. {} \in Shots
        BY DEF Shots
      <4>2. \A shot \in Shots :
                [r EXCEPT !.shot = shot, !.shotOld = TRUE, !.decOld = TRUE] \in ReaderRecord
        BY ReaderUpdated
      <4>3. [r EXCEPT !.shot = {}, !.shotOld = TRUE, !.decOld = TRUE] \in ReaderRecord
        BY <4>1, <4>2
      <4>4. QED
        BY <3>1, <4>3
    <3>3. QED
      BY <2>1, <3>1, <3>2 DEF ReaderRecord
  <2>2. CASE ~publishing
    BY <2>2
  <2>3. QED
    BY <2>1, <2>2
<1>2. InStep(k)'
  BY <1>1 DEF InStep, latestVars
<1>3. Faithful(k)'
  BY <1>1 DEF Faithful
<1>4. QED
  BY <1>1, <1>2, <1>3

\* A step of one reading handler, while the rest of the system waits.
LEMMA ReaderMoves ==
    ASSUME Readers, NEW c \in Clients, NEW k \in ReaderRecord,
           k.at = "reading" => InStep(k) /\ Faithful(k), Put(c, k)
    PROVE  Readers'
<1>1. reader' = [reader EXCEPT ![c] = k] /\ UNCHANGED latestVars
  BY DEF Put, sysVars, vars
<1>2. reader' \in [Clients -> ReaderRecord]
  BY <1>1 DEF Readers
<1>3. ASSUME NEW d \in Clients, reader'[d].at = "reading"
      PROVE  InStep(reader[d])' /\ Faithful(reader[d])'
  <2>1. InStep(reader'[d]) /\ Faithful(reader'[d])
    BY <1>1, <1>3 DEF Readers
  <2>2. InStep(reader[d])'
    BY <1>1, <2>1 DEF InStep, latestVars
  <2>3. Faithful(reader[d])'
    BY <1>1, <2>1 DEF Faithful
  <2>4. QED
    BY <2>2, <2>3
<1>4. QED
  BY <1>2, <1>3 DEF Readers

LEMMA AskKeepsReaders ==
    ASSUME Readers, NEW c \in Clients, NEW question \in Questions, AskPolicies(c, question)
    PROVE  Readers'
<1>1. CASE question.about = "policy" /\ question.name \notin PolicyNames
  <2> DEFINE k == [NotReading EXCEPT !.at = "replied", !.status = 404]
  <2>1. k \in ReaderRecord /\ k.at = "replied"
    BY NotReadingTyped
  <2>2. Put(c, k)
    BY <1>1 DEF AskPolicies
  <2> HIDE DEF k
  <2>3. QED
    BY <2>1, <2>2, ReaderMoves
<1>2. CASE ~(question.about = "policy" /\ question.name \notin PolicyNames)
  <2> DEFINE k == Reader("reading", question, Reads(question), 0)
  <2>1. k = [at |-> "reading", question |-> question, plan |-> Reads(question), status |-> 0,
             shot |-> {}, shotOld |-> FALSE, decisions |-> <<>>, decOld |-> FALSE,
             states |-> <<>>]
    BY DEF Reader
  <2>2. Put(c, k)
    BY <1>2 DEF AskPolicies
  <2>3. /\ Reads(question) \in Plans
        /\ question.about = "status" => Reads(question) = <<"snapshot", "decisions">>
        /\ Reads(question) # <<>>
    <3>1. <<"snapshot", "decisions">> \in Plans
      BY DEF Plans
    <3>2. <<"snapshot">> \in Plans /\ <<"decisions">> \in Plans
      BY DEF Plans
    <3>3. <<"snapshot", "decisions">> # <<>> /\ <<"snapshot">> # <<>> /\ <<"decisions">> # <<>>
      OBVIOUS
    <3>4. QED
      BY <3>1, <3>2, <3>3, StatusApiAssumption DEF Reads
  <2>4. <<>> \in DecisionLists /\ <<>> \in Replies /\ {} \in Shots
    BY DEF DecisionLists, Replies, Shots
  <2> HIDE DEF k
  <2>5. k \in ReaderRecord
    BY <2>1, <2>3, <2>4 DEF ReaderRecord
  <2>6. InStep(k) /\ Faithful(k)
    BY <2>1, <2>3 DEF InStep, Faithful
  <2>7. QED
    BY <2>2, <2>5, <2>6, ReaderMoves
<1>3. QED
  BY <1>1, <1>2

\* What was fetched last is the tail of a plan.
LEMMA PlanShrinks ==
    ASSUME Readers, NEW c \in Clients, NEW what \in {"snapshot", "decisions"}, Fetches(c, what)
    PROVE  /\ reader[c] \in ReaderRecord
           /\ Tail(reader[c].plan) \in Plans
           /\ reader[c].states = <<>>
           /\ InStep(reader[c]) /\ Faithful(reader[c])
           /\ reader[c].question.about = "status" =>
                 /\ what = "snapshot" =>  Tail(reader[c].plan) = <<"decisions">>
                 /\ what = "decisions" =>
                       reader[c].plan = <<"decisions">> /\ Tail(reader[c].plan) = <<>>
<1> DEFINE plan == reader[c].plan
<1>1. reader[c] \in ReaderRecord /\ InStep(reader[c]) /\ Faithful(reader[c])
  BY DEF Fetches, Readers
<1>2. plan \in Seq({"snapshot", "decisions"}) /\ plan # <<>> /\ Head(plan) = what
  BY <1>1 DEF Fetches, ReaderRecord, Plans
<1>3. reader[c].question.about = "status" =>
         plan \in {<<"snapshot", "decisions">>, <<"decisions">>, <<>>}
  BY <1>1 DEF InStep
<1>4. reader[c].states = <<>>
  BY <1>1, <1>2 DEF Faithful
<1> HIDE DEF plan
<1>5. Tail(plan) \in Plans
  BY <1>2 DEF Plans
<1>6. reader[c].question.about = "status" =>
         /\ what = "snapshot" => Tail(plan) = <<"decisions">>
         /\ what = "decisions" => plan = <<"decisions">> /\ Tail(plan) = <<>>
  <2>1. CASE plan = <<"snapshot", "decisions">>
    <3>1. Head(plan) = "snapshot"
      BY <2>1
    <3>2. Tail(plan) = <<"decisions">>
      BY <2>1
    <3>3. QED
      BY <1>2, <3>1, <3>2
  <2>2. CASE plan = <<"decisions">>
    <3>1. Head(plan) = "decisions"
      BY <2>2
    <3>2. Tail(plan) = <<>>
      BY <2>2
    <3>3. QED
      BY <1>2, <2>2, <3>1, <3>2
  <2>3. QED
    BY <1>2, <1>3, <2>1, <2>2
<1>7. QED
  BY <1>1, <1>4, <1>5, <1>6 DEF plan

LEMMA SnapshotKeepsReaders ==
    ASSUME TypeOK, Readers, NEW c \in Clients, FetchSnapshot(c)
    PROVE  Readers'
<1> DEFINE r == reader[c]
           plan == Tail(r.plan)
           k == [r EXCEPT !.plan = plan, !.shot = latestSnapshot, !.shotOld = FALSE]
<1>1. Fetches(c, "snapshot") /\ Put(c, k)
  BY DEF FetchSnapshot
<1>2. /\ r \in ReaderRecord /\ plan \in Plans /\ r.states = <<>>
      /\ InStep(r) /\ Faithful(r)
      /\ r.question.about = "status" => plan = <<"decisions">>
  BY <1>1, PlanShrinks
<1>3. latestSnapshot \in Shots
  BY DEF TypeOK, Shots
<1> HIDE DEF r, plan
<1>4. k \in ReaderRecord
  <2>1. <<>> \in DecisionLists /\ <<>> \in Replies
    BY DEF DecisionLists, Replies
  <2>2. QED
    BY <1>2, <1>3, <2>1, ReaderUpdated
<1>5. /\ k.plan = plan /\ k.shot = latestSnapshot /\ k.shotOld = FALSE
      /\ k.question = r.question /\ k.decisions = r.decisions /\ k.decOld = r.decOld
      /\ k.states = r.states
  BY <1>2 DEF ReaderRecord
<1> HIDE DEF k
<1>6. InStep(k)
  <2>1. <<"decisions">> # <<>>
    OBVIOUS
  <2>2. QED
    BY <1>2, <1>5, <2>1 DEF InStep
<1>7. Faithful(k)
  BY <1>2, <1>5 DEF Faithful
<1>8. QED
  BY <1>1, <1>4, <1>6, <1>7, ReaderMoves

\* The decisions that are fetched are published ones.
LEMMA WantedArePublished ==
    ASSUME TypeOK, NEW question, NEW wanted \in Wanted(question)
    PROVE  /\ wanted \in DecisionLists
           /\ question.about = "status" => wanted = latestDecisions
<1>1. latestDecisions \in Seq(Decision)
  BY DEF TypeOK
<1>2. CASE question.about # "policy"
  BY <1>1, <1>2 DEF Wanted, DecisionLists
<1>3. CASE question.about = "policy"
  <2>1. CASE wanted = <<>>
    BY <1>3, <2>1 DEF DecisionLists
  <2>2. CASE wanted # <<>>
    <3>1. PICK j \in 1..Len(latestDecisions) : wanted = <<latestDecisions[j]>>
      BY <1>1, <1>3, <2>2 DEF Wanted
    <3>2. wanted \in DecisionLists /\ Len(wanted) = 1 /\ wanted[1] = latestDecisions[j]
      BY <1>1, <3>1 DEF DecisionLists
    <3>3. QED
      BY <1>3, <3>2
  <2>3. QED
    BY <2>1, <2>2
<1>4. QED
  BY <1>2, <1>3

LEMMA DecisionsKeepReaders ==
    ASSUME SysInv, Readers, NEW c \in Clients, FetchDecisions(c)
    PROVE  Readers'
<1> DEFINE r == reader[c]
           plan == Tail(r.plan)
<1>1. PICK wanted \in Wanted(r.question) :
         /\ Fetches(c, "decisions")
         /\ Put(c, [r EXCEPT !.plan = plan, !.decisions = wanted, !.decOld = FALSE])
  BY DEF FetchDecisions
<1> DEFINE k == [r EXCEPT !.plan = plan, !.decisions = wanted, !.decOld = FALSE]
<1>2. /\ r \in ReaderRecord /\ plan \in Plans /\ r.states = <<>> /\ InStep(r)
      /\ r.question.about = "status" => r.plan = <<"decisions">> /\ plan = <<>>
  BY <1>1, PlanShrinks
<1>3. TypeOK
  BY DEF SysInv, TypeInv
<1>4. /\ wanted \in DecisionLists
      /\ r.question.about = "status" => wanted = latestDecisions
  BY <1>3, WantedArePublished
<1>5. Put(c, k)
  BY <1>1
<1> HIDE DEF r, plan
<1>6. k \in ReaderRecord
  <2>1. {} \in Shots /\ <<>> \in Replies
    BY DEF Shots, Replies
  <2>2. QED
    BY <1>2, <1>4, <2>1, ReaderUpdated
<1>7. /\ k.plan = plan /\ k.decisions = wanted /\ k.decOld = FALSE
      /\ k.question = r.question /\ k.shot = r.shot /\ k.shotOld = r.shotOld
      /\ k.states = r.states
  BY <1>2 DEF ReaderRecord
<1> HIDE DEF k
<1>8. InStep(k)
  <2>1. <<"decisions">> # <<>>
    OBVIOUS
  <2>2. QED
    BY <1>2, <1>4, <1>7, <2>1 DEF InStep
<1>9. Len(k.states) = 0 /\ Len(k.decisions) \in Nat
  BY <1>2, <1>4, <1>7 DEF DecisionLists
<1>10. Faithful(k)
  BY <1>2, <1>7, <1>9 DEF Faithful
<1>11. QED
  BY <1>5, <1>6, <1>8, <1>10, ReaderMoves

LEMMA ShowKeepsReaders ==
    ASSUME Readers, NEW c \in Clients, ShowPolicy(c)
    PROVE  Readers'
<1> DEFINE r == reader[c]
           d == r.decisions[Len(r.states) + 1]
           entry == Shown(d, IsOnCooldown(d.policy))
           states == Append(r.states, entry)
           k == [r EXCEPT !.states = states]
<1>1. /\ r.at = "reading" /\ r.plan = <<>>
      /\ Len(r.states) < Len(r.decisions)
      /\ Put(c, k)
  BY DEF ShowPolicy
<1>2. r \in ReaderRecord /\ InStep(r) /\ Faithful(r)
  BY <1>1 DEF Readers
<1>3. /\ r.decisions \in Seq(Decision)
      /\ r.states \in Seq([policy : PolicyNames, triggered : BOOLEAN, pids : SUBSET Pids,
                           onCooldown : BOOLEAN])
  BY <1>2 DEF ReaderRecord, DecisionLists, Replies
<1>4. d \in Decision
  BY <1>1, <1>3
<1>5. /\ entry \in [policy : PolicyNames, triggered : BOOLEAN, pids : SUBSET Pids,
                    onCooldown : BOOLEAN]
      /\ entry.pids = d.pids
  BY <1>4 DEF Shown, Decision, IsOnCooldown
<1>6. d = r.decisions[Len(r.states) + 1]
  OBVIOUS
<1> HIDE DEF r, d, entry
<1>7. /\ states \in Replies
      /\ Len(states) = Len(r.states) + 1
      /\ states[Len(r.states) + 1] = entry
      /\ \A i \in 1..Len(r.states) : states[i] = r.states[i]
  BY <1>3, <1>5 DEF Replies
<1> HIDE DEF states
<1>8. k \in ReaderRecord
  <2>1. r.plan \in Plans /\ {} \in Shots /\ r.decisions \in DecisionLists
    BY <1>2 DEF ReaderRecord, Shots
  <2>2. QED
    BY <1>2, <1>7, <2>1, ReaderUpdated
<1>9. /\ k.states = states
      /\ k.question = r.question /\ k.plan = r.plan /\ k.shot = r.shot /\ k.shotOld = r.shotOld
      /\ k.decisions = r.decisions /\ k.decOld = r.decOld
  BY <1>2 DEF ReaderRecord
<1> HIDE DEF k
<1>10. InStep(k)
  BY <1>2, <1>9 DEF InStep
<1>11. /\ Len(k.states) <= Len(k.decisions)
       /\ \A i \in 1..Len(k.states) : k.states[i].pids = k.decisions[i].pids
  <2>1. Len(r.states) \in Nat /\ Len(r.decisions) \in Nat
    BY <1>3
  <2>2. \A i \in 1..Len(states) : i \in 1..Len(r.states) \/ i = Len(r.states) + 1
    BY <1>7, <2>1
  <2>3. \A i \in 1..Len(r.states) : states[i].pids = r.decisions[i].pids
    BY <1>2, <1>7 DEF Faithful
  <2>4. states[Len(r.states) + 1].pids = r.decisions[Len(r.states) + 1].pids
    BY <1>5, <1>6, <1>7
  <2>5. Len(states) <= Len(r.decisions)
    BY <1>1, <1>7, <2>1
  <2>6. QED
    BY <1>9, <2>2, <2>3, <2>4, <2>5
<1>12. Faithful(k)
  BY <1>1, <1>2, <1>9, <1>11 DEF Faithful
<1>13. QED
  BY <1>1, <1>8, <1>10, <1>12, ReaderMoves

LEMMA ReadersStep ==
    ASSUME SysInv, Readers, [WebNext]_webVars
    PROVE  Readers'
<1>1. CASE UNCHANGED webVars
  <2>1. UNCHANGED <<latestVars, reader>>
    BY <1>1 DEF webVars, sysVars, vars
  <2>2. QED
    BY <2>1 DEF Readers, InStep, Faithful, latestVars
<1>2. ASSUME [SysNext]_sysVars, Outdate
      PROVE  Readers'
  <2> DEFINE publishing == pc = "evaluate" /\ pc' = "decide"
  <2>1. publishing \/ UNCHANGED latestVars
    BY <1>2, PublicationFrame
  <2>2. ASSUME NEW c \in Clients
        PROVE  /\ reader'[c] \in ReaderRecord
               /\ reader'[c].at = "reading" => InStep(reader[c])' /\ Faithful(reader[c])'
    <3> DEFINE r == reader[c]
               k == IF publishing
                    THEN [r EXCEPT !.shot = {}, !.shotOld = TRUE, !.decOld = TRUE]
                    ELSE r
    <3>1. r \in ReaderRecord
      BY DEF Readers
    <3>2. CASE r.at = "reading"
      <4>1. reader'[c] = k
        BY <1>2, <3>2 DEF Outdate
      <4>2. InStep(r) /\ Faithful(r)
        BY <3>2 DEF Readers
      <4>3. publishing \in BOOLEAN
        OBVIOUS
      <4>4. reader'[c] \in ReaderRecord /\ InStep(reader[c])' /\ Faithful(reader[c])'
        <5> HIDE DEF publishing, r
        <5> QED
          BY <2>1, <3>1, <3>2, <4>1, <4>2, <4>3, ReaderAges DEF r
      <4>5. QED
        BY <4>4
    <3>3. CASE r.at # "reading"
      BY <1>2, <3>1, <3>3 DEF Outdate
    <3>4. QED
      BY <3>2, <3>3
  <2>3. reader' \in [Clients -> ReaderRecord]
    <3>1. reader' = [c \in Clients |-> reader'[c]]
      BY <1>2 DEF Outdate
    <3>2. QED
      BY <2>2, <3>1
  <2>4. QED
    BY <2>2, <2>3 DEF Readers
<1>3. ASSUME NEW c \in Clients, NEW request \in Requests, Arrive(c, request), UNCHANGED reader
      PROVE  Readers'
  <2>1. UNCHANGED latestVars
    BY <1>3 DEF Arrive, vars
  <2>2. QED
    BY <1>3, <2>1 DEF Readers, InStep, Faithful, latestVars
<1>4. ASSUME NEW c \in Clients, Read(c)
      PROVE  Readers'
  <2>1. CASE \E question \in Questions : AskPolicies(c, question)
    BY <2>1, AskKeepsReaders
  <2>2. CASE FetchSnapshot(c)
    BY <2>2, SnapshotKeepsReaders DEF SysInv, TypeInv
  <2>3. CASE FetchDecisions(c)
    BY <2>3, DecisionsKeepReaders
  <2>4. CASE ShowPolicy(c)
    BY <2>4, ShowKeepsReaders
  <2>5. CASE ShowReply(c)
    BY <2>5, NotReadingTyped, ReaderMoves DEF ShowReply
  <2>6. CASE ReadReturns(c)
    BY <2>6, NotReadingTyped, ReaderMoves DEF ReadReturns
  <2>7. QED
    BY <1>4, <2>1, <2>2, <2>3, <2>4, <2>5, <2>6 DEF Read
<1>5. QED
  BY <1>1, <1>2, <1>3, <1>4 DEF WebNext, SysNext

\* Whoever only reads leaves the rest of the system as it is.
LEMMA ReadersOnlyLook == [WebNext]_webVars => [SysNext]_sysVars
<1>1. ASSUME NEW c \in Clients, Read(c) PROVE UNCHANGED sysVars
  BY <1>1 DEF Read, AskPolicies, FetchSnapshot, FetchDecisions, ShowPolicy, ShowReply,
              ReadReturns, Put
<1>2. QED
  BY <1>1 DEF WebNext, SysNext, webVars

LEMMA WebInvHolds == WebSpec => []WebInv
<1>1. WebInv /\ [WebNext]_webVars => WebInv'
  <2> SUFFICES ASSUME WebInv, [WebNext]_webVars PROVE WebInv'
    OBVIOUS
  <2>1. [SysNext]_sysVars
    BY ReadersOnlyLook
  <2>2. SysInv' /\ [Next]_vars
    BY <2>1, SysStep DEF WebInv
  <2>3. PublishedFacts'
    BY <2>1, PublishedStep DEF WebInv
  <2>4. Readers'
    BY ReadersStep DEF WebInv
  <2>5. QED
    BY <2>2, <2>3, <2>4 DEF WebInv
<1>2. QED
  BY <1>1, WebInvInit, PTL DEF WebSpec

-----------------------------------------------------------------------------
(* The theorems about the reading handlers.                                *)

\* Clients that only read change nothing for the daemon or for requests: what
\* is proved of SysSpec, and so of the daemon, holds beside them.
\* (server.go:124-149, handlers.go:21-141)
THEOREM ReadersLookOn == WebSpec => SysSpec
<1>1. WebInit => SysInit
  BY DEF WebInit
<1>2. QED
  BY <1>1, ReadersOnlyLook, PTL DEF WebSpec, SysSpec

\* Whatever checks publish between the reads, a status never joins a snapshot
\* that is current with decisions that are not, nor with targets that the
\* snapshot lacks. (server.go:124-149, daemon.go:148-152)
THEOREM StatusFitsTogether == WebSpec => []StatusIsCoherent
<1>1. WebInv => StatusIsCoherent
  <2> SUFFICES ASSUME WebInv, NEW c \in Clients, Complete(reader[c]),
                      reader[c].question.about = "status", ~reader[c].shotOld
               PROVE  LET r == reader[c]
                      IN  /\ ~r.decOld
                          /\ \A i \in DOMAIN r.states :
                                r.shot # NoSnapshot /\ r.states[i].pids \subseteq r.shot
    BY DEF StatusIsCoherent
  <2> DEFINE r == reader[c]
  <2>1. r \in ReaderRecord /\ InStep(r) /\ Faithful(r) /\ r.plan = <<>>
    BY DEF WebInv, Readers, Complete
  <2>2. Len(r.states) = Len(r.decisions)
    BY DEF Complete
  <2>3. DOMAIN r.states = 1..Len(r.states)
    BY <2>1 DEF ReaderRecord, Replies
  <2>4. r.question.about = "status" /\ ~r.shotOld
    OBVIOUS
  <2> HIDE DEF r
  <2>5. ~r.decOld /\ r.shot = latestSnapshot /\ r.decisions = latestDecisions
    BY <2>1, <2>4 DEF InStep
  <2>6. \A i \in DOMAIN r.states :
            r.shot # NoSnapshot /\ r.states[i].pids \subseteq r.shot
    BY <2>1, <2>2, <2>3, <2>5 DEF WebInv, PublishedFacts, Faithful
  <2>7. QED
    BY <2>5, <2>6 DEF r
<1>2. QED
  BY <1>1, WebInvHolds, PTL

\* Beside readers, too, what terminate requests are told is true, and nobody is
\* touched in a dry run. (handlers.go:21-209, server.go:124-149)
THEOREM RepliesStandReaders == WebSpec => [](RepliesAreTrue /\ DryRunTouchesNobody)
  BY ReadersLookOn, RepliesTellTheTruth, DryRunsTouchNobody, PTL
=============================================================================
