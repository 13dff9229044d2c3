----------------------------- MODULE EngineProofs -----------------------------
(***************************************************************************)
(* The laws of the policy engine for every process list, load and          *)
(* configuration file.  The machine of EngineLaws only picks inputs, so    *)
(* each law is proved of the inputs (Picked) and then holds in every       *)
(* state.  The parent chains of Diagnostics are a recursive function, so   *)
(* it has to be shown that one exists, and what it computes is shown by    *)
(* induction over the processes already seen.  The induction is an         *)
(* argument about maximal elements of finite collections of sets.          *)
(***************************************************************************)
EXTENDS EngineLaws, FiniteSetTheorems, WellFoundedInduction, TLAPS

-----------------------------------------------------------------------------
(* Induction over the subsets of a finite set.                             *)

\* Some set of a collection contains no other of the collection.
LEMMA SomeSetIsMinimal ==
    ASSUME NEW S, IsFiniteSet(S), NEW C, C \subseteq SUBSET S, C # {}
    PROVE  \E A \in C : \A B \in C : B \subseteq A => B = A
<1>1. PICK R : /\ IsWellFoundedOn(R, FiniteSubsetsOf(S))
               /\ \A A, B \in SUBSET S : A \subseteq B /\ A # B => <<A, B>> \in R
  <2>1. \A A, B \in SUBSET S : A \subseteq B /\ A # B => <<A, B>> \in StrictSubsetOrdering(S)
    BY DEF StrictSubsetOrdering
  <2>2. QED
    BY <2>1, FS_StrictSubsetOrderingWellFounded, Zenon
<1>2. C \subseteq FiniteSubsetsOf(S)
  BY FS_FiniteSubsetsOfFinite
<1>3. IsWellFoundedOn(R, FiniteSubsetsOf(S))
  BY <1>1
<1>4. \E A \in C : \A B \in C : ~(<<B, A>> \in R)
  BY <1>2, <1>3, WFMin, Zenon
<1>5. QED
  BY <1>1, <1>4

\* Some set of a collection is contained in no other of the collection.
LEMMA SomeSetIsMaximal ==
    ASSUME NEW S, IsFiniteSet(S), NEW C, C \subseteq SUBSET S, C # {}
    PROVE  \E A \in C : \A B \in C : A \subseteq B => B = A
<1> DEFINE rests == {S \ A : A \in C}
<1>1. rests \subseteq SUBSET S /\ rests # {}
  <2>1. PICK A \in C : TRUE
    OBVIOUS
  <2>2. S \ A \in rests
    OBVIOUS
  <2>3. \A rest \in rests : rest \subseteq S
    OBVIOUS
  <2> HIDE DEF rests
  <2>4. QED
    BY <2>2, <2>3
<1> HIDE DEF rests
<1>2. PICK rest \in rests : \A other \in rests : other \subseteq rest => other = rest
  BY <1>1, SomeSetIsMinimal
<1>3. PICK A \in C : rest = S \ A
  BY DEF rests
<1>4. ASSUME NEW B \in C, A \subseteq B
      PROVE  B = A
  <2>1. S \ B \in rests
    BY DEF rests
  <2>2. S \ B = S \ A
    BY <1>2, <1>3, <1>4, <2>1
  <2>3. A \subseteq S /\ B \subseteq S
    OBVIOUS
  <2>4. QED
    BY <2>2, <2>3
<1>5. QED
  BY <1>4

-----------------------------------------------------------------------------
(* The recursion ends.                                                     *)

\* What ChainsUp says of the processes that are not in seen when the rest of
\* it is f.
Above(procs, f, seen) ==
    [current \in ListedPids(procs) \ seen |->
        LET p == ProcessByPID(procs, current)
            known == seen \cup {current}
        IN  IF p.ppid \in ListedPids(procs) \ known /\ p.ppid # 0
            THEN Append(f[known][p.ppid], p)
            ELSE <<p>>]

Solves(procs, f, E) == \A seen \in E : f[seen] = Above(procs, f, seen)

LEMMA ListedPidsFinite ==
    ASSUME NEW procs, IsFiniteSet(procs)
    PROVE  IsFiniteSet(ListedPids(procs)) /\ IsFiniteSet(SUBSET ListedPids(procs))
<1> DEFINE f == [p \in procs |-> p.pid]
<1>1. f \in Surjection(procs, ListedPids(procs))
  BY DEF Surjection, ListedPids
<1>2. IsFiniteSet(ListedPids(procs))
  BY <1>1, FS_Surjection
<1>3. QED
  BY <1>2, FS_SUBSET

\* A step looks only at what is said of larger sets.
LEMMA AboveLooksUp ==
    ASSUME NEW procs, NEW f, NEW g, NEW seen \in SUBSET ListedPids(procs),
           \A more \in SUBSET ListedPids(procs) :
               seen \subseteq more /\ more # seen => f[more] = g[more]
    PROVE  Above(procs, f, seen) = Above(procs, g, seen)
<1>1. \A current \in ListedPids(procs) \ seen : f[seen \cup {current}] = g[seen \cup {current}]
  OBVIOUS
<1>2. QED
  BY <1>1 DEF Above

\* There is a function that says for every set of seen processes what the code
\* adds to the chain: following parents comes to an end.
LEMMA ChainsExist ==
    ASSUME NEW procs, IsFiniteSet(procs)
    PROVE  \E f : f = [seen \in SUBSET ListedPids(procs) |-> Above(procs, f, seen)]
<1> DEFINE all == SUBSET ListedPids(procs)
           upward(E) == \A seen \in E : \A more \in all : seen \subseteq more => more \in E
           solved == {E \in SUBSET all :
                        upward(E) /\ \E f : f = [s \in all |-> f[s]] /\ Solves(procs, f, E)}
<1>1. IsFiniteSet(ListedPids(procs)) /\ IsFiniteSet(all)
  BY ListedPidsFinite
<1>2. {} \in solved
  <2> DEFINE g == [s \in all |-> <<>>]
  <2>1. g = [s \in all |-> g[s]] /\ Solves(procs, g, {})
    BY DEF Solves
  <2>2. QED
    BY <2>1
<1>3. PICK E \in solved : \A F \in solved : E \subseteq F => F = E
  <2>1. solved \subseteq SUBSET all /\ solved # {}
    BY <1>2
  <2> HIDE DEF solved
  <2>2. QED
    BY <1>1, <2>1, SomeSetIsMaximal
<1>4. PICK f : f = [s \in all |-> f[s]] /\ Solves(procs, f, E)
  BY <1>3
<1>5. ASSUME E # all
      PROVE  FALSE
  <2>1. PICK seen \in all \ E : \A more \in all \ E : seen \subseteq more => more = seen
    <3> DEFINE open == all \ E
    <3>1. open \subseteq SUBSET ListedPids(procs) /\ open # {}
      BY <1>5, <1>3
    <3> HIDE DEF open, solved
    <3>2. \E A \in open : \A B \in open : A \subseteq B => B = A
      BY <1>1, <3>1, SomeSetIsMaximal
    <3>3. QED
      BY <3>2 DEF open
  <2> DEFINE F == E \cup {seen}
             g == [s \in all |-> IF s = seen THEN Above(procs, f, seen) ELSE f[s]]
  <2>2. upward(F)
    BY <1>3, <2>1
  <2>3. ASSUME NEW s \in F
        PROVE  g[s] = Above(procs, g, s)
    <3>1. s \in all
      BY <1>3
    <3>2. \A more \in all : s \subseteq more /\ more # s => more # seen
      BY <1>3, <2>1
    <3>3. \A more \in all : s \subseteq more /\ more # s => f[more] = g[more]
      BY <3>2
    <3>4. Above(procs, f, s) = Above(procs, g, s)
      BY <3>1, <3>3, AboveLooksUp
    <3>5. g[s] = Above(procs, f, s)
      BY <1>4, <3>1 DEF Solves
    <3>6. QED
      BY <3>4, <3>5
  <2>4. g = [s \in all |-> g[s]] /\ Solves(procs, g, F)
    BY <2>3 DEF Solves
  <2>5. F \in solved
    <3>1. F \in SUBSET all
      BY <1>3
    <3> HIDE DEF F, g
    <3>2. QED
      BY <2>2, <2>4, <3>1
  <2>6. E \subseteq F /\ seen \in F /\ seen \notin E
    BY <2>1
  <2> HIDE DEF solved, F
  <2>7. QED
    BY <1>3, <2>5, <2>6
<1>6. QED
  BY <1>4, <1>5 DEF Solves

\* What the code adds to the chain for one process.
LEMMA ChainStep ==
    ASSUME NEW procs, IsFiniteSet(procs),
           NEW seen \in SUBSET ListedPids(procs), NEW current \in ListedPids(procs) \ seen
    PROVE  LET p == ProcessByPID(procs, current)
               known == seen \cup {current}
           IN  ChainsUp(procs)[seen][current] =
                  IF p.ppid \in ListedPids(procs) \ known /\ p.ppid # 0
                  THEN Append(ChainsUp(procs)[known][p.ppid], p)
                  ELSE <<p>>
<1>1. ChainsUp(procs) =
         CHOOSE f : f = [s \in SUBSET ListedPids(procs) |-> Above(procs, f, s)]
  BY Zenon DEF ChainsUp, Above
<1>2. ChainsUp(procs) = [s \in SUBSET ListedPids(procs) |-> Above(procs, ChainsUp(procs), s)]
  BY <1>1, ChainsExist, Zenon
<1>3. ChainsUp(procs)[seen] = Above(procs, ChainsUp(procs), seen)
  BY <1>2
<1>4. QED
  BY <1>3 DEF Above

-----------------------------------------------------------------------------
(* What the recursion computes.                                            *)

\* The chain leads to current, does not touch seen, and ends where there is no
\* ancestor left to add.
LeadsTo(procs, seen, current, chain) ==
    /\ chain \in Seq(procs) /\ chain # <<>>
    /\ chain[Len(chain)].pid = current
    /\ \A i \in 1..Len(chain) - 1 : chain[i].pid = chain[i + 1].ppid
    /\ \A i \in 1..Len(chain) : chain[i].pid \notin seen
    /\ \A i, j \in 1..Len(chain) : chain[i].pid = chain[j].pid => i = j
    /\ chain[1].ppid \in ListedPids(procs) \ seen =>
          \E i \in 1..Len(chain) : chain[i].pid = chain[1].ppid

LEMMA ChainOfOne ==
    ASSUME NEW procs, NEW seen, NEW p \in procs, p.pid \notin seen,
           p.ppid \notin ListedPids(procs) \ (seen \cup {p.pid})
    PROVE  LeadsTo(procs, seen, p.pid, <<p>>)
<1>1. <<p>> \in Seq(procs) /\ <<p>> # <<>> /\ Len(<<p>>) = 1 /\ <<p>>[1] = p
  OBVIOUS
<1>2. QED
  BY <1>1 DEF LeadsTo

LEMMA ChainGrows ==
    ASSUME NEW procs, NEW seen, NEW p \in procs, p.pid \notin seen, NEW chain,
           LeadsTo(procs, seen \cup {p.pid}, p.ppid, chain)
    PROVE  LeadsTo(procs, seen, p.pid, Append(chain, p))
<1> DEFINE longer == Append(chain, p)
           n == Len(chain)
<1>1. /\ chain \in Seq(procs) /\ chain # <<>> /\ n \in Nat /\ n > 0
      /\ chain[n].pid = p.ppid
      /\ \A i \in 1..n - 1 : chain[i].pid = chain[i + 1].ppid
      /\ \A i \in 1..n : chain[i].pid \notin seen \cup {p.pid}
      /\ \A i, j \in 1..n : chain[i].pid = chain[j].pid => i = j
      /\ chain[1].ppid \in ListedPids(procs) \ (seen \cup {p.pid}) =>
            \E i \in 1..n : chain[i].pid = chain[1].ppid
  BY DEF LeadsTo
<1>2. /\ longer \in Seq(procs) /\ Len(longer) = n + 1 /\ longer[n + 1] = p
      /\ \A i \in 1..n : longer[i] = chain[i]
  BY <1>1
<1> HIDE DEF longer, n
<1>3. longer # <<>>
  BY <1>1, <1>2
<1>4. \A i \in 1..(n + 1) - 1 : longer[i].pid = longer[i + 1].ppid
  <2> SUFFICES ASSUME NEW i \in 1..n
               PROVE  longer[i].pid = longer[i + 1].ppid
    BY <1>1
  <2>1. CASE i = n
    BY <1>1, <1>2, <2>1
  <2>2. CASE i # n
    <3>1. i \in 1..n - 1 /\ i + 1 \in 1..n
      BY <1>1, <2>2
    <3>2. QED
      BY <1>1, <1>2, <3>1
  <2>3. QED
    BY <2>1, <2>2
<1>5. \A i \in 1..n + 1 : i \in 1..n \/ i = n + 1
  BY <1>1
<1>6. \A i \in 1..n + 1 : longer[i].pid \notin seen
  BY <1>1, <1>2, <1>5
<1>7. \A i, j \in 1..n + 1 : longer[i].pid = longer[j].pid => i = j
  BY <1>1, <1>2, <1>5
<1>8. longer[1].ppid \in ListedPids(procs) \ seen =>
         \E i \in 1..n + 1 : longer[i].pid = longer[1].ppid
  <2>1. 1 \in 1..n /\ n + 1 \in 1..n + 1 /\ \A i \in 1..n : i \in 1..n + 1
    BY <1>1
  <2>2. longer[1] = chain[1] /\ longer[n + 1].pid = p.pid
    BY <1>2, <2>1
  <2>3. QED
    BY <1>1, <1>2, <2>1, <2>2
<1>9. LeadsTo(procs, seen, p.pid, longer)
  BY <1>2, <1>3, <1>4, <1>6, <1>7, <1>8 DEF LeadsTo
<1>10. QED
  BY <1>9 DEF longer

\* Whatever is seen already, what is added for a process leads to it.
LEMMA ChainsLead ==
    ASSUME NEW procs, IsFiniteSet(procs), \A p \in procs : p.pid # 0
    PROVE  \A seen \in SUBSET ListedPids(procs) : \A current \in ListedPids(procs) \ seen :
              LeadsTo(procs, seen, current, ChainsUp(procs)[seen][current])
<1> DEFINE pids == ListedPids(procs)
           up == ChainsUp(procs)
           wrong == {seen \in SUBSET pids :
                       \E current \in pids \ seen :
                          ~LeadsTo(procs, seen, current, up[seen][current])}
<1> SUFFICES ASSUME wrong # {} PROVE FALSE
  OBVIOUS
<1>1. PICK seen \in wrong : \A more \in wrong : seen \subseteq more => more = seen
  <2>1. wrong \subseteq SUBSET pids /\ IsFiniteSet(pids)
    BY ListedPidsFinite
  <2> HIDE DEF wrong, pids
  <2>2. QED
    BY <2>1, SomeSetIsMaximal
<1>2. PICK current \in pids \ seen : ~LeadsTo(procs, seen, current, up[seen][current])
  OBVIOUS
<1> DEFINE p == ProcessByPID(procs, current)
           known == seen \cup {current}
<1>3. p \in procs /\ p.pid = current
  <2>1. \E q \in procs : q.pid = current
    BY DEF ListedPids
  <2>2. QED
    BY <2>1 DEF ProcessByPID
<1>4. /\ seen \in SUBSET pids /\ known \in SUBSET pids
      /\ up[seen][current] = IF p.ppid \in pids \ known /\ p.ppid # 0
                             THEN Append(up[known][p.ppid], p)
                             ELSE <<p>>
  BY <1>2, ChainStep
<1>5. 0 \notin pids
  BY DEF ListedPids
<1>6. known \notin wrong
  BY <1>1, <1>2
<1> HIDE DEF up, p
<1>7. CASE p.ppid \in pids \ known
  <2>1. LeadsTo(procs, known, p.ppid, up[known][p.ppid])
    BY <1>4, <1>6, <1>7
  <2>2. LeadsTo(procs, seen, p.pid, Append(up[known][p.ppid], p))
    BY <1>2, <1>3, <2>1, ChainGrows
  <2>3. QED
    BY <1>2, <1>3, <1>4, <1>5, <1>7, <2>2
<1>8. CASE p.ppid \notin pids \ known
  <2>1. LeadsTo(procs, seen, p.pid, <<p>>)
    BY <1>2, <1>3, <1>8, ChainOfOne
  <2>2. QED
    BY <1>2, <1>3, <1>4, <1>8, <2>1
<1>9. QED
  BY <1>7, <1>8

\* The chain of a listed process leads to it from the last ancestor that can
\* be added. (diagnostics.go:180-202)
LEMMA ParentChainLeads ==
    ASSUME NEW procs, IsFiniteSet(procs), \A p \in procs : p.pid # 0,
           NEW pid \in ListedPids(procs)
    PROVE  LeadsTo(procs, {}, pid, ParentChain(procs, pid))
<1>1. LeadsTo(procs, {}, pid, ChainsUp(procs)[{}][pid])
  BY ChainsLead
<1>2. QED
  BY <1>1 DEF ParentChain

-----------------------------------------------------------------------------
(* The inputs.                                                             *)

Picked == raw \in RawLists /\ loads \in LoadPairs /\ config \in Configs

LEMMA PickedInit == Init => Picked
  BY DEF Init, Picked

LEMMA PickedStep == Picked /\ [Next]_vars => Picked'
  BY DEF Picked, Next, NewProcesses, NewLoads, NewConfig, vars

LEMMA PickedTypes ==
    ASSUME Picked
    PROVE  /\ IsFiniteSet(raw)
           /\ \A p, q \in raw : p.pid = q.pid => p = q
           /\ \A p \in raw : p.pid # 0
           /\ loads[1] \in Nat /\ loads[2] \in Nat
           /\ IsFiniteSet(DOMAIN policies)
           /\ \A n \in DOMAIN policies :
                 /\ policies[n].maxCount \in Int
                 /\ policies[n].priority \in Int
                 /\ policies[n].enabled \in BOOLEAN
                 /\ policies[n].minLoad1 \in Int
                 /\ policies[n].minLoad5 \in Int
<1>1. PICK file \in Files : config \in Load(file)
  BY DEF Picked, Configs
<1>2. QED
  BY <1>1, EngineLawsAssumption DEF Picked, policies

-----------------------------------------------------------------------------
(* The snapshot.                                                           *)

\* Every process of the snapshot is one of the list, with its parent's name.
LEMMA Resolved ==
    ASSUME Picked
    PROVE  /\ IsFiniteSet(snap.procs)
           /\ \A s \in snap.procs : \E p \in raw :
                 s = [pid |-> p.pid, name |-> p.name, parent |-> ParentName(raw, p)]
           /\ \A s, t \in snap.procs : s.pid = t.pid => s = t
<1> DEFINE described == [p \in raw |-> [pid |-> p.pid, name |-> p.name,
                                       parent |-> ParentName(raw, p)]]
<1>1. IsFiniteSet(raw) /\ \A p, q \in raw : p.pid = q.pid => p = q
  BY PickedTypes
<1>2. snap.procs = {described[p] : p \in raw}
  BY DEF snap, ResolveParents
<1>3. described \in Surjection(raw, snap.procs)
  <2>1. \A p \in raw : described[p] \in snap.procs
    BY <1>2
  <2>2. \A s \in snap.procs : \E p \in raw : described[p] = s
    BY <1>2
  <2>3. QED
    BY <2>1, <2>2 DEF Surjection
<1>4. IsFiniteSet(snap.procs)
  BY <1>1, <1>3, FS_Surjection
<1>5. QED
  BY <1>1, <1>2, <1>4

\* A policy has as many targets as processes that match it.
LEMMA MatchingCounts ==
    ASSUME Picked, NEW policy
    PROVE  LET matching == Matching(policy, snap.procs)
               pids == {s.pid : s \in matching}
           IN  /\ IsFiniteSet(matching) /\ IsFiniteSet(pids)
               /\ Cardinality(matching) \in Nat
               /\ Cardinality(pids) = Cardinality(matching)
<1> DEFINE matching == Matching(policy, snap.procs)
           pids == {s.pid : s \in matching}
           f == [s \in matching |-> s.pid]
<1>1. matching \subseteq snap.procs
  BY DEF Matching
<1>2. IsFiniteSet(matching) /\ Cardinality(matching) \in Nat
  BY <1>1, Resolved, FS_Subset, FS_CardinalityType
<1>3. f \in Bijection(matching, pids)
  <2>1. f \in [matching -> pids]
    OBVIOUS
  <2>2. \A s, t \in matching : f[s] = f[t] => s = t
    BY <1>1, Resolved
  <2>3. \A pid \in pids : \E s \in matching : f[s] = pid
    OBVIOUS
  <2>4. QED
    BY <2>1, <2>2, <2>3 DEF Bijection, Injection, Surjection, IsInjective
<1>4. ExistsBijection(matching, pids)
  BY <1>3 DEF ExistsBijection
<1>5. IsFiniteSet(pids) /\ Cardinality(pids) = Cardinality(matching)
  BY <1>2, <1>4, FS_Bijection
<1>6. QED
  BY <1>2, <1>5

\* A process that matches a policy is in the list with the policy's name and
\* with a parent the policy accepts.
LEMMA MatchingDescribes ==
    ASSUME Picked, NEW policy, NEW s \in Matching(policy, snap.procs)
    PROVE  \E p \in raw :
              /\ p.pid = s.pid
              /\ p.name = policy.process
              /\ ParentName(raw, p) \notin policy.exclude
              /\ policy.parent # NoName => ParentName(raw, p) = policy.parent
<1>1. /\ s \in snap.procs
      /\ s.name = policy.process
      /\ policy.parent # NoName => s.parent = policy.parent
      /\ s.parent \notin policy.exclude
  BY DEF Matching
<1>2. PICK p \in raw : s = [pid |-> p.pid, name |-> p.name, parent |-> ParentName(raw, p)]
  BY <1>1, Resolved
<1>3. QED
  BY <1>1, <1>2

\* A listed parent gives its name; the name of none is empty.
LEMMA ParentNames ==
    ASSUME Picked, NEW p \in raw
    PROVE  /\ \A q \in raw : q.pid = p.ppid => ParentName(raw, p) = q.name
           /\ ParentName(raw, p) # NoName => \E q \in raw : q.pid = p.ppid
<1>1. ASSUME NEW q \in raw, q.pid = p.ppid
      PROVE  ParentName(raw, p) = q.name
  <2>1. (CHOOSE r \in raw : r.pid = p.ppid) = q
    BY <1>1, PickedTypes
  <2>2. QED
    BY <1>1, <2>1 DEF ParentName
<1>2. QED
  BY <1>1 DEF ParentName

-----------------------------------------------------------------------------
(* The decisions.                                                          *)

\* What a decision is made of.
LEMMA DecisionShape ==
    ASSUME Picked, NEW d \in Decisions
    PROVE  /\ d.policy \in EnabledNames(policies)
           /\ d.policy \in DOMAIN policies
           /\ d.triggered => Thresholds(policies[d.policy], snap)
           /\ d.triggered =>
                 d.pids = {s.pid : s \in Matching(policies[d.policy], snap.procs)}
           /\ ~d.triggered => d.pids = {}
           /\ d = EvaluatePolicy(policies, d.policy, snap)
<1>1. PICK n \in EnabledNames(policies) : d = EvaluatePolicy(policies, n, snap)
  BY DEF Decisions
<1>2. d.policy = n
  BY <1>1 DEF EvaluatePolicy
<1>3. n \in DOMAIN policies
  BY DEF EnabledNames
<1>4. d.triggered => Thresholds(policies[n], snap)
  BY <1>1 DEF EvaluatePolicy
<1>5. /\ d.triggered => d.pids = {s.pid : s \in Matching(policies[n], snap.procs)}
      /\ ~d.triggered => d.pids = {}
  BY <1>1 DEF EvaluatePolicy
<1>6. QED
  BY <1>1, <1>2, <1>3, <1>4, <1>5

LEMMA TriggeredIsBoolean == \A n : EvaluatePolicy(policies, n, snap).triggered \in BOOLEAN
<1> SUFFICES ASSUME NEW n PROVE EvaluatePolicy(policies, n, snap).triggered \in BOOLEAN
  OBVIOUS
<1> DEFINE holds == /\ Thresholds(policies[n], snap)
                    /\ IsAuthorized(PolicySet(policies), CedarRequest(policies[n], snap))
<1>1. EvaluatePolicy(policies, n, snap).triggered = holds
  BY Zenon DEF EvaluatePolicy
<1>2. holds \in BOOLEAN
  BY Zenon
<1>3. QED
  BY <1>1, <1>2, Zenon

\* A decision is about listed processes only. (engine.go:86-100 and 172-175)
THEOREM DecisionsTyped == Spec => []TypeOK
<1>1. Picked => TypeOK
  <2> SUFFICES ASSUME Picked, NEW d \in Decisions
               PROVE  d \in [policy : EnabledNames(policies), triggered : BOOLEAN,
                             pids : SUBSET ListedPids(raw)]
    BY DEF TypeOK, Picked
  <2>1. d.pids \subseteq ListedPids(raw)
    <3>1. \A s \in Matching(policies[d.policy], snap.procs) : s.pid \in ListedPids(raw)
      BY MatchingDescribes DEF ListedPids
    <3>2. QED
      BY <3>1, DecisionShape
  <2>2. d = EvaluatePolicy(policies, d.policy, snap) /\ d.policy \in EnabledNames(policies)
    BY DecisionShape
  <2>3. d.triggered \in BOOLEAN
    BY <2>2, TriggeredIsBoolean, Zenon
  <2>4. d = [policy |-> d.policy, triggered |-> d.triggered, pids |-> d.pids]
    BY <2>2, Zenon DEF EvaluatePolicy
  <2>5. QED
    BY <2>1, <2>2, <2>3, <2>4
<1>2. QED
  BY <1>1, PickedInit, PickedStep, PTL DEF Spec

\* Cutting a load to hundredths keeps it above a threshold cut the same way.
LEMMA HundredthsMonotone ==
    ASSUME NEW low \in Int, NEW high \in Int, high >= low
    PROVE  Hundredths(high) >= Hundredths(low)
  BY DEF Hundredths

\* Cedar confirms every policy whose thresholds are reached: the permit
\* generated for it is satisfied. (engine.go:123-161, convert.go:46-91)
THEOREM CedarNeverVetoes == Spec => []CedarConfirmsThresholds
<1>1. Picked => CedarConfirmsThresholds
  <2> SUFFICES ASSUME Picked, NEW n \in EnabledNames(policies),
                      Thresholds(policies[n], snap)
               PROVE  Satisfied(GeneratedPermit(policies[n]), CedarRequest(policies[n], snap))
    BY DEF CedarConfirmsThresholds
  <2> DEFINE permit == GeneratedPermit(policies[n])
             request == CedarRequest(policies[n], snap)
  <2>1. /\ policies[n].maxCount \in Int /\ policies[n].minLoad1 \in Int
        /\ policies[n].minLoad5 \in Int
        /\ snap.load1 \in Nat /\ snap.load5 \in Nat
    BY PickedTypes DEF EnabledNames, snap
  <2>2. permit.resource = request.resource
    BY DEF GeneratedPermit, CedarRequest
  <2>3. ASSUME NEW b \in permit.when
        PROVE  request.context[b.attr] >= b.min
    <3>1. CASE b = Bound("process_count", policies[n].maxCount)
      BY <3>1 DEF Bound, CedarRequest, Thresholds
    <3>2. CASE b = Bound("load1", Hundredths(policies[n].minLoad1)) /\ policies[n].minLoad1 > 0
      <4>1. snap.load1 >= policies[n].minLoad1
        BY <3>2 DEF Thresholds, LoadReached
      <4>2. Hundredths(snap.load1) >= Hundredths(policies[n].minLoad1)
        BY <2>1, <4>1, HundredthsMonotone
      <4>3. QED
        BY <3>2, <4>2 DEF Bound, CedarRequest
    <3>3. CASE b = Bound("load5", Hundredths(policies[n].minLoad5)) /\ policies[n].minLoad5 > 0
      <4>1. snap.load5 >= policies[n].minLoad5
        BY <3>3 DEF Thresholds, LoadReached
      <4>2. Hundredths(snap.load5) >= Hundredths(policies[n].minLoad5)
        BY <2>1, <4>1, HundredthsMonotone
      <4>3. QED
        BY <3>3, <4>2 DEF Bound, CedarRequest
    <3>4. QED
      BY <3>1, <3>2, <3>3 DEF GeneratedPermit
  <2>4. QED
    BY <2>2, <2>3 DEF Satisfied
<1>2. QED
  BY <1>1, PickedInit, PickedStep, PTL DEF Spec

\* Behind a triggered decision there are at least max_count targets.
LEMMA TargetsReachCount ==
    ASSUME Picked, NEW d \in Decisions, d.triggered
    PROVE  /\ IsFiniteSet(d.pids)
           /\ Cardinality(d.pids) \in Nat
           /\ Cardinality(d.pids) >= policies[d.policy].maxCount
<1>1. /\ Thresholds(policies[d.policy], snap)
      /\ d.pids = {s.pid : s \in Matching(policies[d.policy], snap.procs)}
  BY DecisionShape
<1>2. QED
  BY <1>1, MatchingCounts DEF Thresholds

\* A target is a listed process with the policy's name and a parent that the
\* policy accepts.
LEMMA TargetsDescribed ==
    ASSUME Picked, NEW d \in Decisions, NEW pid \in d.pids
    PROVE  \E p \in raw :
              /\ p.pid = pid
              /\ p.name = policies[d.policy].process
              /\ \A q \in raw : q.pid = p.ppid => q.name \notin policies[d.policy].exclude
              /\ policies[d.policy].parent # NoName =>
                    \E q \in raw : q.pid = p.ppid /\ q.name = policies[d.policy].parent
<1>1. PICK s \in Matching(policies[d.policy], snap.procs) : s.pid = pid
  BY DecisionShape
<1>2. PICK p \in raw :
         /\ p.pid = pid
         /\ p.name = policies[d.policy].process
         /\ ParentName(raw, p) \notin policies[d.policy].exclude
         /\ policies[d.policy].parent # NoName =>
               ParentName(raw, p) = policies[d.policy].parent
  BY <1>1, MatchingDescribes
<1>3. QED
  BY <1>2, ParentNames

\* Whoever a triggered policy is about to act on is a runaway by the raw list,
\* and there are at least max_count of them.
\* (engine.go:86-131 and 172-175, collector.go:148-166)
THEOREM TargetsRunAway == Spec => []TargetsAreRunaways
<1>1. Picked => TargetsAreRunaways
  BY TargetsReachCount, TargetsDescribed DEF TargetsAreRunaways
<1>2. QED
  BY <1>1, PickedInit, PickedStep, PTL DEF Spec

\* What the validate command accepts has a process to act on and an action that
\* the executor knows whenever it triggers. (config.go:149-204)
THEOREM ValidatedPoliciesAct == Spec => []ValidatedPoliciesCanAct
<1>1. Picked => ValidatedPoliciesCanAct
  <2> SUFFICES ASSUME Picked, Validate(config), NEW d \in Decisions, d.triggered
               PROVE  /\ d.pids # {}
                      /\ policies[d.policy].actions # <<>>
                      /\ \A i \in DOMAIN policies[d.policy].actions :
                            policies[d.policy].actions[i] \in ValidActions
    BY DEF ValidatedPoliciesCanAct
  <2>1. ValidatePolicy(policies[d.policy])
    BY DecisionShape DEF Validate, policies
  <2>2. policies[d.policy].maxCount \in Int /\ policies[d.policy].maxCount > 0
    BY <2>1, DecisionShape, PickedTypes DEF ValidatePolicy
  <2>3. d.pids # {}
    BY <2>2, TargetsReachCount, FS_EmptySet
  <2>4. QED
    BY <2>1, <2>3 DEF ValidatePolicy
<1>2. QED
  BY <1>1, PickedInit, PickedStep, PTL DEF Spec

-----------------------------------------------------------------------------
(* The order of evaluation.                                                *)

\* An order of the enabled policies has each of them, once.
LEMMA OrdersAreComplete ==
    ASSUME Picked, NEW order \in PriorityOrders(policies)
    PROVE  \A n \in EnabledNames(policies) : \E i \in DOMAIN order : order[i] = n
<1> DEFINE on == EnabledNames(policies)
           size == Cardinality(on)
<1>1. IsFiniteSet(on) /\ size \in Nat
  BY PickedTypes, FS_Subset, FS_CardinalityType DEF EnabledNames
<1>2. /\ order \in [1..size -> on]
      /\ \A i, j \in 1..size : i < j => order[i] # order[j]
  BY DEF PriorityOrders
<1>3. order \in Injection(1..size, on)
  <2>1. \A i, j \in 1..size : order[i] = order[j] => i = j
    <3>1. \A i, j \in 1..size : i # j => i < j \/ j < i
      BY <1>1
    <3>2. QED
      BY <1>2, <3>1
  <2>2. QED
    BY <1>2, <2>1 DEF Injection, IsInjective
<1>4. Cardinality(1..size) = size
  BY <1>1, FS_Interval
<1>5. order \in Surjection(1..size, on)
  BY <1>1, <1>3, <1>4, FS_Injection
<1>6. QED
  BY <1>2, <1>5 DEF Surjection

\* Of the policies that are left one has no other before it.
LEMMA SomePolicyIsFirst ==
    ASSUME Picked, NEW left \in SUBSET EnabledNames(policies), left # {}
    PROVE  \E n \in left : \A m \in left : policies[n].priority >= policies[m].priority
<1> DEFINE before(n) == {m \in left : policies[m].priority > policies[n].priority}
           befores == {before(n) : n \in left}
<1>1. IsFiniteSet(left) /\ \A n \in left : policies[n].priority \in Int
  BY PickedTypes, FS_Subset DEF EnabledNames
<1>2. befores # {} /\ \A b \in befores : b \subseteq left
  <2>1. PICK n \in left : TRUE
    OBVIOUS
  <2>2. before(n) \in befores
    OBVIOUS
  <2>3. \A b \in befores : b \subseteq left
    OBVIOUS
  <2> HIDE DEF befores
  <2>4. QED
    BY <2>2, <2>3
<1>3. PICK b \in befores : \A c \in befores : c \subseteq b => c = b
  <2> HIDE DEF befores
  <2>1. QED
    BY <1>1, <1>2, SomeSetIsMinimal
<1>4. PICK n \in left : b = before(n)
  OBVIOUS
<1>5. ASSUME NEW m \in left, policies[m].priority > policies[n].priority
      PROVE  FALSE
  <2>1. m \in before(n) /\ m \notin before(m)
    BY <1>1, <1>5
  <2>2. before(m) \subseteq before(n)
    BY <1>1, <1>5
  <2>3. before(m) \in befores
    OBVIOUS
  <2> HIDE DEF before, befores
  <2>4. QED
    BY <1>3, <1>4, <2>1, <2>2, <2>3
<1>6. QED
  BY <1>1, <1>5

\* The sort has an outcome: the most important policies that are in order
\* already can be followed by the first of the others, until none is left.
LEMMA SomeOrderExists ==
    ASSUME Picked
    PROVE  PriorityOrders(policies) # {}
<1> DEFINE on == EnabledNames(policies)
           descending(S, order) ==
              /\ order \in [1..Cardinality(S) -> S]
              /\ \A i, j \in 1..Cardinality(S) :
                    i < j => /\ order[i] # order[j]
                             /\ policies[order[i]].priority >= policies[order[j]].priority
           sorted == {S \in SUBSET on :
                        /\ \A n \in S, m \in on \ S : policies[n].priority >= policies[m].priority
                        /\ \E order : descending(S, order)}
<1>1. IsFiniteSet(on) /\ \A n \in on : policies[n].priority \in Int
  BY PickedTypes, FS_Subset DEF EnabledNames
<1>2. {} \in sorted
  <2>1. Cardinality({}) = 0
    BY FS_EmptySet
  <2>2. descending({}, [i \in 1..0 |-> i])
    BY <2>1
  <2>3. QED
    BY <2>2
<1>3. PICK S \in sorted : \A T \in sorted : S \subseteq T => T = S
  <2>1. sorted \subseteq SUBSET on /\ sorted # {}
    BY <1>2
  <2> HIDE DEF sorted, on
  <2>2. QED
    BY <1>1, <2>1, SomeSetIsMaximal
<1>4. PICK order : descending(S, order)
  BY <1>3
<1>5. ASSUME S # on
      PROVE  FALSE
  <2>1. PICK n \in on \ S : \A m \in on \ S : policies[n].priority >= policies[m].priority
    BY <1>3, <1>5, SomePolicyIsFirst
  <2> DEFINE T == S \cup {n}
             k == Cardinality(S)
             longer == [i \in 1..k + 1 |-> IF i = k + 1 THEN n ELSE order[i]]
  <2>2. k \in Nat /\ Cardinality(T) = k + 1
    BY <1>1, <1>3, <2>1, FS_Subset, FS_CardinalityType, FS_AddElement
  <2>3. /\ order \in [1..k -> S] /\ S \subseteq on
        /\ \A m \in S : policies[m].priority >= policies[n].priority
    BY <1>3, <1>4, <2>1
  <2>4. longer \in [1..k + 1 -> T]
    BY <2>2, <2>3
  <2>5. ASSUME NEW i \in 1..k + 1, NEW j \in 1..k + 1, i < j
        PROVE  /\ longer[i] # longer[j]
               /\ policies[longer[i]].priority >= policies[longer[j]].priority
    <3>1. i \in 1..k /\ longer[i] = order[i] /\ order[i] \in S
      BY <2>2, <2>3, <2>5
    <3>2. CASE j = k + 1
      BY <2>1, <2>3, <3>1, <3>2
    <3>3. CASE j # k + 1
      <4>1. j \in 1..k /\ longer[j] = order[j]
        BY <2>2, <3>3
      <4>2. QED
        BY <1>4, <2>5, <3>1, <4>1
    <3>4. QED
      BY <3>2, <3>3
  <2>6. descending(T, longer)
    <3> HIDE DEF longer, T, k
    <3>1. QED
      BY <2>2, <2>4, <2>5
  <2>7. \A m \in T, l \in on \ T : policies[m].priority >= policies[l].priority
    BY <1>3, <2>1
  <2>8. T \in sorted
    <3>1. T \in SUBSET on
      BY <2>1, <2>3
    <3> HIDE DEF T, descending, longer
    <3>2. QED
      BY <2>6, <2>7, <3>1
  <2>9. S \subseteq T /\ n \in T /\ n \notin S
    BY <2>1
  <2> HIDE DEF T, sorted
  <2>10. QED
    BY <1>3, <2>8, <2>9
<1>6. order \in PriorityOrders(policies)
  BY <1>4, <1>5 DEF PriorityOrders
<1>7. QED
  BY <1>6

\* An evaluation has an outcome, and every outcome has a decision of every
\* enabled policy, the more important one first. (engine.go:47-72)
THEOREM EvaluationIsOrdered == Spec => []EvaluationOrder
<1>1. Picked => EvaluationOrder
  <2> SUFFICES ASSUME Picked, NEW list \in Evaluations(policies, snap)
               PROVE  /\ {list[i] : i \in DOMAIN list} = Decisions
                      /\ \A i, j \in DOMAIN list :
                            policies[list[i].policy].priority > policies[list[j].policy].priority
                               => i < j
    <3>1. ASSUME Picked
          PROVE  Evaluations(policies, snap) # {}
      <4>1. PICK order \in PriorityOrders(policies) : TRUE
        BY <3>1, SomeOrderExists
      <4>2. [i \in DOMAIN order |-> EvaluatePolicy(policies, order[i], snap)]
               \in Evaluations(policies, snap)
        BY <4>1, Zenon DEF Evaluations
      <4>3. QED
        BY <4>2
    <3>2. QED
      BY <3>1 DEF EvaluationOrder
  <2>1. PICK order \in PriorityOrders(policies) :
           list = [i \in DOMAIN order |-> EvaluatePolicy(policies, order[i], snap)]
    BY DEF Evaluations
  <2> DEFINE size == Cardinality(EnabledNames(policies))
  <2>2. /\ order \in [1..size -> EnabledNames(policies)]
        /\ \A i, j \in 1..size :
              i < j => policies[order[i]].priority >= policies[order[j]].priority
    BY DEF PriorityOrders
  <2>3. size \in Nat
    BY PickedTypes, FS_Subset, FS_CardinalityType DEF EnabledNames
  <2>4. {list[i] : i \in DOMAIN list} = Decisions
    <3>1. \A i \in DOMAIN list : list[i] \in Decisions
      BY <2>1, <2>2 DEF Decisions
    <3>2. \A d \in Decisions : \E i \in DOMAIN list : list[i] = d
      BY <2>1, OrdersAreComplete DEF Decisions
    <3>3. QED
      BY <3>1, <3>2
  <2>5. ASSUME NEW i \in DOMAIN list, NEW j \in DOMAIN list,
               policies[list[i].policy].priority > policies[list[j].policy].priority
        PROVE  i < j
    <3>1. i \in 1..size /\ j \in 1..size
      BY <2>1, <2>2
    <3>2. list[i].policy = order[i] /\ list[j].policy = order[j]
      BY <2>1 DEF EvaluatePolicy
    <3>3. policies[order[i]].priority \in Int /\ policies[order[j]].priority \in Int
      BY <2>2, <3>1, PickedTypes DEF EnabledNames
    <3>4. QED
      BY <2>2, <2>3, <2>5, <3>1, <3>2, <3>3
  <2>6. QED
    BY <2>4, <2>5
<1>2. QED
  BY <1>1, PickedInit, PickedStep, PTL DEF Spec

-----------------------------------------------------------------------------
(* The summary of a diagnostic capture.                                    *)

\* A target that counts under a name has a parent of that name, and only one.
LEMMA ChildrenOfTargets ==
    ASSUME Picked, NEW d \in Decisions
    PROVE  /\ d.pids \subseteq ListedPids(raw)
           /\ \A name : \A pid \in Children(raw, d.pids, name) :
                 /\ name \notin policies[d.policy].exclude
                 /\ policies[d.policy].parent # NoName => name = policies[d.policy].parent
           /\ policies[d.policy].parent # NoName =>
                 d.pids \subseteq Children(raw, d.pids, policies[d.policy].parent)
<1>1. ASSUME NEW pid \in d.pids
      PROVE  \E p \in raw :
                /\ p.pid = pid
                /\ p = ProcessByPID(raw, pid)
                /\ \A q \in raw : q.pid = p.ppid => q.name \notin policies[d.policy].exclude
                /\ policies[d.policy].parent # NoName =>
                      \E q \in raw : q.pid = p.ppid /\ q.name = policies[d.policy].parent
  <2>1. PICK p \in raw :
           /\ p.pid = pid
           /\ \A q \in raw : q.pid = p.ppid => q.name \notin policies[d.policy].exclude
           /\ policies[d.policy].parent # NoName =>
                 \E q \in raw : q.pid = p.ppid /\ q.name = policies[d.policy].parent
    BY <1>1, TargetsDescribed
  <2>2. p = ProcessByPID(raw, pid)
    BY <2>1, PickedTypes DEF ProcessByPID
  <2>3. QED
    BY <2>1, <2>2
<1>2. d.pids \subseteq ListedPids(raw)
  BY <1>1 DEF ListedPids
<1>3. ASSUME NEW name, NEW pid \in Children(raw, d.pids, name)
      PROVE  /\ name \notin policies[d.policy].exclude
             /\ policies[d.policy].parent # NoName => name = policies[d.policy].parent
  <2>1. pid \in d.pids
    BY <1>3 DEF Children
  <2>2. PICK q \in raw : q.pid = ProcessByPID(raw, pid).ppid /\ q.name = name
    BY <1>3 DEF Children
  <2>3. QED
    BY <1>1, <2>1, <2>2, PickedTypes
<1>4. ASSUME policies[d.policy].parent # NoName, NEW pid \in d.pids
      PROVE  pid \in Children(raw, d.pids, policies[d.policy].parent)
  BY <1>1, <1>2, <1>4 DEF Children
<1>5. QED
  BY <1>2, <1>3, <1>4

\* The summary counts the targets under the parents the engine chose them by.
\* (diagnostics.go:153-171, engine.go:86-121, collector.go:148-166)
THEOREM SummariesAgree == Spec => []SummaryAgreesWithPolicy
<1>1. Picked => SummaryAgreesWithPolicy
  <2> SUFFICES ASSUME Picked, NEW d \in Decisions, d.triggered
               PROVE  /\ DOMAIN ParentSummary(raw, d.pids) \cap policies[d.policy].exclude = {}
                      /\ \A name \in DOMAIN ParentSummary(raw, d.pids) :
                            ParentSummary(raw, d.pids)[name] \in 1..Cardinality(d.pids)
                      /\ policies[d.policy].parent # NoName /\ d.pids # {} =>
                            ParentSummary(raw, d.pids) =
                               [name \in {policies[d.policy].parent} |-> Cardinality(d.pids)]
    BY DEF SummaryAgreesWithPolicy
  <2> DEFINE C(name) == Children(raw, d.pids, name)
             names == {n \in {q.name : q \in raw} : C(n) # {}}
  <2>1. ParentSummary(raw, d.pids) = [name \in names |-> Cardinality(C(name))]
    BY DEF ParentSummary
  <2>2. IsFiniteSet(d.pids) /\ Cardinality(d.pids) \in Nat
    BY TargetsReachCount
  <2>3. \A name \in names : name \notin policies[d.policy].exclude
    BY ChildrenOfTargets
  <2>4. ASSUME NEW name \in names
        PROVE  Cardinality(C(name)) \in 1..Cardinality(d.pids)
    <3>1. C(name) \in SUBSET d.pids /\ C(name) # {}
      BY <2>4 DEF Children
    <3>2. IsFiniteSet(C(name)) /\ Cardinality(C(name)) <= Cardinality(d.pids)
      BY <2>2, <3>1, FS_Subset
    <3>3. Cardinality(C(name)) \in Nat /\ Cardinality(C(name)) # 0
      BY <3>1, <3>2, FS_CardinalityType, FS_EmptySet
    <3>4. QED
      BY <2>2, <3>2, <3>3
  <2>5. ASSUME policies[d.policy].parent # NoName, d.pids # {}
        PROVE  /\ names = {policies[d.policy].parent}
               /\ C(policies[d.policy].parent) = d.pids
    <3>1. C(policies[d.policy].parent) = d.pids
      BY <2>5, ChildrenOfTargets DEF Children
    <3>2. policies[d.policy].parent \in {q.name : q \in raw}
      BY <2>5, <3>1 DEF Children
    <3>3. \A name \in names : name = policies[d.policy].parent
      BY <2>5, ChildrenOfTargets
    <3>4. QED
      BY <2>5, <3>1, <3>2, <3>3
  <2>6. QED
    BY <2>1, <2>3, <2>4, <2>5
<1>2. QED
  BY <1>1, PickedInit, PickedStep, PTL DEF Spec

-----------------------------------------------------------------------------
(* The chains of the targets.                                              *)

\* The chain of a target leads to it parent by parent, has no process twice and
\* ends where no ancestor is left to add. (diagnostics.go:180-202)
THEOREM ChainsLeadToEveryTarget == Spec => []ChainsLeadToTargets
<1>1. Picked => ChainsLeadToTargets
  <2> SUFFICES ASSUME Picked, NEW d \in Decisions, NEW pid \in d.pids
               PROVE  LET chain == ParentChain(raw, pid)
                      IN  /\ chain # <<>>
                          /\ chain[Len(chain)].pid = pid
                          /\ \A i \in DOMAIN chain : chain[i] \in raw
                          /\ \A i \in 1..Len(chain) - 1 : chain[i].pid = chain[i + 1].ppid
                          /\ \A i, j \in DOMAIN chain : chain[i].pid = chain[j].pid => i = j
                          /\ chain[1].ppid \notin
                                ListedPids(raw) \ {chain[i].pid : i \in DOMAIN chain}
    BY DEF ChainsLeadToTargets
  <2> DEFINE chain == ParentChain(raw, pid)
  <2>1. pid \in ListedPids(raw)
    BY ChildrenOfTargets
  <2>2. LeadsTo(raw, {}, pid, chain)
    BY <2>1, PickedTypes, ParentChainLeads
  <2> HIDE DEF chain
  <2>3. chain \in Seq(raw) /\ DOMAIN chain = 1..Len(chain)
    BY <2>2 DEF LeadsTo
  <2>4. \A i \in DOMAIN chain : chain[i] \in raw
    BY <2>3
  <2>5. chain[1].ppid \in ListedPids(raw) =>
           \E i \in DOMAIN chain : chain[i].pid = chain[1].ppid
    BY <2>2, <2>3 DEF LeadsTo
  <2>6. /\ chain # <<>>
        /\ chain[Len(chain)].pid = pid
        /\ \A i \in 1..Len(chain) - 1 : chain[i].pid = chain[i + 1].ppid
        /\ \A i, j \in DOMAIN chain : chain[i].pid = chain[j].pid => i = j
    BY <2>2, <2>3 DEF LeadsTo
  <2>7. chain[1].ppid \notin ListedPids(raw) \ {chain[i].pid : i \in DOMAIN chain}
    BY <2>5
  <2>8. QED
    BY <2>4, <2>6, <2>7 DEF chain
<1>2. QED
  BY <1>1, PickedInit, PickedStep, PTL DEF Spec
=============================================================================
