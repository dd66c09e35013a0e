----------------------- MODULE TrafficSimulatorProofs -----------------------
(***************************************************************************)
(* For any number of users, transfers and threads: what the counters of the *)
(* simulator say of the postings at the server, and that its verdict is      *)
(* right when nothing failed.  SimInv is the bookkeeping of calls and phases *)
(* both rest on.                                                           *)
(***************************************************************************)
EXTENDS TrafficSimulator, FiniteSetTheorems, TLAPS

CallStates == Answers \cup {"none", "sent", "missed", "executing"}

\* A user who is ready was chosen; nobody pays himself.
JobOf(j) ==
  /\ j.from \in users /\ j.to \in users /\ j.from # j.to
  /\ j.amount \in Amounts

\* The primary is sent when the transfer begins, and the duplicate when the
\* primary has returned.
Calls ==
  \A i \in Transfers :
    /\ step[i] = "queued" <=> served[i]["primary"] = "none"
    /\ served[i]["duplicate"] # "none" => step[i] \in {"duplicate", "over"}
    /\ step[i] = "duplicate" => served[i]["duplicate"] # "none"
    /\ step[i] # "queued" => JobOf(job[i])

Phases ==
  /\ phase \in {"waiting", "provision", "exit"} =>
       \A i \in Transfers : step[i] = "queued"
  /\ phase \notin {"waiting", "provision"} => Provisioning = {}
  /\ phase \in {"reconcile", "done"} => \A i \in Transfers : step[i] = "over"
  /\ phase \notin {"reconcile", "done"} => fetched = {} /\ total = 0
  /\ phase = "done" => fetched = users

\* A transfer is posted by one of its calls, which was told so or got an error;
\* a HIT tells of a posting; and the lock of a key is held, or was left behind,
\* by a call of its transfer.
Postings ==
  \A i \in Transfers :
    /\ i \in posted => \E a \in Attempts : served[i][a] \in {"created", "error"}
    /\ \A a \in Attempts : served[i][a] = "created" => i \in posted
    /\ ~ \A a \in Attempts : served[i][a] = "created"
    /\ \A a \in Attempts : served[i][a] = "hit" => i \in posted
    /\ i \in locks => \E a \in Attempts : served[i][a] \in {"executing", "error"}

JobTable == job = [i \in Transfers |-> job[i]]

SimInv ==
  /\ TypeOK /\ Calls /\ Phases /\ Postings
  /\ JobTable
  /\ locks \subseteq Transfers

LEMMA Sizes ==
  /\ TOTAL_TRANSFERS \in Nat \ {0} /\ NUM_THREADS \in Nat \ {0}
  /\ Funding \in Nat \ {0} /\ Amounts \subseteq Nat \ {0}
  /\ IsFiniteSet(Users) /\ Cardinality(Users) \in Nat
  /\ IsFiniteSet(Transfers)
  /\ IsFiniteSet(Attempts) /\ IsFiniteSet(Transfers \X Attempts)
<1>1. /\ TOTAL_TRANSFERS \in Nat \ {0} /\ NUM_THREADS \in Nat \ {0}
      /\ Funding \in Nat \ {0} /\ Amounts \subseteq Nat \ {0}
      /\ IsFiniteSet(Users)
  BY SimulatorAssumption
<1>2. IsFiniteSet(Transfers)
  BY <1>1, FS_Interval DEF Transfers
<1>3. IsFiniteSet(Attempts)
  <2>1. IsFiniteSet({"primary"}) /\ Attempts = {"primary"} \cup {"duplicate"}
    BY FS_Singleton DEF Attempts
  <2>2. QED
    BY <2>1, FS_AddElement
<1>4. QED
  BY <1>1, <1>2, <1>3, FS_Product, FS_CardinalityType

LEMMA InitSim == Init => SimInv
<1> SUFFICES ASSUME Init PROVE SimInv
  OBVIOUS
<1> USE DEF Init
<1>1. TypeOK
  <2>1. Running = {}
    BY DEF Running, Attempts
  <2>2. Cardinality(Running) <= NUM_THREADS
    BY <2>1, Sizes, FS_EmptySet
  <2>3. QED
    BY <2>2 DEF TypeOK, Attempts
<1>2. Calls /\ Phases /\ Postings
  BY DEF Calls, Phases, Postings, Attempts, Answers
<1>3. JobTable
  BY DEF JobTable
<1>4. QED
  BY <1>1, <1>2, <1>3 DEF SimInv

\* One entry of the table of calls at the server.
LEMMA ServedNext ==
  ASSUME NEW i \in Transfers, NEW a \in Attempts, NEW next,
         served \in [Transfers -> [Attempts -> CallStates]],
         served' = [served EXCEPT ![i][a] = next]
  PROVE  /\ \A j \in Transfers : \A b \in Attempts :
              served'[j][b] = IF j = i /\ b = a THEN next ELSE served[j][b]
         /\ next \in CallStates =>
              served' \in [Transfers -> [Attempts -> CallStates]]
BY DEF CallStates, Answers

-----------------------------------------------------------------------------
(* Provisioning and the phases of the script.                               *)

LEMMA ProvisionSim ==
  ASSUME SimInv, NEW u \in Users, prov[u] \notin {"ready", "failed"},
         NEW next \in {"registered", "funded", "ready", "failed"},
         Provision(u, next), balance' \in [Users -> Nat]
  PROVE  SimInv'
<1> USE DEF Provision
<1>1. phase = "provision" /\ \A i \in Transfers : step[i] = "queued"
  BY DEF SimInv, Phases, Provisioning
<1>2. fetched = {} /\ failures = {}
  BY <1>1 DEF SimInv, Phases, TypeOK
<1>3. TypeOK'
  <2>1. prov' \in [Users -> {"new", "registered", "funded", "ready", "failed"}]
    BY DEF SimInv, TypeOK
  <2>2. Running' = Running
    BY DEF Running
  <2>3. fetched' \subseteq users' /\ failures' \subseteq fetched'
    BY <1>2
  <2>4. QED
    BY <1>1, <2>1, <2>2, <2>3 DEF SimInv, TypeOK
<1>4. Calls' /\ Phases' /\ Postings'
  BY <1>1, <1>2 DEF SimInv, Calls, Phases, Postings
<1>5. JobTable'
  BY DEF SimInv, JobTable
<1>6. QED
  BY <1>3, <1>4, <1>5 DEF SimInv

LEMMA PhaseSim ==
  ASSUME SimInv, UNCHANGED <<prov, step, job, stats, requests, fetched,
                             failures, total, server>>,
         \/ phase = "waiting" /\ phase' = "provision"
         \/ phase = "provision" /\ Provisioning = {}
            /\ phase' = IF Cardinality(users) < 2 THEN "exit" ELSE "transfer"
         \/ phase = "transfer" /\ phase' = "reconcile"
            /\ \A i \in Transfers : step[i] = "over"
         \/ phase = "reconcile" /\ phase' = "done" /\ fetched = users
  PROVE  SimInv'
<1>1. users' = users /\ Provisioning' = Provisioning /\ Running' = Running
  BY DEF users, Provisioning, Running
<1>2. users \subseteq Users /\ Cardinality(users) \in Nat
  BY Sizes, FS_Subset, FS_CardinalityType DEF users
<1>3. TypeOK'
  BY <1>1, <1>2 DEF SimInv, TypeOK, server
<1>4. Calls' /\ Postings'
  BY <1>1 DEF SimInv, Calls, Postings, JobOf, server
<1>5. Phases'
  BY <1>1 DEF SimInv, Phases
<1>6. JobTable'
  BY DEF SimInv, JobTable
<1>7. QED
  BY <1>3, <1>4, <1>5, <1>6 DEF SimInv, server

LEMMA FetchSim ==
  ASSUME SimInv, NEW u \in Users, Fetch(u)
  PROVE  SimInv'
<1> USE DEF Fetch
<1>1. users' = users /\ Provisioning' = Provisioning /\ Running' = Running
  BY DEF users, Provisioning, Running
<1>2. TypeOK'
  BY <1>1 DEF SimInv, TypeOK, server
<1>3. Calls' /\ Postings'
  BY <1>1 DEF SimInv, Calls, Postings, JobOf, server
<1>4. Phases'
  BY <1>1 DEF SimInv, Phases
<1>5. JobTable'
  BY DEF SimInv, JobTable
<1>6. QED
  BY <1>2, <1>3, <1>4, <1>5 DEF SimInv, server

-----------------------------------------------------------------------------
(* Calls of the pool.                                                       *)

LEMMA SendSim ==
  ASSUME SimInv, NEW i \in Transfers, NEW a \in Attempts, Send(i, a),
         phase = "transfer",
         \/ /\ a = "primary" /\ step[i] = "queued"
            /\ Cardinality(Running) < NUM_THREADS
         \/ a = "duplicate" /\ step[i] = "pause",
         NEW j, JobOf(j), job' = [job EXCEPT ![i] = j]
  PROVE  SimInv'
<1> USE DEF Send
<1>1. /\ served \in [Transfers -> [Attempts -> CallStates]]
      /\ step \in [Transfers -> Attempts \cup {"queued", "pause", "over"}]
      /\ job = [k \in Transfers |-> job[k]]
  BY DEF SimInv, TypeOK, CallStates, JobTable
<1>2. served[i][a] = "none"
  BY DEF SimInv, Calls
<1>3. /\ \A k \in Transfers : step'[k] = IF k = i THEN a ELSE step[k]
      /\ \A k \in Transfers : job'[k] = IF k = i THEN j ELSE job[k]
      /\ step' \in [Transfers -> Attempts \cup {"queued", "pause", "over"}]
      /\ job' = [k \in Transfers |-> job'[k]]
  BY <1>1
<1>4. /\ \A k \in Transfers : \A b \in Attempts :
           served'[k][b] = IF k = i /\ b = a THEN "sent" ELSE served[k][b]
      /\ served' \in [Transfers -> [Attempts -> CallStates]]
  <2>1. "sent" \in CallStates
    BY DEF CallStates
  <2>2. QED
    BY <1>1, <2>1, ServedNext
<1>5. users' = users /\ UNCHANGED <<phase, prov, fetched, failures, total,
                                    balance, locks, posted, stats>>
  BY DEF users
<1>6. Cardinality(Running') <= NUM_THREADS
  <2>1. Running \subseteq Transfers
    BY DEF Running
  <2>2. IsFiniteSet(Running) /\ Cardinality(Running) \in Nat
    BY <2>1, Sizes, FS_Subset, FS_CardinalityType
  <2>3. CASE a = "duplicate"
    <3>1. Running' = Running
      BY <1>3, <2>3 DEF Running, Attempts
    <3>2. QED
      BY <3>1 DEF SimInv, TypeOK
  <2>4. CASE a = "primary"
    <3>1. Running' = Running \cup {i}
      BY <1>3, <2>4 DEF Running, Attempts
    <3>2. Cardinality(Running') <= Cardinality(Running) + 1
      <4>1. \/ Cardinality(Running \cup {i}) = Cardinality(Running)
            \/ Cardinality(Running \cup {i}) = Cardinality(Running) + 1
        BY <2>2, FS_AddElement
      <4>2. QED
        BY <2>2, <3>1, <4>1
    <3>3. Cardinality(Running) + 1 <= NUM_THREADS
      BY <2>2, <2>4, Sizes
    <3>4. IsFiniteSet(Running')
      BY <2>2, <3>1, FS_AddElement
    <3>5. Cardinality(Running') \in Nat
      BY <3>4, FS_CardinalityType
    <3>6. QED
      BY <2>2, <3>2, <3>3, <3>5, Sizes
  <2>5. QED
    BY <2>3, <2>4
<1>7. j # NoJob
  BY Sizes DEF JobOf, NoJob
<1>8. TypeOK'
  <2>1. \A k \in locks' : \E b \in Attempts : served'[k][b] # "none"
    BY <1>2, <1>4, <1>5 DEF SimInv, TypeOK
  <2>2. posted' \subseteq {k \in Transfers : job'[k] # NoJob}
    BY <1>3, <1>5, <1>7 DEF SimInv, TypeOK
  <2>3. requests' \in Nat
    BY DEF SimInv, TypeOK
  <2>4. QED
    BY <1>3, <1>4, <1>5, <1>6, <2>1, <2>2, <2>3 DEF SimInv, TypeOK, CallStates
<1>9. Calls'
  <2>1. \A k \in Transfers : step[k] # "queued" => JobOf(job[k])
    BY DEF SimInv, Calls
  <2>2. \A k \in Transfers : step'[k] # "queued" => JobOf(job'[k])
    BY <1>3, <2>1
  <2>3. \A k \in Transfers : step'[k] # "queued" => JobOf(job[k])'
    BY <1>5, <2>2 DEF JobOf
  <2>4. ASSUME NEW k \in Transfers
        PROVE  /\ step'[k] = "queued" <=> served'[k]["primary"] = "none"
               /\ served'[k]["duplicate"] # "none" =>
                    step'[k] \in {"duplicate", "over"}
               /\ step'[k] = "duplicate" => served'[k]["duplicate"] # "none"
    BY <1>2, <1>3, <1>4 DEF SimInv, Calls, Attempts
  <2>5. QED
    BY <2>3, <2>4 DEF Calls
<1>10. Phases'
  BY <1>5 DEF SimInv, Phases, Provisioning
<1>11. Postings'
  BY <1>2, <1>4, <1>5 DEF SimInv, Postings
<1>12. QED
  BY <1>3, <1>5, <1>8, <1>9, <1>10, <1>11 DEF SimInv, JobTable

LEMMA ReturnSim ==
  ASSUME SimInv, NEW i \in Waiting, Return(i),
         NEW c \in Counters, stats' = [stats EXCEPT ![c] = @ + 1]
  PROVE  SimInv'
<1> USE DEF Return, server
<1>1. /\ i \in Transfers /\ step[i] \in Attempts
      /\ step \in [Transfers -> Attempts \cup {"queued", "pause", "over"}]
  BY DEF SimInv, TypeOK, Waiting
<1>2. /\ \A k \in Transfers : k # i => step'[k] = step[k]
      /\ \/ step'[i] = "over"
         \/ step[i] = "primary" /\ step'[i] = "pause"
      /\ step' \in [Transfers -> Attempts \cup {"queued", "pause", "over"}]
  <2>1. PICK next \in {"over", "pause"} :
          /\ step' = [step EXCEPT ![i] = next]
          /\ next = "pause" => step[i] = "primary"
    OBVIOUS
  <2>2. step'[i] = next /\ \A k \in Transfers : k # i => step'[k] = step[k]
    BY ONLY <1>1, <2>1
  <2>3. step' \in [Transfers -> Attempts \cup {"queued", "pause", "over"}]
    BY ONLY <1>1, <2>1
  <2>4. QED
    BY <2>1, <2>2, <2>3
<1>3. users' = users /\ phase' = phase /\ Provisioning' = Provisioning
  BY DEF users, Provisioning
<1>4. Cardinality(Running') <= NUM_THREADS
  <2>1. Running' \subseteq Running /\ Running \subseteq Transfers
    BY <1>1, <1>2 DEF Running
  <2>2. /\ IsFiniteSet(Running) /\ Cardinality(Running) \in Nat
        /\ Cardinality(Running') <= Cardinality(Running)
        /\ Cardinality(Running') \in Nat
    BY <2>1, Sizes, FS_Subset, FS_CardinalityType
  <2>3. QED
    BY <2>2, Sizes DEF SimInv, TypeOK
<1>5. stats' \in [Counters -> Nat]
  BY DEF SimInv, TypeOK
<1>6. TypeOK'
  BY <1>2, <1>3, <1>4, <1>5 DEF SimInv, TypeOK
<1>7. Calls'
  <2>1. \A k \in Transfers : step'[k] # "queued" => JobOf(job[k])'
    BY <1>1, <1>2, <1>3 DEF SimInv, Calls, JobOf, Attempts
  <2>2. ASSUME NEW k \in Transfers
        PROVE  /\ step'[k] = "queued" <=> served[k]["primary"] = "none"
               /\ served[k]["duplicate"] # "none" =>
                    step'[k] \in {"duplicate", "over"}
               /\ step'[k] = "duplicate" => served[k]["duplicate"] # "none"
    <3>1. CASE k # i
      BY <1>2, <3>1 DEF SimInv, Calls
    <3>2. CASE k = i
      BY <1>1, <1>2, <3>2 DEF SimInv, Calls, Attempts
    <3>3. QED
      BY <3>1, <3>2
  <2>3. QED
    BY <2>1, <2>2 DEF Calls
<1>8. phase = "transfer"
  BY <1>1 DEF SimInv, Phases, TypeOK, Attempts
<1>9. Phases' /\ Postings'
  BY <1>3, <1>8 DEF SimInv, Phases, Postings
<1>10. JobTable'
  BY DEF SimInv, JobTable
<1>11. QED
  BY <1>6, <1>7, <1>9, <1>10 DEF SimInv

-----------------------------------------------------------------------------
(* The server.                                                             *)

\* How the server moves one call: on, and never to an answer of a posting it
\* did not make.
ServerMove(i, a, next) ==
  /\ Serve(i, a, next)
  /\ served[i][a] \in {"sent", "missed", "executing"}
  /\ next \in CallStates \ {"none", "sent"}
  /\ \/ posted' = posted /\ next # "created"
     \/ posted' = posted \cup {i} /\ i \notin posted /\ next \in {"created", "error"}
  /\ next = "hit" => i \in posted
  /\ locks' \subseteq locks \cup {i}
  /\ i \in locks' =>
       next \in {"executing", "error"} \/ (i \in locks /\ served[i][a] # "executing")
  /\ balance' \in [Users -> Nat]

LEMMA MoveSim ==
  ASSUME SimInv, NEW i \in Transfers, NEW a \in Attempts, NEW next,
         ServerMove(i, a, next)
  PROVE  SimInv'
<1> USE DEF ServerMove, Serve, script
<1>1. served \in [Transfers -> [Attempts -> CallStates]]
  BY DEF SimInv, TypeOK, CallStates
<1>2. /\ \A k \in Transfers : \A b \in Attempts :
           served'[k][b] = IF k = i /\ b = a THEN next ELSE served[k][b]
      /\ served' \in [Transfers -> [Attempts -> CallStates]]
  BY <1>1, ServedNext
<1>3. users' = users /\ Provisioning' = Provisioning /\ Running' = Running
  BY DEF users, Provisioning, Running
<1>4. \A k \in Transfers : \A b \in Attempts :
        served'[k][b] = "none" <=> served[k][b] = "none"
  BY <1>2
<1>5. step[i] # "queued" /\ JobOf(job[i])
  <2>1. step[i] # "queued"
    BY DEF SimInv, Calls, Attempts
  <2>2. QED
    BY <2>1 DEF SimInv, Calls
<1>6. TypeOK'
  <2>1. \A k \in locks' : \E b \in Attempts : served'[k][b] # "none"
    BY <1>2, <1>4 DEF SimInv, TypeOK
  <2>2. job[i] # NoJob
    BY <1>5, Sizes DEF JobOf, NoJob
  <2>3. posted' \subseteq {k \in Transfers : job'[k] # NoJob}
    BY <2>2 DEF SimInv, TypeOK
  <2>4. QED
    BY <1>2, <1>3, <2>1, <2>3 DEF SimInv, TypeOK, CallStates
<1>7. Calls'
  BY <1>3, <1>4 DEF SimInv, Calls, JobOf, Attempts
<1>8. Phases'
  BY <1>3 DEF SimInv, Phases
<1>9. Postings'
  <2>1. ASSUME NEW k \in Transfers, k # i
        PROVE  /\ \A b \in Attempts : served'[k][b] = served[k][b]
               /\ k \in posted' <=> k \in posted
               /\ k \in locks' => k \in locks
    BY <1>2, <2>1
  <2>2. /\ i \in posted' => \E b \in Attempts : served'[i][b] \in {"created", "error"}
        /\ \A b \in Attempts : served'[i][b] = "created" => i \in posted'
        /\ ~ \A b \in Attempts : served'[i][b] = "created"
        /\ \A b \in Attempts : served'[i][b] = "hit" => i \in posted'
    <3>1. /\ i \in posted => \E b \in Attempts : served[i][b] \in {"created", "error"}
          /\ \A b \in Attempts : served[i][b] = "created" => i \in posted
          /\ \A b \in Attempts : served[i][b] = "hit" => i \in posted
          /\ ~ \A b \in Attempts : served[i][b] = "created"
      BY DEF SimInv, Postings
    <3>2. CASE i \notin posted
      <4>1. \E b \in Attempts : b # a
        BY DEF Attempts
      <4>2. QED
        BY <1>2, <3>1, <3>2, <4>1
    <3>3. CASE i \in posted
      <4>1. posted' = posted /\ next # "created"
        BY <3>3
      <4>2. QED
        BY <1>2, <3>1, <3>3, <4>1
    <3>4. QED
      BY <3>2, <3>3
  <2>3. ASSUME i \in locks'
        PROVE  \E b \in Attempts : served'[i][b] \in {"executing", "error"}
    <3>1. CASE next \in {"executing", "error"}
      BY <1>2, <3>1
    <3>2. CASE i \in locks /\ served[i][a] # "executing"
      <4>1. PICK b \in Attempts : served[i][b] \in {"executing", "error"}
        BY <3>2 DEF SimInv, Postings
      <4>2. b # a
        BY <3>2, <4>1
      <4>3. QED
        BY <1>2, <4>1, <4>2
    <3>3. QED
      BY <2>3, <3>1, <3>2
  <2>4. QED
    BY <2>1, <2>2, <2>3 DEF SimInv, Postings
<1>10. JobTable'
  BY DEF SimInv, JobTable
<1>11. QED
  BY <1>6, <1>7, <1>8, <1>9, <1>10 DEF SimInv

LEMMA ServerMoves ==
  ASSUME SimInv, NEW i \in Transfers, NEW a \in Attempts,
         Lookup(i, a) \/ Acquire(i, a) \/ Execute(i, a) \/ Break(i, a)
  PROVE  \E next : ServerMove(i, a, next)
<1>1. balance \in [Users -> Nat]
  BY DEF SimInv, TypeOK
<1>2. CASE Lookup(i, a)
  <2> DEFINE next == IF i \in posted THEN "hit" ELSE "missed"
  <2>1. ServerMove(i, a, next)
    BY <1>1, <1>2 DEF Lookup, ServerMove, CallStates, Answers
  <2>2. QED
    BY <2>1
<1>3. CASE Acquire(i, a)
  <2> DEFINE next == IF i \in locks THEN "conflict" ELSE "executing"
  <2>1. ServerMove(i, a, next)
    BY <1>1, <1>3 DEF Acquire, ServerMove, CallStates, Answers
  <2>2. QED
    BY <2>1
<1>4. CASE Execute(i, a)
  <2> DEFINE j == job[i]
             accepted == i \notin posted /\ balance[j.from] >= j.amount
             told == IF accepted THEN "created" ELSE "rejected"
  <2>1. JobOf(j)
    <3>1. step[i] # "queued"
      BY <1>4 DEF Execute, SimInv, Calls, Attempts
    <3>2. QED
      BY <3>1 DEF SimInv, Calls
  <2>2. balance' \in [Users -> Nat]
    <3>1. j.from \in Users /\ j.to \in Users /\ j.amount \in Nat /\ j.from # j.to
      BY <2>1, Sizes DEF JobOf, users
    <3>2. CASE accepted
      <4>1. balance' = [balance EXCEPT ![j.from] = @ - j.amount,
                                       ![j.to] = @ + j.amount]
        BY <1>4, <3>2 DEF Execute
      <4>2. balance[j.from] - j.amount \in Nat /\ balance[j.to] + j.amount \in Nat
        BY <1>1, <3>1, <3>2
      <4> HIDE DEF j
      <4>3. QED
        BY <1>1, <3>1, <4>1, <4>2
    <3>3. CASE ~accepted
      BY <1>1, <1>4, <3>3 DEF Execute
    <3>4. QED
      BY <3>2, <3>3
  <2>3. CASE Serve(i, a, told) /\ locks' = locks \ {i}
    <3>1. ServerMove(i, a, told)
      BY <1>4, <2>2, <2>3 DEF Execute, ServerMove, CallStates, Answers
    <3>2. QED
      BY <3>1
  <2>4. CASE Serve(i, a, "error") /\ locks' \in {locks, locks \ {i}}
    <3>1. ServerMove(i, a, "error")
      BY <1>4, <2>2, <2>4 DEF Execute, ServerMove, CallStates, Answers
    <3>2. QED
      BY <3>1
  <2>5. QED
    BY <1>4, <2>3, <2>4 DEF Execute
<1>5. CASE Break(i, a)
  <2>1. ServerMove(i, a, "error")
    BY <1>1, <1>5 DEF Break, ServerMove, CallStates, Answers
  <2>2. QED
    BY <2>1
<1>6. QED
  BY <1>2, <1>3, <1>4, <1>5

LEMMA ExpireSim ==
  ASSUME SimInv, NEW i \in Transfers, Expire(i)
  PROVE  SimInv'
<1> USE DEF Expire, script
<1>1. users' = users /\ Provisioning' = Provisioning /\ Running' = Running
  BY DEF users, Provisioning, Running
<1>2. TypeOK'
  BY <1>1 DEF SimInv, TypeOK
<1>3. Calls' /\ Postings' /\ Phases'
  BY <1>1 DEF SimInv, Calls, Postings, Phases, JobOf
<1>4. JobTable'
  BY DEF SimInv, JobTable
<1>5. QED
  BY <1>2, <1>3, <1>4 DEF SimInv

-----------------------------------------------------------------------------
(* All steps.                                                              *)

LEMMA CounterType ==
  ASSUME NEW answer \in Answers
  PROVE  Counter(answer) \in Counters
BY DEF Answers, Counters, Counter

\* What a step is: part of provisioning, a phase that ends, a fetch, a call that
\* is sent or returns, a move of the server, a lock that expires, or nothing.
ProvisionStep ==
  \E u \in Users :
    /\ prov[u] \notin {"ready", "failed"}
    /\ \E next \in {"registered", "funded", "ready", "failed"} :
         /\ Provision(u, next)
         /\ IF next = "funded" THEN balance' = [balance EXCEPT ![u] = Funding]
                               ELSE balance' = balance
         /\ next = "ready" => prov[u] = "funded"
PhaseStep ==
  /\ UNCHANGED <<prov, step, job, stats, requests, fetched, failures, total,
                 server>>
  /\ \/ phase = "waiting" /\ phase' = "provision"
     \/ phase = "provision" /\ Provisioning = {}
        /\ phase' = IF Cardinality(users) < 2 THEN "exit" ELSE "transfer"
     \/ phase = "transfer" /\ phase' = "reconcile"
        /\ \A i \in Transfers : step[i] = "over"
     \/ phase = "reconcile" /\ phase' = "done" /\ fetched = users
SendStep ==
  \E i \in Transfers, a \in Attempts :
    /\ Send(i, a)
    /\ phase = "transfer"
    /\ \/ /\ a = "primary" /\ step[i] = "queued"
          /\ Cardinality(Running) < NUM_THREADS
       \/ a = "duplicate" /\ step[i] = "pause"
    /\ \E j : JobOf(j) /\ job' = [job EXCEPT ![i] = j]
ReturnStep ==
  \E i \in Waiting, c \in Counters :
    /\ Return(i)
    /\ stats' = [stats EXCEPT ![c] = @ + 1]
    /\ c # "errors" => /\ served[i][step[i]] \in Answers
                       /\ c = Counter(served[i][step[i]])
MoveStep ==
  \E i \in Transfers, a \in Attempts :
    \/ Lookup(i, a) \/ Acquire(i, a) \/ Execute(i, a) \/ Break(i, a)

LEMMA StepKinds ==
  ASSUME SimInv, [Next]_vars
  PROVE  \/ ProvisionStep \/ PhaseStep \/ SendStep \/ ReturnStep \/ MoveStep
         \/ \E u \in Users : Fetch(u)
         \/ \E i \in Transfers : Expire(i)
         \/ UNCHANGED vars
<1>1. ASSUME NEW u \in Users, Register(u) \/ Fund(u) \/ Provisioned(u) \/ GiveUp(u)
      PROVE  ProvisionStep
  <2>1. prov[u] \notin {"ready", "failed"}
    BY <1>1 DEF Register, Fund, Provisioned, GiveUp
  <2>2. \E next \in {"registered", "funded", "ready", "failed"} :
          /\ Provision(u, next)
          /\ IF next = "funded" THEN balance' = [balance EXCEPT ![u] = Funding]
                                ELSE balance' = balance
          /\ next = "ready" => prov[u] = "funded"
    BY <1>1 DEF Register, Fund, Provisioned, GiveUp
  <2>3. QED
    BY <2>1, <2>2 DEF ProvisionStep
<1>2. CASE Online \/ EndProvisioning \/ StartReconcile \/ Finish
  BY <1>2 DEF Online, EndProvisioning, StartReconcile, Finish, PhaseStep
<1>3. ASSUME NEW i \in Transfers, NEW from \in users, NEW to \in users,
             NEW amount \in Amounts, from # to, Begin(i, from, to, amount)
      PROVE  SendStep
  <2>1. JobOf([from |-> from, to |-> to, amount |-> amount])
    BY <1>3 DEF JobOf
  <2>2. "primary" \in Attempts
    BY DEF Attempts
  <2>3. QED
    BY <1>3, <2>1, <2>2 DEF Begin, SendStep
<1>4. ASSUME NEW i \in Transfers, SendDuplicate(i)
      PROVE  SendStep
  <2>1. JobOf(job[i]) /\ phase = "transfer"
    <3>1. step[i] = "pause"
      BY <1>4 DEF SendDuplicate
    <3>2. QED
      BY <3>1 DEF SimInv, Calls, Phases, TypeOK
  <2>2. job' = [job EXCEPT ![i] = job[i]]
    BY <1>4 DEF SimInv, SendDuplicate, JobTable
  <2>3. "duplicate" \in Attempts
    BY DEF Attempts
  <2>4. QED
    BY <1>4, <2>1, <2>2, <2>3 DEF SendDuplicate, SendStep
<1>5. ASSUME NEW i \in Transfers, Receive(i) \/ Fail(i)
      PROVE  ReturnStep
  <2>1. i \in Waiting /\ Return(i)
    BY <1>5 DEF Receive, Fail
  <2>2. CASE Receive(i)
    BY <2>1, <2>2, CounterType DEF Receive, ReturnStep
  <2>3. CASE Fail(i)
    <3>1. "errors" \in Counters
      BY DEF Counters
    <3>2. QED
      BY <2>1, <2>3, <3>1 DEF Fail, ReturnStep
  <2>4. QED
    BY <1>5, <2>2, <2>3
<1>6. CASE Server
  BY <1>6 DEF Server, MoveStep
<1>7. CASE Ended \/ UNCHANGED vars
  BY <1>7 DEF Ended
<1>8. QED
  BY <1>1, <1>2, <1>3, <1>4, <1>5, <1>6, <1>7 DEF Next, Script

LEMMA SimStep == SimInv /\ [Next]_vars => SimInv'
<1> SUFFICES ASSUME SimInv, [Next]_vars PROVE SimInv'
  OBVIOUS
<1>1. CASE ProvisionStep
  <2>1. PICK u \in Users, next \in {"registered", "funded", "ready", "failed"} :
          /\ prov[u] \notin {"ready", "failed"}
          /\ Provision(u, next)
          /\ IF next = "funded" THEN balance' = [balance EXCEPT ![u] = Funding]
                                ELSE balance' = balance
    BY <1>1 DEF ProvisionStep
  <2>2. balance' \in [Users -> Nat]
    BY <2>1, Sizes DEF SimInv, TypeOK
  <2>3. QED
    BY <2>1, <2>2, ProvisionSim
<1>2. CASE PhaseStep
  BY <1>2, PhaseSim DEF PhaseStep
<1>3. CASE SendStep
  BY <1>3, SendSim DEF SendStep
<1>4. CASE ReturnStep
  BY <1>4, ReturnSim DEF ReturnStep
<1>5. CASE MoveStep
  BY <1>5, ServerMoves, MoveSim DEF MoveStep
<1>6. CASE UNCHANGED vars
  <2>1. users' = users /\ Provisioning' = Provisioning /\ Running' = Running
    BY <1>6 DEF users, Provisioning, Running, vars, script, server
  <2>2. TypeOK' /\ JobTable'
    BY <1>6, <2>1 DEF SimInv, TypeOK, JobTable, vars, script, server
  <2>3. QED
    BY <1>6, <2>1, <2>2 DEF SimInv, Calls, Phases, Postings, JobOf,
                            vars, script, server
<1>7. QED
  BY <1>1, <1>2, <1>3, <1>4, <1>5, <1>6, StepKinds, FetchSim, ExpireSim

LEMMA SimHolds == Spec => []SimInv
BY InitSim, SimStep, PTL DEF Spec

\* The pool never runs more transfers than it has threads, the script goes on
\* only with two users to choose from, and a key is locked, or posted, only for
\* a transfer that was sent.
THEOREM SimulatorTypes == Spec => []TypeOK
<1>1. SimInv => TypeOK
  BY DEF SimInv
<1>2. QED
  BY <1>1, SimHolds, PTL

-----------------------------------------------------------------------------
(* The counters.                                                           *)

Returned == {x \in Transfers \X Attempts :
               served[x[1]][x[2]] # "none" /\ step[x[1]] # x[2]}
CountedAs(how, c) == {x \in Returned : how[x] = c}

\* Some choice of a counter for each call that has returned explains the
\* counters: what is not an error is what the server answered.  A call that met
\* the lock of its own key came second, after an error of the first.
Explains(how) ==
  /\ \A c \in Counters : stats[c] = Cardinality(CountedAs(how, c))
  /\ \A x \in Returned : how[x] # "errors" =>
       /\ served[x[1]][x[2]] \in Answers
       /\ how[x] = Counter(served[x[1]][x[2]])
  /\ \A i \in Transfers :
       (\E a \in Attempts : served[i][a] = "conflict") =>
         /\ <<i, "primary">> \in Returned
         /\ how[<<i, "primary">>] = "errors"

TallyInv ==
  /\ requests = Counted + Cardinality(Waiting)
  /\ \E how \in [Returned -> Counters] : Explains(how)

LEMMA FiniteCalls ==
  /\ IsFiniteSet(Waiting) /\ Cardinality(Waiting) \in Nat
  /\ IsFiniteSet(Returned)
  /\ \A how, c : IsFiniteSet(CountedAs(how, c))
<1>1. /\ Waiting \subseteq Transfers /\ Returned \subseteq Transfers \X Attempts
      /\ \A how, c : CountedAs(how, c) \subseteq Returned
  BY DEF Waiting, Returned, CountedAs
<1>2. IsFiniteSet(Waiting) /\ IsFiniteSet(Returned)
  BY <1>1, Sizes, FS_Subset
<1>3. QED
  BY <1>1, <1>2, FS_Subset, FS_CardinalityType

LEMMA InitTally == Init => TallyInv
<1> SUFFICES ASSUME Init PROVE TallyInv
  OBVIOUS
<1>1. Waiting = {} /\ Returned = {}
  BY DEF Init, Waiting, Returned, Attempts
<1>2. requests = Counted + Cardinality(Waiting)
  BY <1>1, FS_EmptySet DEF Init, Counted, Counters
<1> DEFINE how == [x \in {} |-> "errors"]
<1>3. how \in [Returned -> Counters]
  BY <1>1
<1>4. \A c \in Counters : stats[c] = Cardinality(CountedAs(how, c))
  <2>1. \A c : CountedAs(how, c) = {}
    BY <1>1 DEF CountedAs
  <2>2. QED
    BY <2>1, FS_EmptySet DEF Init
<1>5. Explains(how)
  BY <1>1, <1>4 DEF Explains, Init
<1>6. QED
  BY <1>2, <1>3, <1>5 DEF TallyInv

\* Steps that leave the script's calls and counters alone, and finish no call at
\* the server but by an answer.
LEMMA TallyFrame ==
  ASSUME TallyInv, SimInv, UNCHANGED <<step, stats, requests>>,
         \A i \in Transfers : \A a \in Attempts :
           /\ served'[i][a] = "none" <=> served[i][a] = "none"
           /\ served[i][a] \in Answers => served'[i][a] = served[i][a]
           /\ (served'[i][a] = "conflict" /\ served[i][a] # "conflict") =>
                /\ served[i][a] = "missed"
                /\ \E b \in Attempts : served[i][b] \in {"executing", "error"}
  PROVE  TallyInv'
<1>1. Returned' = Returned /\ Waiting' = Waiting /\ Counted' = Counted
  BY DEF Returned, Waiting, Counted
<1>2. PICK how \in [Returned -> Counters] : Explains(how)
  BY DEF TallyInv
<1>3. \A c : CountedAs(how, c)' = CountedAs(how, c)
  BY <1>1 DEF CountedAs
<1>4. ASSUME NEW x \in Returned', how[x] # "errors"
      PROVE  /\ served'[x[1]][x[2]] \in Answers
             /\ how[x] = Counter(served'[x[1]][x[2]])
  <2>1. /\ x \in Returned /\ x[1] \in Transfers /\ x[2] \in Attempts
        /\ served[x[1]][x[2]] \in Answers
        /\ how[x] = Counter(served[x[1]][x[2]])
    BY <1>1, <1>2, <1>4 DEF Explains, Returned
  <2>2. served'[x[1]][x[2]] = served[x[1]][x[2]]
    BY <2>1
  <2>3. QED
    BY <2>1, <2>2
<1>5. ASSUME NEW i \in Transfers, NEW a \in Attempts, served'[i][a] = "conflict"
      PROVE  <<i, "primary">> \in Returned /\ how[<<i, "primary">>] = "errors"
  <2>1. CASE served[i][a] = "conflict"
    BY <1>2, <2>1 DEF Explains
  <2>2. CASE served[i][a] # "conflict"
    <3>1. PICK b \in Attempts : served[i][b] \in {"executing", "error"}
      BY <1>5, <2>2
    <3>2. served[i][a] = "missed" /\ b # a
      BY <1>5, <2>2, <3>1
    <3>3. /\ served[i]["duplicate"] # "none" /\ served[i]["primary"] # "none"
          /\ served[i]["primary"] \in {"executing", "error", "missed"}
      BY <3>1, <3>2 DEF Attempts
    <3>4. <<i, "primary">> \in Returned
      BY <3>3 DEF Returned, SimInv, Calls, Attempts
    <3>5. served[i]["primary"] \in Answers =>
            Counter(served[i]["primary"]) = "errors"
      BY <3>3 DEF Answers, Counter
    <3>6. QED
      BY <1>2, <3>4, <3>5 DEF Explains
  <2>3. QED
    BY <2>1, <2>2
<1>6. Explains(how)'
  BY <1>1, <1>2, <1>3, <1>4, <1>5 DEF Explains
<1>7. QED
  BY <1>1, <1>2, <1>6 DEF TallyInv

LEMMA SendTally ==
  ASSUME TallyInv, SimInv, SendStep
  PROVE  TallyInv'
<1>1. PICK i \in Transfers, a \in Attempts :
        /\ Send(i, a)
        /\ \/ a = "primary" /\ step[i] = "queued"
           \/ a = "duplicate" /\ step[i] = "pause"
  BY DEF SendStep
<1>2. /\ served \in [Transfers -> [Attempts -> CallStates]]
      /\ step \in [Transfers -> Attempts \cup {"queued", "pause", "over"}]
      /\ served[i][a] = "none"
  BY <1>1 DEF SimInv, TypeOK, CallStates, Calls
<1>3. /\ \A k \in Transfers : step'[k] = IF k = i THEN a ELSE step[k]
      /\ stats' = stats /\ requests' = requests + 1
      /\ \A k \in Transfers : \A b \in Attempts :
           served'[k][b] = IF k = i /\ b = a THEN "sent" ELSE served[k][b]
  <2>1. served' = [served EXCEPT ![i][a] = "sent"]
    BY <1>1 DEF Send
  <2>2. QED
    BY <1>1, <1>2, <2>1, ServedNext DEF Send
<1>4. Returned' = Returned
  <2>1. ASSUME NEW k \in Transfers, NEW b \in Attempts
        PROVE  (served'[k][b] # "none" /\ step'[k] # b)
                 <=> (served[k][b] # "none" /\ step[k] # b)
    <3>1. CASE k # i
      BY <1>3, <3>1
    <3>2. CASE k = i /\ b = a
      BY <1>2, <1>3, <3>2
    <3>3. CASE k = i /\ b # a
      BY <1>1, <1>3, <3>3 DEF Attempts
    <3>4. QED
      BY <3>1, <3>2, <3>3
  <2>2. QED
    BY <2>1 DEF Returned
<1>5. Waiting' = Waiting \cup {i} /\ i \notin Waiting
  BY <1>1, <1>3 DEF Waiting, Attempts
<1>6. Cardinality(Waiting') = Cardinality(Waiting) + 1
  BY <1>5, FiniteCalls, FS_AddElement
<1>7. Counted' = Counted /\ Counted \in Nat
  BY <1>3 DEF Counted, SimInv, TypeOK, Counters
<1>8. requests' = Counted' + Cardinality(Waiting')
  BY <1>3, <1>6, <1>7, FiniteCalls DEF TallyInv
<1>9. PICK how \in [Returned -> Counters] : Explains(how)
  BY DEF TallyInv
<1>10. \A c : CountedAs(how, c)' = CountedAs(how, c)
  BY <1>4 DEF CountedAs
<1>11. ASSUME NEW x \in Returned', how[x] # "errors"
       PROVE  /\ served'[x[1]][x[2]] \in Answers
              /\ how[x] = Counter(served'[x[1]][x[2]])
  <2>1. /\ x \in Returned /\ x[1] \in Transfers /\ x[2] \in Attempts
        /\ served[x[1]][x[2]] \in Answers
        /\ how[x] = Counter(served[x[1]][x[2]])
    BY <1>4, <1>9, <1>11 DEF Explains, Returned
  <2>2. served'[x[1]][x[2]] = served[x[1]][x[2]]
    BY <1>2, <1>3, <2>1 DEF Answers
  <2>3. QED
    BY <2>1, <2>2
<1>12. \A k \in Transfers :
         (\E b \in Attempts : served'[k][b] = "conflict") =>
           <<k, "primary">> \in Returned /\ how[<<k, "primary">>] = "errors"
  BY <1>3, <1>9 DEF Explains
<1>13. Explains(how)'
  BY <1>3, <1>4, <1>9, <1>10, <1>11, <1>12 DEF Explains
<1>14. QED
  BY <1>4, <1>8, <1>9, <1>13 DEF TallyInv

\* A call that returns is counted once.
LEMMA ReturnTally ==
  ASSUME TallyInv, SimInv, ReturnStep
  PROVE  TallyInv'
<1>1. PICK i \in Waiting, c \in Counters :
        /\ Return(i)
        /\ stats' = [stats EXCEPT ![c] = @ + 1]
        /\ c # "errors" => /\ served[i][step[i]] \in Answers
                           /\ c = Counter(served[i][step[i]])
  BY DEF ReturnStep
<1> DEFINE a == step[i]
           x0 == <<i, a>>
<1>2. /\ i \in Transfers /\ a \in Attempts
      /\ step \in [Transfers -> Attempts \cup {"queued", "pause", "over"}]
      /\ stats \in [Counters -> Nat]
      /\ served[i][a] # "none"
  BY DEF SimInv, TypeOK, Waiting, Calls, Attempts
<1>3. /\ \A k \in Transfers : k # i => step'[k] = step[k]
      /\ step'[i] \in {"over", "pause"}
      /\ served' = served /\ requests' = requests
      /\ a = "primary" \/ step'[i] = "over"
  BY <1>1, <1>2 DEF Return, server
<1>4. Returned' = Returned \cup {x0} /\ x0 \notin Returned
  <2>1. ASSUME NEW k \in Transfers, NEW b \in Attempts
        PROVE  (served[k][b] # "none" /\ step'[k] # b)
                 <=> ((served[k][b] # "none" /\ step[k] # b) \/ (k = i /\ b = a))
    BY <1>2, <1>3, <2>1 DEF Attempts
  <2>2. x0 \in Transfers \X Attempts
    BY <1>2
  <2>3. \A x \in Transfers \X Attempts :
          x \in Returned' <=> (x \in Returned \/ x = x0)
    BY <1>3, <2>1, <2>2 DEF Returned
  <2>4. Returned \subseteq Transfers \X Attempts /\ Returned' \subseteq Transfers \X Attempts
    BY DEF Returned
  <2>5. x0 \notin Returned
    BY DEF Returned
  <2>6. QED
    BY <2>2, <2>3, <2>4, <2>5
<1>5. Waiting' = Waiting \ {i} /\ i \in Waiting
  BY <1>2, <1>3 DEF Waiting, Attempts
<1>6. Cardinality(Waiting') = Cardinality(Waiting) - 1
  BY <1>5, FiniteCalls, FS_RemoveElement
<1>7. Counted' = Counted + 1 /\ Counted \in Nat
  BY <1>1, <1>2 DEF Counted, Counters
<1>8. requests' = Counted' + Cardinality(Waiting')
  BY <1>3, <1>6, <1>7, FiniteCalls DEF TallyInv
<1>9. PICK old \in [Returned -> Counters] : Explains(old)
  BY DEF TallyInv
<1>10. PICK how \in [Returned \cup {x0} -> Counters] :
         how[x0] = c /\ \A x \in Returned : how[x] = old[x]
  <2> DEFINE choice == [x \in Returned \cup {x0} |-> IF x = x0 THEN c ELSE old[x]]
  <2>1. choice \in [Returned \cup {x0} -> Counters]
    BY <1>9
  <2>2. choice[x0] = c /\ \A x \in Returned : choice[x] = old[x]
    BY <1>4
  <2>3. QED
    BY <2>1, <2>2
<1> HIDE DEF x0
<1>11. ASSUME NEW d \in Counters
       PROVE  stats'[d] = Cardinality(CountedAs(how, d)')
  <2>1. stats[d] = Cardinality(CountedAs(old, d)) /\ x0 \notin CountedAs(old, d)
    BY <1>4, <1>9 DEF Explains, CountedAs
  <2>2. CASE d = c
    <3>1. CountedAs(how, d)' = CountedAs(old, d) \cup {x0}
      BY <1>4, <1>10, <2>2 DEF CountedAs
    <3>2. Cardinality(CountedAs(old, d) \cup {x0}) = Cardinality(CountedAs(old, d)) + 1
      BY <2>1, FiniteCalls, FS_AddElement
    <3>3. QED
      BY <1>1, <1>2, <2>1, <2>2, <3>1, <3>2
  <2>3. CASE d # c
    <3>1. CountedAs(how, d)' = CountedAs(old, d)
      BY <1>4, <1>10, <2>3 DEF CountedAs
    <3>2. QED
      BY <1>1, <1>2, <2>1, <2>3, <3>1
  <2>4. QED
    BY <2>2, <2>3
<1>12. ASSUME NEW x \in Returned', how[x] # "errors"
       PROVE  /\ served'[x[1]][x[2]] \in Answers
              /\ how[x] = Counter(served'[x[1]][x[2]])
  <2>1. CASE x = x0
    BY <1>1, <1>3, <1>10, <1>12, <2>1 DEF x0
  <2>2. CASE x \in Returned
    BY <1>3, <1>9, <1>10, <1>12, <2>2 DEF Explains
  <2>3. QED
    BY <1>4, <2>1, <2>2
<1>13. \A k \in Transfers :
         (\E b \in Attempts : served'[k][b] = "conflict") =>
           <<k, "primary">> \in Returned' /\ how[<<k, "primary">>] = "errors"
  BY <1>3, <1>4, <1>9, <1>10 DEF Explains
<1>14. Explains(how)'
  BY <1>11, <1>12, <1>13 DEF Explains
<1>15. QED
  BY <1>4, <1>8, <1>10, <1>14 DEF TallyInv

LEMMA TallyStep == SimInv /\ TallyInv /\ [Next]_vars => TallyInv'
<1> SUFFICES ASSUME SimInv, TallyInv, [Next]_vars PROVE TallyInv'
  OBVIOUS
<1>1. CASE MoveStep
  <2>1. PICK i \in Transfers, a \in Attempts :
          Lookup(i, a) \/ Acquire(i, a) \/ Execute(i, a) \/ Break(i, a)
    BY <1>1 DEF MoveStep
  <2>2. PICK next : ServerMove(i, a, next)
    BY <2>1, ServerMoves
  <2>3. /\ served[i][a] \in {"sent", "missed", "executing"}
        /\ next \in CallStates \ {"none", "sent"}
        /\ \A k \in Transfers : \A b \in Attempts :
             served'[k][b] = IF k = i /\ b = a THEN next ELSE served[k][b]
    <3>1. served \in [Transfers -> [Attempts -> CallStates]]
      BY DEF SimInv, TypeOK, CallStates
    <3>2. QED
      BY <2>2, <3>1, ServedNext DEF ServerMove, Serve
  <2>4. next = "conflict" => i \in locks /\ served[i][a] = "missed"
    <3>1. CASE Acquire(i, a)
      <4>1. served' = [served EXCEPT ![i][a] = IF i \in locks THEN "conflict"
                                                              ELSE "executing"]
            /\ served[i][a] = "missed"
        BY <3>1 DEF Acquire, Serve
      <4>2. served \in [Transfers -> [Attempts -> CallStates]]
        BY DEF SimInv, TypeOK, CallStates
      <4>3. served'[i][a] = IF i \in locks THEN "conflict" ELSE "executing"
        BY <4>1, <4>2, ServedNext
      <4>4. QED
        BY <2>3, <4>1, <4>3
    <3>2. CASE Lookup(i, a) \/ Execute(i, a) \/ Break(i, a)
      <4>1. PICK n \in {"hit", "missed", "created", "rejected", "error"} :
              served' = [served EXCEPT ![i][a] = n]
        BY <3>2 DEF Lookup, Execute, Break, Serve
      <4>2. served \in [Transfers -> [Attempts -> CallStates]]
        BY DEF SimInv, TypeOK, CallStates
      <4>3. served'[i][a] = n
        BY <4>1, <4>2, ServedNext
      <4>4. QED
        BY <2>3, <4>3
    <3>3. QED
      BY <2>1, <3>1, <3>2
  <2>5. next = "conflict" =>
          \E b \in Attempts : served[i][b] \in {"executing", "error"}
    BY <2>4 DEF SimInv, Postings
  <2>6. UNCHANGED <<step, stats, requests>>
    BY <2>2 DEF ServerMove, Serve, script
  <2>7. \A k \in Transfers : \A b \in Attempts :
          /\ served'[k][b] = "none" <=> served[k][b] = "none"
          /\ served[k][b] \in Answers => served'[k][b] = served[k][b]
          /\ (served'[k][b] = "conflict" /\ served[k][b] # "conflict") =>
               /\ served[k][b] = "missed"
               /\ \E d \in Attempts : served[k][d] \in {"executing", "error"}
    BY <2>3, <2>4, <2>5 DEF Answers
  <2>8. QED
    BY <2>6, <2>7, TallyFrame
<1>2. ASSUME UNCHANGED <<step, stats, requests, served>>
      PROVE  TallyInv'
  BY <1>2, TallyFrame
<1>3. CASE ProvisionStep
  BY <1>2, <1>3 DEF ProvisionStep, Provision
<1>4. CASE PhaseStep
  BY <1>2, <1>4 DEF PhaseStep, server
<1>5. CASE \E u \in Users : Fetch(u)
  BY <1>2, <1>5 DEF Fetch, server
<1>6. CASE \E i \in Transfers : Expire(i)
  BY <1>2, <1>6 DEF Expire, script
<1>7. CASE UNCHANGED vars
  BY <1>2, <1>7 DEF vars, script, server
<1>8. QED
  BY <1>1, <1>3, <1>4, <1>5, <1>6, <1>7, StepKinds, SendTally, ReturnTally

LEMMA NoMore ==
  ASSUME NEW S, NEW T, IsFiniteSet(S), IsFiniteSet(T), NEW f \in [S -> T],
         \A x, y \in S : f[x] = f[y] => x = y
  PROVE  Cardinality(S) <= Cardinality(T)
<1>1. f \in Injection(S, T)
  BY DEF Injection, IsInjective
<1>2. QED
  BY <1>1, FS_Injection

\* What a counted answer says of the transfer at the server.
LEMMA CountedAnswer ==
  ASSUME NEW how, Explains(how), NEW c \in Counters, c # "errors",
         NEW x \in CountedAs(how, c)
  PROVE  /\ x[1] \in Transfers /\ x[2] \in Attempts /\ x = <<x[1], x[2]>>
         /\ c = "success" => served[x[1]][x[2]] = "created"
         /\ c = "idempotent_hits" => served[x[1]][x[2]] = "hit"
         /\ c = "concurrency_conflicts" => served[x[1]][x[2]] = "conflict"
<1>1. /\ x \in Returned /\ how[x] = c
      /\ x[1] \in Transfers /\ x[2] \in Attempts /\ x = <<x[1], x[2]>>
  BY DEF CountedAs, Returned
<1>2. /\ served[x[1]][x[2]] \in Answers
      /\ Counter(served[x[1]][x[2]]) = c
  BY <1>1 DEF Explains
<1>3. QED
  BY <1>1, <1>2 DEF Answers, Counter

LEMMA SuccessesPosted ==
  ASSUME SimInv, NEW how, Explains(how)
  PROVE  stats["success"] <= Cardinality(posted)
<1> DEFINE S == CountedAs(how, "success")
           f == [x \in S |-> x[1]]
<1>1. "success" \in Counters /\ stats["success"] = Cardinality(S)
  BY DEF Explains, Counters
<1>2. posted \subseteq Transfers /\ IsFiniteSet(posted)
  BY Sizes, FS_Subset DEF SimInv, TypeOK
<1>3. \A x \in S : /\ x[1] \in Transfers /\ x[2] \in Attempts /\ x = <<x[1], x[2]>>
                   /\ served[x[1]][x[2]] = "created"
  BY <1>1, CountedAnswer
<1>4. \A x \in S : x[1] \in posted
  BY <1>3 DEF SimInv, Postings
<1>5. \A x, y \in S : x[1] = y[1] => x = y
  <2>1. \A x, y \in S : x[1] = y[1] => x[2] = y[2]
    BY <1>3 DEF SimInv, Postings, Attempts
  <2>2. QED
    BY <1>3, <2>1
<1>6. IsFiniteSet(S)
  BY FiniteCalls
<1> HIDE DEF S
<1>7. f \in [S -> posted] /\ \A x, y \in S : f[x] = f[y] => x = y
  BY <1>4, <1>5
<1> HIDE DEF f
<1>8. QED
  BY <1>1, <1>2, <1>6, <1>7, NoMore

LEMMA HitsPosted ==
  ASSUME SimInv, NEW how, Explains(how)
  PROVE  stats["idempotent_hits"] <= Cardinality(posted)
<1> DEFINE S == CountedAs(how, "idempotent_hits")
           f == [x \in S |-> x[1]]
<1>1. "idempotent_hits" \in Counters /\ stats["idempotent_hits"] = Cardinality(S)
  BY DEF Explains, Counters
<1>2. posted \subseteq Transfers /\ IsFiniteSet(posted)
  BY Sizes, FS_Subset DEF SimInv, TypeOK
<1>3. \A x \in S : /\ x[1] \in Transfers /\ x[2] \in Attempts /\ x = <<x[1], x[2]>>
                   /\ served[x[1]][x[2]] = "hit"
  BY <1>1, CountedAnswer
<1>4. \A x \in S : x[1] \in posted
  BY <1>3 DEF SimInv, Postings
<1>5. \A x, y \in S : x[1] = y[1] => x = y
  <2>1. ASSUME NEW x \in S
        PROVE  \E a \in Attempts :
                 a # x[2] /\ served[x[1]][a] \in {"created", "error"}
    BY <1>3, <1>4 DEF SimInv, Postings
  <2>2. \A x, y \in S : x[1] = y[1] => x[2] = y[2]
    BY <1>3, <2>1 DEF Attempts
  <2>3. QED
    BY <1>3, <2>2
<1>6. IsFiniteSet(S)
  BY FiniteCalls
<1> HIDE DEF S
<1>7. f \in [S -> posted] /\ \A x, y \in S : f[x] = f[y] => x = y
  BY <1>4, <1>5
<1> HIDE DEF f
<1>8. QED
  BY <1>1, <1>2, <1>6, <1>7, NoMore

LEMMA ConflictsFollowErrors ==
  ASSUME SimInv, NEW how, Explains(how)
  PROVE  stats["concurrency_conflicts"] <= stats["errors"]
<1> DEFINE S == CountedAs(how, "concurrency_conflicts")
           T == CountedAs(how, "errors")
           f == [x \in S |-> <<x[1], "primary">>]
<1>1. /\ "concurrency_conflicts" \in Counters
      /\ stats["concurrency_conflicts"] = Cardinality(S)
      /\ stats["errors"] = Cardinality(T)
  BY DEF Explains, Counters
<1>2. \A x \in S : /\ x[1] \in Transfers /\ x[2] \in Attempts /\ x = <<x[1], x[2]>>
                   /\ served[x[1]][x[2]] = "conflict"
  BY <1>1, CountedAnswer
<1>3. \A x \in S : <<x[1], "primary">> \in T
  BY <1>2 DEF Explains, CountedAs
<1>4. \A x \in S : x[2] = "duplicate"
  BY <1>2 DEF Explains, CountedAs, Attempts
<1>5. \A x, y \in S : x[1] = y[1] => x = y
  BY <1>2, <1>4
<1>6. IsFiniteSet(S) /\ IsFiniteSet(T)
  BY FiniteCalls
<1> HIDE DEF S, T
<1>7. f \in [S -> T] /\ \A x, y \in S : f[x] = f[y] => x = y
  BY <1>3, <1>5
<1>8. QED
  BY <1>1, <1>6, <1>7, NoMore

\* The call that posted a transfer has returned, as a success or an error, or
\* is still waited for.
LEMMA PostedCounted ==
  ASSUME SimInv, NEW how \in [Returned -> Counters], Explains(how)
  PROVE  Cardinality(posted)
           <= stats["success"] + stats["errors"] + Cardinality(Waiting)
<1> DEFINE S == CountedAs(how, "success")
           E == CountedAs(how, "errors")
           W == {<<i, step[i]>> : i \in Waiting}
           T == S \cup E \cup W
           by(i) == CHOOSE a \in Attempts : served[i][a] \in {"created", "error"}
           f == [i \in posted |-> <<i, by(i)>>]
           g == [x \in W |-> x[1]]
<1>1. stats["success"] = Cardinality(S) /\ stats["errors"] = Cardinality(E)
  BY DEF Explains, Counters
<1>2. /\ IsFiniteSet(S) /\ IsFiniteSet(E) /\ IsFiniteSet(Waiting)
      /\ IsFiniteSet(posted)
      /\ posted \subseteq Transfers
  BY FiniteCalls, Sizes, FS_Subset DEF SimInv, TypeOK
<1>3. IsFiniteSet(W) /\ Cardinality(W) <= Cardinality(Waiting)
  <2>1. W \subseteq Transfers \X Attempts
    BY DEF Waiting
  <2>2. IsFiniteSet(W)
    BY <2>1, Sizes, FS_Subset
  <2>3. g \in [W -> Waiting] /\ \A x, y \in W : g[x] = g[y] => x = y
    OBVIOUS
  <2> HIDE DEF W, g
  <2>4. QED
    BY <1>2, <2>2, <2>3, NoMore
<1>4. ASSUME NEW i \in posted
      PROVE  <<i, by(i)>> \in T
  <2>1. by(i) \in Attempts /\ served[i][by(i)] \in {"created", "error"} /\ i \in Transfers
    BY <1>2 DEF SimInv, Postings
  <2> HIDE DEF by
  <2>2. CASE step[i] = by(i)
    BY <2>1, <2>2 DEF Waiting
  <2>3. CASE step[i] # by(i)
    <3>1. <<i, by(i)>> \in Returned
      BY <2>1, <2>3 DEF Returned
    <3>2. how[<<i, by(i)>>] # "errors" => how[<<i, by(i)>>] = "success"
      BY <2>1, <3>1 DEF Explains, Counter
    <3>3. QED
      BY <3>1, <3>2 DEF CountedAs
  <2>4. QED
    BY <2>2, <2>3
<1> HIDE DEF S, E, W, by
<1>5. f \in [posted -> T] /\ \A i, j \in posted : f[i] = f[j] => i = j
  BY <1>4
<1>6. IsFiniteSet(S \cup E) /\ IsFiniteSet(T)
  BY <1>2, <1>3, FS_Union
<1>7. Cardinality(posted) <= Cardinality(T)
  <2> HIDE DEF T, f
  <2>1. QED
    BY <1>2, <1>5, <1>6, NoMore
<1>8. /\ Cardinality(T) = Cardinality(S \cup E) + Cardinality(W)
                          - Cardinality((S \cup E) \cap W)
      /\ Cardinality(S \cup E) = Cardinality(S) + Cardinality(E)
                                 - Cardinality(S \cap E)
  BY <1>2, <1>3, <1>6, FS_Union
<1>9. /\ Cardinality((S \cup E) \cap W) \in Nat /\ Cardinality(S \cap E) \in Nat
      /\ Cardinality(S) \in Nat /\ Cardinality(E) \in Nat
      /\ Cardinality(W) \in Nat /\ Cardinality(Waiting) \in Nat
      /\ Cardinality(T) \in Nat /\ Cardinality(posted) \in Nat
      /\ Cardinality(S \cup E) \in Nat
  BY <1>2, <1>3, <1>6, FS_Intersection, FS_CardinalityType
<1> HIDE DEF T
<1>10. QED
  BY <1>1, <1>3, <1>7, <1>8, <1>9

\* However calls are answered late, lost or given up: every call is counted
\* once, the successes and the HITs are of posted transfers, a posted transfer
\* is counted, and a 409 is preceded by an error.
THEOREM TalliesMatch == Spec => []TalliesMatchPostings
<1>1. SimInv /\ TallyInv => TalliesMatchPostings
  BY SuccessesPosted, HitsPosted, ConflictsFollowErrors, PostedCounted
     DEF TallyInv, TalliesMatchPostings
<1>2. QED
  BY <1>1, InitTally, TallyStep, SimHolds, PTL DEF Spec

-----------------------------------------------------------------------------
(* The money.                                                              *)

LEMMA OneToN ==
  ASSUME NEW n \in Nat
  PROVE  IsFiniteSet(1 .. n) /\ Cardinality(1 .. n) = n
<1>1. 1 \in Int /\ n \in Int
  OBVIOUS
<1>2. /\ IsFiniteSet(1 .. n)
      /\ Cardinality(1 .. n) = IF 1 > n THEN 0 ELSE n - 1 + 1
  BY <1>1, FS_Interval
<1>3. (IF 1 > n THEN 0 ELSE n - 1 + 1) = n
  OBVIOUS
<1>4. QED
  BY <1>2, <1>3

\* The units of money in the wallets of S: a sum of balances is a cardinality.
Coins(b, S) == UNION {{u} \X (1 .. b[u]) : u \in S}

LEMMA CoinsFinite ==
  ASSUME NEW S, IsFiniteSet(S), NEW b, \A u \in S : b[u] \in Nat
  PROVE  IsFiniteSet(Coins(b, S))
<1> DEFINE P == {{u} \X (1 .. b[u]) : u \in S}
           f == [u \in S |-> {u} \X (1 .. b[u])]
<1>1. f \in Surjection(S, P)
  BY DEF Surjection
<1>2. ASSUME NEW p \in P
      PROVE  IsFiniteSet(p)
  <2>1. PICK u \in S : p = {u} \X (1 .. b[u])
    OBVIOUS
  <2>2. b[u] \in Nat
    OBVIOUS
  <2>3. IsFiniteSet({u})
    BY FS_Singleton
  <2>4. IsFiniteSet(1 .. b[u])
    BY <2>2, OneToN
  <2>5. QED
    BY <2>1, <2>3, <2>4, FS_Product
<1> HIDE DEF P, f
<1>3. IsFiniteSet(P)
  BY <1>1, FS_Surjection
<1>4. IsFiniteSet(UNION P)
  BY <1>2, <1>3, FS_UNION
<1>5. QED
  BY <1>4 DEF Coins, P

LEMMA CoinsAdd ==
  ASSUME NEW S, IsFiniteSet(S), NEW u, u \notin S,
         NEW b, \A v \in S \cup {u} : b[v] \in Nat
  PROVE  /\ Cardinality(Coins(b, S)) \in Nat
         /\ Cardinality(Coins(b, S \cup {u})) = Cardinality(Coins(b, S)) + b[u]
<1> DEFINE C == Coins(b, S)
           D == {u} \X (1 .. b[u])
<1>1. IsFiniteSet(C) /\ Cardinality(C) \in Nat
  BY CoinsFinite, FS_CardinalityType
<1>2. IsFiniteSet(D) /\ Cardinality(D) = b[u]
  <2>1. b[u] \in Nat
    OBVIOUS
  <2>2. IsFiniteSet({u}) /\ Cardinality({u}) = 1
    BY FS_Singleton
  <2>3. IsFiniteSet(1 .. b[u]) /\ Cardinality(1 .. b[u]) = b[u]
    BY <2>1, OneToN
  <2>4. IsFiniteSet(D) /\ Cardinality(D) = Cardinality({u}) * Cardinality(1 .. b[u])
    BY <2>2, <2>3, FS_Product
  <2>5. 1 * b[u] = b[u]
    BY <2>1
  <2>6. QED
    BY <2>2, <2>3, <2>4, <2>5
<1>3. Coins(b, S \cup {u}) = C \cup D
  BY DEF Coins
<1>4. C \cap D = {}
  BY DEF Coins
<1> HIDE DEF C, D
<1>5. Cardinality(C \cap D) = 0
  BY <1>4, FS_EmptySet
<1>6. Cardinality(C \cup D) = Cardinality(C) + Cardinality(D) - Cardinality(C \cap D)
  BY <1>1, <1>2, FS_Union
<1>7. b[u] \in Nat
  OBVIOUS
<1>8. Cardinality(C \cup D) = Cardinality(C) + b[u]
  BY <1>1, <1>2, <1>5, <1>6, <1>7
<1>9. QED
  BY <1>1, <1>3, <1>8 DEF C

\* A payment between two wallets of S moves coins and makes or loses none.
LEMMA CoinsMove ==
  ASSUME NEW S, IsFiniteSet(S), NEW x \in S, NEW y \in S, x # y,
         NEW m \in Nat, NEW b \in [S -> Nat], b[x] >= m,
         NEW c, /\ c[x] = b[x] - m /\ c[y] = b[y] + m
                /\ \A v \in S \ {x, y} : c[v] = b[v]
  PROVE  Cardinality(Coins(c, S)) = Cardinality(Coins(b, S))
<1> DEFINE R == S \ {x, y}
<1>1. IsFiniteSet(R) /\ IsFiniteSet(R \cup {x})
  BY FS_Subset
<1>2. S = (R \cup {x}) \cup {y} /\ x \notin R /\ y \notin R \cup {x}
  OBVIOUS
<1>3. /\ c[x] = b[x] - m /\ c[y] = b[y] + m
      /\ \A v \in R : c[v] = b[v]
      /\ \A v \in S : c[v] \in Nat /\ b[v] \in Nat
  <2>1. b[x] - m \in Nat /\ b[y] + m \in Nat
    OBVIOUS
  <2>2. QED
    BY <2>1
<1>4. Coins(c, R) = Coins(b, R)
  BY <1>3 DEF Coins
<1> HIDE DEF R
<1>5. /\ \A v \in R \cup {x} : c[v] \in Nat /\ b[v] \in Nat
      /\ \A v \in (R \cup {x}) \cup {y} : c[v] \in Nat /\ b[v] \in Nat
  BY <1>2, <1>3
<1>6. /\ Cardinality(Coins(c, R)) \in Nat
      /\ Cardinality(Coins(c, R \cup {x})) = Cardinality(Coins(c, R)) + c[x]
      /\ Cardinality(Coins(b, R \cup {x})) = Cardinality(Coins(b, R)) + b[x]
  BY <1>1, <1>2, <1>5, CoinsAdd
<1>7. /\ Cardinality(Coins(c, (R \cup {x}) \cup {y}))
           = Cardinality(Coins(c, R \cup {x})) + c[y]
      /\ Cardinality(Coins(b, (R \cup {x}) \cup {y}))
           = Cardinality(Coins(b, R \cup {x})) + b[y]
  BY <1>1, <1>2, <1>5, CoinsAdd
<1>8. b[x] \in Nat /\ b[y] \in Nat
  OBVIOUS
<1>9. QED
  BY <1>2, <1>3, <1>4, <1>6, <1>7, <1>8

LEMMA CoinsFunded ==
  ASSUME NEW S, IsFiniteSet(S), NEW b, NEW n \in Nat, \A u \in S : b[u] = n
  PROVE  Cardinality(Coins(b, S)) = Cardinality(S) * n
<1>1. Coins(b, S) = S \X (1 .. n)
  BY DEF Coins
<1>2. IsFiniteSet(1 .. n) /\ Cardinality(1 .. n) = n
  BY FS_Interval
<1>3. QED
  BY <1>1, <1>2, FS_Product

\* Nothing is lost between the wallets once all are funded; and a
\* reconciliation without errors has added up the balances as they are.
MoneyInv ==
  /\ phase \in {"waiting", "provision"} =>
       \A u \in Users : prov[u] \in {"funded", "ready"} => balance[u] = Funding
  /\ (phase \notin {"waiting", "provision"} /\ users = Users) =>
       Cardinality(Coins(balance, Users)) = expected_total
  /\ (phase \in {"reconcile", "done"} /\ stats["errors"] = 0) =>
       total = Cardinality(Coins(balance, fetched \ failures))

LEMMA InitMoney == Init => MoneyInv
BY DEF Init, MoneyInv

\* After a run without errors nothing is under way at the server.
LEMMA CleanIsSettled ==
  ASSUME SimInv, TallyInv, phase \in {"reconcile", "done"}, stats["errors"] = 0,
         NEW i \in Transfers, NEW a \in Attempts
  PROVE  served[i][a] \in Answers \cup {"none"}
<1>1. PICK how \in [Returned -> Counters] : Explains(how)
  BY DEF TallyInv
<1>2. CountedAs(how, "errors") = {}
  <2>1. Cardinality(CountedAs(how, "errors")) = 0
    BY <1>1 DEF Explains, Counters
  <2>2. QED
    BY <2>1, FiniteCalls, FS_EmptySet
<1>3. served[i][a] # "none" => <<i, a>> \in Returned
  BY DEF Returned, SimInv, Phases, Attempts
<1>4. QED
  BY <1>1, <1>2, <1>3 DEF CountedAs, Explains

LEMMA MoveMoney ==
  ASSUME SimInv, TallyInv, MoneyInv, MoveStep
  PROVE  MoneyInv'
<1>1. PICK i \in Transfers, a \in Attempts :
        Lookup(i, a) \/ Acquire(i, a) \/ Execute(i, a) \/ Break(i, a)
  BY DEF MoveStep
<1>2. /\ served[i][a] \in {"sent", "missed", "executing"}
      /\ UNCHANGED script
  BY <1>1 DEF Lookup, Acquire, Execute, Break, Serve
<1>3. step[i] # "queued" /\ JobOf(job[i])
  <2>1. step[i] # "queued"
    BY <1>2 DEF SimInv, Calls, Attempts
  <2>2. QED
    BY <2>1 DEF SimInv, Calls
<1>4. phase \notin {"waiting", "provision"}
  BY <1>3 DEF SimInv, Phases
<1>5. ~(phase \in {"reconcile", "done"} /\ stats["errors"] = 0)
  BY <1>2, CleanIsSettled DEF Answers
<1>6. users = Users =>
        Cardinality(Coins(balance', Users)) = Cardinality(Coins(balance, Users))
  <2>1. CASE balance' = balance
    BY <2>1
  <2>2. CASE balance' # balance
    <3> DEFINE j == job[i]
    <3>1. /\ balance[j.from] >= j.amount
          /\ balance' = [balance EXCEPT ![j.from] = @ - j.amount,
                                        ![j.to] = @ + j.amount]
      BY <1>1, <2>2 DEF Lookup, Acquire, Execute, Break
    <3>2. /\ j.from \in Users /\ j.to \in Users /\ j.from # j.to
          /\ j.amount \in Nat
      BY <1>3, Sizes DEF JobOf, users
    <3>3. balance \in [Users -> Nat]
      BY DEF SimInv, TypeOK
    <3>4. PICK x, y, m, b, c :
            /\ x = j.from /\ y = j.to /\ m = j.amount
            /\ b = balance /\ c = balance'
      OBVIOUS
    <3> HIDE DEF j
    <3>5. /\ x \in Users /\ y \in Users /\ x # y /\ m \in Nat
          /\ b \in [Users -> Nat] /\ b[x] >= m
          /\ c[x] = b[x] - m /\ c[y] = b[y] + m
          /\ \A v \in Users \ {x, y} : c[v] = b[v]
      BY <3>1, <3>2, <3>3, <3>4
    <3>6. IsFiniteSet(Users)
      BY Sizes
    <3>7. Cardinality(Coins(c, Users)) = Cardinality(Coins(b, Users))
      BY <3>5, <3>6, CoinsMove
    <3>8. QED
      BY <3>4, <3>7
  <2>3. QED
    BY <2>1, <2>2
<1>7. QED
  BY <1>2, <1>4, <1>5, <1>6 DEF MoneyInv, script, users, expected_total

LEMMA PhaseMoney ==
  ASSUME SimInv, MoneyInv, PhaseStep
  PROVE  MoneyInv'
<1>1. UNCHANGED <<prov, stats, fetched, failures, total, balance>>
  BY DEF PhaseStep, server
<1>2. users' = users
  BY <1>1 DEF users
<1>3. CASE phase = "provision" /\ Provisioning = {}
           /\ phase' = IF Cardinality(users) < 2 THEN "exit" ELSE "transfer"
  <2>1. users = Users => Cardinality(Coins(balance, Users)) = expected_total
    <3>1. SUFFICES ASSUME users = Users
                   PROVE  Cardinality(Coins(balance, Users)) = expected_total
      OBVIOUS
    <3>2. \A u \in Users : balance[u] = Funding
      BY <1>3, <3>1 DEF MoneyInv, users
    <3>3. QED
      BY <3>2, Sizes, CoinsFunded DEF expected_total
  <2>2. QED
    BY <1>1, <1>2, <1>3, <2>1 DEF MoneyInv, expected_total
<1>4. CASE phase = "transfer" /\ phase' = "reconcile"
  <2>1. total = 0 /\ fetched \ failures = {}
    BY <1>4 DEF SimInv, Phases
  <2>2. Coins(balance, {}) = {}
    BY DEF Coins
  <2>3. total = Cardinality(Coins(balance, fetched \ failures))
    BY <2>1, <2>2, FS_EmptySet
  <2>4. QED
    BY <1>1, <1>2, <1>4, <2>3 DEF MoneyInv, expected_total
<1>5. CASE phase = "reconcile" /\ phase' = "done"
  BY <1>1, <1>2, <1>5 DEF MoneyInv, expected_total
<1>6. CASE phase = "waiting" /\ phase' = "provision"
  BY <1>1, <1>2, <1>6 DEF MoneyInv
<1>7. QED
  BY <1>3, <1>4, <1>5, <1>6 DEF PhaseStep

LEMMA FetchMoney ==
  ASSUME SimInv, MoneyInv, NEW u \in Users, Fetch(u)
  PROVE  MoneyInv'
<1>1. /\ UNCHANGED <<phase, prov, stats, balance>>
      /\ phase = "reconcile"
      /\ u \in users \ fetched /\ fetched' = fetched \cup {u}
      /\ \/ total' = total + balance[u] /\ failures' = failures
         \/ failures' = failures \cup {u} /\ total' = total
  BY DEF Fetch, server
<1>2. users' = users
  BY <1>1 DEF users
<1>3. /\ failures \subseteq fetched /\ fetched \subseteq Users
      /\ balance \in [Users -> Nat]
  BY DEF SimInv, TypeOK, users
<1>4. stats["errors"] = 0 =>
        total' = Cardinality(Coins(balance, fetched' \ failures'))
  <2>1. SUFFICES ASSUME stats["errors"] = 0
                 PROVE  total' = Cardinality(Coins(balance, fetched' \ failures'))
    OBVIOUS
  <2>2. total = Cardinality(Coins(balance, fetched \ failures))
    BY <1>1, <2>1 DEF MoneyInv
  <2>3. CASE total' = total + balance[u] /\ failures' = failures
    <3>1. fetched' \ failures' = (fetched \ failures) \cup {u}
      BY <1>1, <1>3, <2>3
    <3>2. IsFiniteSet(fetched \ failures) /\ u \notin fetched \ failures
      BY <1>1, <1>3, Sizes, FS_Subset
    <3>3. \A v \in (fetched \ failures) \cup {u} : balance[v] \in Nat
      BY <1>3
    <3>4. Cardinality(Coins(balance, (fetched \ failures) \cup {u}))
            = Cardinality(Coins(balance, fetched \ failures)) + balance[u]
      BY <3>2, <3>3, CoinsAdd
    <3>5. QED
      BY <2>2, <2>3, <3>1, <3>4
  <2>4. CASE failures' = failures \cup {u} /\ total' = total
    <3>1. fetched' \ failures' = fetched \ failures
      BY <1>1, <1>3, <2>4
    <3>2. QED
      BY <2>2, <2>4, <3>1
  <2>5. QED
    BY <1>1, <2>3, <2>4
<1>5. QED
  BY <1>1, <1>2, <1>4 DEF MoneyInv, expected_total

LEMMA MoneyStep == SimInv /\ TallyInv /\ MoneyInv /\ [Next]_vars => MoneyInv'
<1> SUFFICES ASSUME SimInv, TallyInv, MoneyInv, [Next]_vars PROVE MoneyInv'
  OBVIOUS
<1>1. CASE ProvisionStep
  <2>1. PICK u \in Users, next \in {"registered", "funded", "ready", "failed"} :
          /\ prov[u] \notin {"ready", "failed"}
          /\ Provision(u, next)
          /\ IF next = "funded" THEN balance' = [balance EXCEPT ![u] = Funding]
                                ELSE balance' = balance
          /\ next = "ready" => prov[u] = "funded"
    BY <1>1 DEF ProvisionStep
  <2>2. phase' = "provision" /\ phase = "provision"
    BY <2>1 DEF Provision, SimInv, Phases, Provisioning
  <2>3. /\ prov' = [prov EXCEPT ![u] = next] /\ balance \in [Users -> Nat]
        /\ prov \in [Users -> {"new", "registered", "funded", "ready", "failed"}]
    BY <2>1 DEF Provision, SimInv, TypeOK
  <2>4. ASSUME NEW v \in Users, prov'[v] \in {"funded", "ready"}
        PROVE  balance'[v] = Funding
    <3>1. CASE v # u
      BY <2>1, <2>2, <2>3, <2>4, <3>1 DEF MoneyInv
    <3>2. CASE v = u
      BY <2>1, <2>2, <2>3, <2>4, <3>2 DEF MoneyInv
    <3>3. QED
      BY <3>1, <3>2
  <2>5. QED
    BY <2>2, <2>4 DEF MoneyInv
<1>2. ASSUME UNCHANGED <<phase, prov, balance, fetched, failures, total>>,
             stats' = stats \/ phase = "transfer"
      PROVE  MoneyInv'
  <2>1. users' = users
    BY <1>2 DEF users
  <2>2. QED
    BY <1>2, <2>1 DEF MoneyInv, expected_total
<1>3. CASE SendStep
  BY <1>2, <1>3 DEF SendStep, Send
<1>4. CASE ReturnStep
  <2>1. PICK i \in Waiting : Return(i)
    BY <1>4 DEF ReturnStep
  <2>2. phase = "transfer"
    BY DEF Waiting, Attempts, SimInv, Phases, TypeOK
  <2>3. QED
    BY <1>2, <2>1, <2>2 DEF Return, server
<1>5. CASE \E i \in Transfers : Expire(i)
  BY <1>2, <1>5 DEF Expire, script
<1>6. CASE UNCHANGED vars
  BY <1>2, <1>6 DEF vars, script, server
<1>7. QED
  BY <1>1, <1>3, <1>4, <1>5, <1>6, StepKinds, MoveMoney, PhaseMoney, FetchMoney

\* "[SUCCESS]" is said after every run in which all users were provisioned, no
\* call ended in an error and every balance came: the transfers only moved
\* money, and none was under way while the balances were added up.
THEOREM VerdictIsExact == Spec => []VerdictExactWhenClean
<1>1. SimInv /\ MoneyInv => VerdictExactWhenClean
  <2> SUFFICES ASSUME SimInv, MoneyInv, phase = "done", users = Users,
                      stats["errors"] = 0, failures = {}
               PROVE  total = expected_total
    BY DEF VerdictExactWhenClean, Matched
  <2>1. fetched \ failures = Users
    BY DEF SimInv, Phases
  <2>2. QED
    BY <2>1 DEF MoneyInv
<1>2. QED
  BY <1>1, InitTally, TallyStep, InitMoney, MoneyStep, SimHolds, PTL DEF Spec

=============================================================================
