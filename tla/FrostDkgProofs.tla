--------------------------- MODULE FrostDkgProofs ---------------------------
(***************************************************************************)
(* Proofs about FrostDkg, for every number of threads, session ids, runs   *)
(* and versions, overlapping calls and restarts included.                  *)
(***************************************************************************)
EXTENDS FrostDkg, TLAPS

-----------------------------------------------------------------------------
(* Types, with the arguments a call has at each of its statements.         *)

ArgsOK ==
    \A t \in Threads :
        /\ pc[t] # "idle" => arg[t].kind \in Kinds /\ arg[t].id \in Ids
        /\ pc[t] = "insert" => arg[t].ver \in Versions
        /\ pc[t] # "idle" /\ arg[t].round = 2 => arg[t].from \in Runs

TypeInv == TypeOK /\ ArgsOK

LEMMA NoArgType == NoArg \in Arg
  BY FrostDkgAssumption DEF NoArg, Arg

LEMMA SessionNotNone == \A x \in Session : x # None
  BY FrostDkgAssumption

LEMMA TypeInit == Init => TypeInv
  <1> SUFFICES ASSUME Init PROVE TypeInv
    OBVIOUS
  <1>1. /\ 0 \in 0..MaxRuns
        /\ \A s \in Ids, k \in Kinds : sessions[k][s] = None
    BY FrostDkgAssumption DEF Init
  <1>2. overlapped \in BOOLEAN
    BY DEF Init
  <1>3. \A t \in Threads : pc[t] = "work" <=> held[t] # None
    BY DEF Init
  <1>4. TypeOK
    BY <1>1, <1>2, <1>3, NoArgType DEF Init, TypeOK
  <1> QED
    BY <1>4 DEF Init, TypeInv, ArgsOK

\* Setting the entry of a call changes that entry only.
LEMMA SetEntryAt ==
    ASSUME TypeInv, NEW t \in Threads, pc[t] # "idle", NEW e, SetEntry(t, e)
    PROVE  /\ \A k \in Kinds, s \in Ids :
                sessions'[k][s] = IF k = arg[t].kind /\ s = arg[t].id
                                  THEN e ELSE sessions[k][s]
           /\ e \in Session \cup {None} =>
                sessions' \in [Kinds -> [Ids -> Session \cup {None}]]
  <1>1. arg[t].kind \in Kinds /\ arg[t].id \in Ids
    BY DEF TypeInv, ArgsOK
  <1>2. sessions \in [Kinds -> [Ids -> Session \cup {None}]]
    BY DEF TypeInv, TypeOK
  <1>3. sessions' = [sessions EXCEPT ![arg[t].kind][arg[t].id] = e]
    BY DEF SetEntry
  <1> QED
    BY <1>1, <1>2, <1>3

Labels == {"idle", "insert", "dispatch", "ttl", "take", "work"}

\* What every step of a call keeps of the types of the calls.
CallTypes == pc \in [Threads -> Labels] /\ arg \in [Threads -> Arg] /\ ArgsOK

LEMMA ReturnTypes ==
    ASSUME TypeInv, NEW t \in Threads, Return(t)
    PROVE  /\ CallTypes'
           /\ \A u \in Threads : pc'[u] = "work" <=> pc[u] = "work" /\ u # t
  BY NoArgType DEF TypeInv, TypeOK, ArgsOK, CallTypes, Labels, Return, Goto

LEMMA GotoTypes ==
    ASSUME TypeInv, NEW t \in Threads, NEW label \in Labels \ {"insert"},
           pc[t] # "idle", Goto(t, label), UNCHANGED arg
    PROVE  /\ CallTypes'
           /\ \A u \in Threads : pc'[u] = IF u = t THEN label ELSE pc[u]
  BY DEF TypeInv, TypeOK, ArgsOK, CallTypes, Labels, Goto

LEMMA EnterTypes ==
    ASSUME TypeInv, NEW t \in Threads, NEW k \in Kinds, NEW s \in Ids,
           NEW label \in {"insert", "dispatch"}, NEW round \in {0, 1, 2, 3},
           NEW v \in Versions \cup {None}, NEW from \in Runs \cup {None},
           label = "insert" => v \in Versions, round = 2 => from \in Runs,
           Enter(t, label, k, s, round, v, from)
    PROVE  TypeInv'
  <1> DEFINE a == [kind |-> k, id |-> s, round |-> round, ver |-> v,
                   from |-> from, aged |-> aged]
  <1>1. aged \in 0..MaxRuns
    BY FrostDkgAssumption DEF TypeInv, TypeOK
  <1>2. a \in Arg
    BY <1>1 DEF Arg
  <1>3. arg' = [arg EXCEPT ![t] = a] /\ pc' = [pc EXCEPT ![t] = label]
        /\ pc[t] = "idle"
    BY DEF Enter, Goto
  <1>4. arg' \in [Threads -> Arg] /\ pc' \in [Threads -> Labels]
    BY <1>2, <1>3 DEF TypeInv, TypeOK, Labels
  <1>5. ArgsOK'
    BY <1>3 DEF TypeInv, TypeOK, ArgsOK
  <1>6. \A u \in Threads : pc'[u] = "work" <=> held'[u] # None
    BY <1>3 DEF Enter, TypeInv, TypeOK
  <1>7. overlapped' \in BOOLEAN
    BY DEF Enter
  <1>8. UNCHANGED <<sessions, held, runs, aged, asked, completed, results, overdue>>
    BY DEF Enter
  <1> QED
    BY <1>4, <1>5, <1>6, <1>7, <1>8 DEF TypeInv, TypeOK, Labels

LEMMA TypeCall ==
    ASSUME TypeInv, NEW t \in Threads, Call(t)
    PROVE  TypeInv'
  <1> PICK k \in Kinds, s \in Ids :
        \/ \E v \in Versions : (k = "keygen" => v = 1) /\ CallRound1(t, k, s, v)
        \/ \E from \in Runs : CallRound2(t, k, s, from)
        \/ \E round \in {0, 3} : CallOther(t, k, s, round)
    BY DEF Call
  <1>1. CASE \E v \in Versions : CallRound1(t, k, s, v)
    BY <1>1, EnterTypes DEF CallRound1
  <1>2. CASE \E from \in Runs : CallRound2(t, k, s, from)
    BY <1>2, EnterTypes DEF CallRound2
  <1>3. CASE \E round \in {0, 3} : CallOther(t, k, s, round)
    BY <1>3, EnterTypes DEF CallOther
  <1> QED
    BY <1>1, <1>2, <1>3

\* A step of a call that keeps what threads hold.
LEMMA TypeNoHand ==
    ASSUME TypeInv, CallTypes', NEW t \in Threads, pc[t] # "work", pc'[t] # "work",
           \A u \in Threads : u # t => pc'[u] = pc[u],
           sessions' \in [Kinds -> [Ids -> Session \cup {None}]],
           UNCHANGED <<held, runs, aged, asked, completed, results, overdue, overlapped>>
    PROVE  TypeInv'
  BY DEF TypeInv, TypeOK, CallTypes, Labels

LEMMA TypeInsert ==
    ASSUME TypeInv, NEW t \in Threads, Insert(t)
    PROVE  TypeInv'
  <1>1. runs + 1 \in Runs /\ runs + 1 \in 0..MaxRuns /\ aged \in 0..(runs + 1)
    BY FrostDkgAssumption DEF TypeInv, TypeOK, Insert, Runs
  <1>2. /\ arg[t].kind \in Kinds /\ arg[t].id \in Ids /\ arg[t].ver \in Versions
        /\ pc[t] = "insert"
    BY DEF TypeInv, ArgsOK, Insert
  <1>3. [run |-> runs', stage |-> 1, ver |-> arg[t].ver, pending |-> runs']
           \in Session
    BY <1>1, <1>2 DEF Insert, Session
  <1>4. sessions' \in [Kinds -> [Ids -> Session \cup {None}]]
    BY <1>2, <1>3, SetEntryAt DEF Insert
  <1>5. asked' \in [Runs -> Ask \cup {None}]
    BY <1>1, <1>2 DEF Insert, TypeInv, TypeOK, Ask
  <1>6. CallTypes' /\ \A u \in Threads : pc'[u] = "work" <=> pc[u] = "work" /\ u # t
    BY ReturnTypes DEF Insert
  <1>7. UNCHANGED <<held, aged, completed, results, overdue, overlapped>> /\ runs' = runs + 1
    BY DEF Insert
  <1> QED
    BY <1>1, <1>2, <1>4, <1>5, <1>6, <1>7 DEF TypeInv, TypeOK, CallTypes, Labels

LEMMA TypeRoute ==
    ASSUME TypeInv, NEW t \in Threads, Dispatch(t) \/ CheckTtl(t) \/ BadPayload(t)
    PROVE  TypeInv'
  <1>1. /\ pc[t] \in {"insert", "dispatch", "ttl", "take"}
        /\ UNCHANGED <<held, runs, aged, asked, completed, results, overdue, overlapped>>
    BY DEF Dispatch, CheckTtl, BadPayload, histVars
  <1>2. /\ CallTypes' /\ pc'[t] # "work"
        /\ \A u \in Threads : u # t => pc'[u] = pc[u]
    <2>1. CASE Return(t)
      BY <2>1, ReturnTypes DEF Return, Goto, TypeInv, TypeOK
    <2>2. CASE /\ \E label \in {"ttl", "take"} : Goto(t, label)
               /\ UNCHANGED arg
      BY <1>1, <2>2, GotoTypes DEF Labels
    <2> QED
      BY <2>1, <2>2 DEF Dispatch, CheckTtl, BadPayload
  <1>3. sessions' \in [Kinds -> [Ids -> Session \cup {None}]]
    BY <1>1, SetEntryAt DEF Dispatch, CheckTtl, BadPayload, TypeInv, TypeOK
  <1> QED
    BY <1>1, <1>2, <1>3, TypeNoHand

LEMMA TypeTake ==
    ASSUME TypeInv, NEW t \in Threads, Take(t)
    PROVE  TypeInv'
  <1>1. /\ pc[t] = "take" /\ UNCHANGED <<runs, aged, asked, completed, results, overdue, overlapped>>
        /\ arg[t].kind \in Kinds /\ arg[t].id \in Ids
    BY DEF Take, histVars, TypeInv, ArgsOK
  <1>2. CASE Return(t) /\ UNCHANGED <<sessions, held>>
    <2>1. /\ CallTypes' /\ pc'[t] # "work"
          /\ \A u \in Threads : u # t => pc'[u] = pc[u]
      BY <1>2, ReturnTypes DEF Return, Goto, TypeInv, TypeOK
    <2>2. sessions' \in [Kinds -> [Ids -> Session \cup {None}]]
      BY <1>2 DEF TypeInv, TypeOK
    <2> QED
      BY <1>1, <1>2, <2>1, <2>2, TypeNoHand
  <1>3. CASE /\ Entry(t) # None /\ held' = [held EXCEPT ![t] = Entry(t)]
             /\ SetEntry(t, None) /\ Goto(t, "work") /\ UNCHANGED arg
    <2>1. Entry(t) \in Session
      BY <1>1, <1>3 DEF Entry, TypeInv, TypeOK
    <2>2. sessions' \in [Kinds -> [Ids -> Session \cup {None}]]
      BY <1>1, <1>3, SetEntryAt
    <2>3. CallTypes' /\ \A u \in Threads : pc'[u] = IF u = t THEN "work" ELSE pc[u]
      BY <1>1, <1>3, GotoTypes DEF Labels
    <2>4. held' \in [Threads -> Session \cup {None}]
      BY <1>3, <2>1 DEF TypeInv, TypeOK
    <2>5. \A u \in Threads : pc'[u] = "work" <=> held'[u] # None
      BY <1>3, <2>3 DEF TypeInv, TypeOK
    <2> QED
      BY <1>1, <2>2, <2>3, <2>4, <2>5 DEF TypeInv, TypeOK, CallTypes, Labels
  <1> QED
    BY <1>2, <1>3 DEF Take

LEMMA TypeWork ==
    ASSUME TypeInv, NEW t \in Threads, PutBack(t) \/ Complete(t) \/ PartFails(t)
    PROVE  TypeInv'
  <1>1. /\ pc[t] = "work" /\ Drop(t) /\ UNCHANGED <<runs, aged, asked, overlapped>>
        /\ arg[t].kind \in Kinds /\ arg[t].id \in Ids
        /\ arg[t].round = 2 => arg[t].from \in Runs
    BY DEF PutBack, Complete, PartFails, histVars, TypeInv, ArgsOK
  <1>2. held[t] \in Session
    BY <1>1 DEF TypeInv, TypeOK
  <1>3. CallTypes' /\ \A u \in Threads : pc'[u] = "work" <=> pc[u] = "work" /\ u # t
    BY <1>1, ReturnTypes DEF Drop
  <1>4. /\ held' \in [Threads -> Session \cup {None}]
        /\ \A u \in Threads : pc'[u] = "work" <=> held'[u] # None
    BY <1>1, <1>3 DEF Drop, TypeInv, TypeOK
  <1>5. sessions' \in [Kinds -> [Ids -> Session \cup {None}]]
    <2>1. CASE PutBack(t)
      <3>1. [held[t] EXCEPT !.stage = 2, !.pending = arg[t].from] \in Session
        BY <1>1, <1>2, <2>1 DEF PutBack, Session
      <3> QED
        BY <1>1, <2>1, <3>1, SetEntryAt DEF PutBack
    <2>2. CASE Complete(t) \/ PartFails(t)
      BY <2>2 DEF Complete, PartFails, TypeInv, TypeOK
    <2> QED
      BY <2>1, <2>2
  <1>6. /\ completed' \in [Runs -> Nat]
        /\ results' \subseteq Done /\ overdue' \subseteq Runs
    <2>1. CASE PutBack(t) \/ PartFails(t)
      BY <2>1 DEF PutBack, PartFails, histVars, TypeInv, TypeOK
    <2>2. CASE Complete(t)
      <3>1. held[t].run \in Runs /\ held[t].ver \in Versions
        BY <1>2 DEF Session
      <3>2. Bump(held[t].ver) \in Versions /\ 1 \in Versions
        BY <3>1, FrostDkgAssumption DEF Bump, Versions
      <3>3. [run |-> held[t].run, kind |-> arg[t].kind, id |-> arg[t].id,
             ver |-> IF arg[t].kind = "keygen" THEN 1 ELSE Bump(held[t].ver)]
               \in Done
        BY <1>1, <3>1, <3>2 DEF Done
      <3> QED
        BY <2>2, <3>1, <3>3 DEF Complete, HandOver, TypeInv, TypeOK
    <2> QED
      BY <2>1, <2>2
  <1> QED
    BY <1>1, <1>3, <1>4, <1>5, <1>6 DEF TypeInv, TypeOK, CallTypes, Labels

LEMMA TypeNext == TypeInv /\ [Next]_vars => TypeInv'
  <1> SUFFICES ASSUME TypeInv, [Next]_vars PROVE TypeInv'
    OBVIOUS
  <1>1. ASSUME NEW t \in Threads, Call(t) \/ Step(t) PROVE TypeInv'
    BY <1>1, TypeCall, TypeInsert, TypeRoute, TypeTake, TypeWork DEF Step
  <1>2. CASE Age
    <2>1. aged' \in 0..runs'
      BY <1>2, FrostDkgAssumption DEF Age, TypeInv, TypeOK
    <2> QED
      BY <1>2, <2>1 DEF Age, histVars, TypeInv, TypeOK, ArgsOK
  <1>3. CASE Restart
    BY <1>3, NoArgType DEF Restart, histVars, TypeInv, TypeOK, ArgsOK
  <1>4. CASE UNCHANGED vars
    BY <1>4 DEF vars, histVars, TypeInv, TypeOK, ArgsOK
  <1> QED
    BY <1>1, <1>2, <1>3, <1>4 DEF Next

\* The variables of FrostDkg stay within their types (TypeOK): a thread holds
\* a session exactly between removing it from the map and returning.
THEOREM TypeCorrect == Spec => []TypeOK
  <1>1. TypeInv => TypeOK
    BY DEF TypeInv
  <1> QED
    BY TypeInit, TypeNext, <1>1, PTL DEF Spec
-----------------------------------------------------------------------------
(* Where the secrets of a run are, and what the entry says of the run.     *)

At(k, s, i) == sessions[k][s] # None /\ sessions[k][s].run = i
With(t, i) == held[t] # None /\ held[t].run = i

\* In one entry, or with one thread, of a run that has not completed.
OneEntry ==
    \A i \in Runs : \A k, l \in Kinds, r, s \in Ids :
        At(k, r, i) /\ At(l, s, i) => k = l /\ r = s
OneHand == \A i \in Runs : \A t, u \in Threads : With(t, i) /\ With(u, i) => t = u
EntryOrHand ==
    \A i \in Runs, k \in Kinds, s \in Ids, t \in Threads : ~(At(k, s, i) /\ With(t, i))

Live(i) == i <= runs /\ completed[i] = 0
OnlyLive ==
    \A i \in Runs : /\ \A k \in Kinds, s \in Ids : At(k, s, i) => Live(i)
                    /\ \A t \in Threads : With(t, i) => Live(i)

Tally == \A i \in Runs : completed[i] <= 1 /\ (i > runs => completed[i] = 0)

\* Protocol, id and version of round 1 travel with the secrets.
Started(i, k, s, v) ==
    asked[i] # None /\ asked[i].kind = k /\ asked[i].id = s /\ asked[i].ver = v
Content ==
    /\ \A k \in Kinds, s \in Ids : sessions[k][s] # None =>
          Started(sessions[k][s].run, k, s, sessions[k][s].ver)
    /\ \A t \in Threads : held[t] # None =>
          Started(held[t].run, arg[t].kind, arg[t].id, held[t].ver)
    /\ \A r \in results : r.run <= runs

\* Past the check of a refresh's round 2, what the call finds at stage 1, or
\* has removed, is a run that had not expired when the call began.
Checked(t) == arg[t].kind = "recover" /\ arg[t].round = 2
OnTime(t) ==
    /\ arg[t].aged <= aged
    /\ pc[t] = "take" /\ Checked(t) /\ Entry(t) # None /\ Entry(t).stage = 1
          => Entry(t).run > arg[t].aged
    /\ pc[t] = "work" /\ Checked(t) /\ held[t].stage = 1
          => held[t].run > arg[t].aged
Unexpired == \A t \in Threads : OnTime(t)

\* If calls of an id do not overlap, entries and hands have its newest run.
Newest(i, k, s) == \A j \in (i + 1)..runs : asked[j].kind # k \/ asked[j].id # s
Overlap(t, u) == /\ pc[t] # "idle" /\ pc[u] # "idle"
                 /\ arg[t].kind = arg[u].kind /\ arg[t].id = arg[u].id
Serial ==
    ~overlapped =>
        /\ \A t, u \in Threads : Overlap(t, u) => t = u
        /\ \A k \in Kinds, s \in Ids : sessions[k][s] # None =>
              Newest(sessions[k][s].run, k, s)
        /\ \A t \in Threads : held[t] # None =>
              Newest(held[t].run, arg[t].kind, arg[t].id)

Secrets == OneEntry /\ OneHand /\ EntryOrHand /\ OnlyLive /\ Tally

Inv == TypeInv /\ Secrets /\ Content /\ ResultIsOfItsRun /\ Unexpired /\ Serial
LEMMA InvInit == Init => Inv
  <1> SUFFICES ASSUME Init PROVE Inv
    OBVIOUS
  <1>1. /\ \A k \in Kinds, s \in Ids : sessions[k][s] = None
        /\ \A t \in Threads : /\ held[t] = None /\ pc[t] = "idle"
                              /\ arg[t].aged = 0
        /\ \A i \in Runs : completed[i] = 0
        /\ results = {} /\ aged = 0
    BY DEF Init, NoArg
  <1>2. Secrets
    BY <1>1 DEF Secrets, OneEntry, OneHand, EntryOrHand, OnlyLive, Tally, At, With
  <1>3. Content /\ ResultIsOfItsRun /\ Unexpired /\ Serial
    BY <1>1 DEF Content, ResultIsOfItsRun, Unexpired, OnTime, Serial, Overlap
  <1> QED
    BY <1>2, <1>3, TypeInit DEF Inv

-----------------------------------------------------------------------------
(* Steps that open no session and move none.                               *)

Fewer ==
    /\ \A k \in Kinds, s \in Ids :
          sessions'[k][s] # None => sessions'[k][s] = sessions[k][s]
    /\ \A u \in Threads :
          held'[u] # None => held'[u] = held[u] /\ arg'[u] = arg[u] /\ pc'[u] = pc[u]

LEMMA FewerSecrets ==
    ASSUME Inv, Fewer, UNCHANGED <<runs, completed>>
    PROVE  Secrets'
  <1>1. /\ \A k \in Kinds, s \in Ids, i \in Runs : At(k, s, i)' => At(k, s, i)
        /\ \A u \in Threads, i \in Runs : With(u, i)' => With(u, i)
    BY DEF Fewer, At, With
  <1>2. OneEntry' /\ OneHand' /\ EntryOrHand'
    BY <1>1 DEF Inv, Secrets, OneEntry, OneHand, EntryOrHand
  <1>3. OnlyLive' /\ Tally'
    BY <1>1 DEF Inv, Secrets, OnlyLive, Tally, Live
  <1> QED
    BY <1>2, <1>3 DEF Secrets

LEMMA FewerContent ==
    ASSUME Inv, Fewer, UNCHANGED <<runs, asked>>,
           \A r \in results' : r.run <= runs
    PROVE  Content'
  BY DEF Inv, Fewer, Content, Started

\* The call of thread t moves: to a statement where it has found nothing yet,
\* or to "take", of an unexpired run if it was to look.
LEMMA Quiet ==
    ASSUME Inv, TypeInv', Fewer, NEW t \in Threads,
           UNCHANGED <<runs, asked, completed, results>>, aged <= aged',
           \A u \in Threads : u # t => pc'[u] = pc[u] /\ arg'[u] = arg[u],
           \/ /\ pc'[t] \in {"idle", "insert", "dispatch", "ttl"}
              /\ arg'[t].aged <= aged'
           \/ /\ pc'[t] = "take" /\ arg'[t] = arg[t] /\ pc[t] # "idle"
              /\ Checked(t) => Entry(t) # None /\ Entry(t).run > aged,
           ~overlapped' => ~overlapped /\ \A u, v \in Threads : Overlap(u, v)' => u = v
    PROVE  Inv'
  <1>1. Secrets' /\ Content' /\ ResultIsOfItsRun'
    BY FewerSecrets, FewerContent DEF Inv, Content, ResultIsOfItsRun
  <1>2. Unexpired'
    <2>1. \A u \in Threads : /\ arg[u].aged \in Nat /\ arg[u].aged <= aged
                             /\ aged \in Nat /\ aged' \in Nat
      BY FrostDkgAssumption DEF Inv, TypeInv, TypeOK, Arg, Unexpired, OnTime
    <2> SUFFICES ASSUME NEW u \in Threads
                 PROVE  /\ arg'[u].aged <= aged'
                        /\ (pc[u] = "take" /\ Checked(u) /\ Entry(u) # None
                            /\ Entry(u).stage = 1 => Entry(u).run > arg[u].aged)'
                        /\ (pc[u] = "work" /\ Checked(u) /\ held[u].stage = 1
                            => held[u].run > arg[u].aged)'
      BY DEF Unexpired, OnTime
    <2>2. arg'[u].aged <= aged'
      BY <2>1
    <2>3. ASSUME pc'[u] = "take"
          PROVE  (Checked(u) /\ Entry(u) # None /\ Entry(u).stage = 1
                    => Entry(u).run > arg[u].aged)'
      <3>1. /\ arg'[u] = arg[u] /\ pc[u] # "idle"
            /\ arg[u].kind \in Kinds /\ arg[u].id \in Ids
        BY <2>3 DEF Inv, TypeInv, ArgsOK
      <3>2. Entry(u)' # None => Entry(u)' = Entry(u)
        BY <3>1 DEF Entry, Fewer
      <3>3. Entry(u) # None => Entry(u).run \in Nat
        BY <3>1, FrostDkgAssumption DEF Entry, Inv, TypeInv, TypeOK, Session, Runs
      <3>4. CASE u = t
        BY <2>1, <2>3, <3>1, <3>2, <3>3, <3>4 DEF Checked
      <3>5. CASE u # t
        BY <2>3, <3>1, <3>2, <3>5 DEF Inv, Unexpired, OnTime, Checked
      <3> QED
        BY <3>4, <3>5
    <2>4. ASSUME pc'[u] = "work"
          PROVE  (Checked(u) /\ held[u].stage = 1 => held[u].run > arg[u].aged)'
      <3>1. held'[u] = held[u] /\ arg'[u] = arg[u] /\ pc[u] = "work"
        BY <2>4 DEF Fewer, TypeInv, TypeOK
      <3> QED
        BY <3>1 DEF Inv, Unexpired, OnTime, Checked
    <2> QED
      BY <2>2, <2>3, <2>4
  <1>3. Serial'
    BY DEF Inv, Serial, Fewer, Newest
  <1> QED
    BY <1>1, <1>2, <1>3 DEF Inv

\* No call begins.
LEMMA SameOverlap ==
    ASSUME Inv, UNCHANGED overlapped,
           \A u \in Threads : pc'[u] # "idle" => pc[u] # "idle" /\ arg'[u] = arg[u]
    PROVE  ~overlapped' => ~overlapped /\ \A u, v \in Threads : Overlap(u, v)' => u = v
  BY DEF Inv, Serial, Overlap

LEMMA InvCall ==
    ASSUME Inv, NEW t \in Threads, Call(t)
    PROVE  Inv'
  <1>1. PICK k \in Kinds, s \in Ids, label \in {"insert", "dispatch"},
             round \in {0, 1, 2, 3}, v \in Versions \cup {None},
             from \in Runs \cup {None} : Enter(t, label, k, s, round, v, from)
    BY DEF Call, CallRound1, CallRound2, CallOther
  <1>2. TypeInv'
    BY TypeCall DEF Inv
  <1>3. /\ arg' = [arg EXCEPT ![t] = [kind |-> k, id |-> s, round |-> round,
                                      ver |-> v, from |-> from, aged |-> aged]]
        /\ pc' = [pc EXCEPT ![t] = label] /\ pc[t] = "idle"
        /\ UNCHANGED <<sessions, held, runs, aged, asked, completed, results>>
    BY <1>1 DEF Enter, Goto, histVars
  <1>4. /\ arg'[t].kind = k /\ arg'[t].id = s /\ arg'[t].aged = aged /\ pc'[t] = label
        /\ \A u \in Threads : u # t => pc'[u] = pc[u] /\ arg'[u] = arg[u]
    BY <1>3 DEF Inv, TypeInv, TypeOK
  <1>5. aged \in Nat
    BY FrostDkgAssumption DEF Inv, TypeInv, TypeOK
  <1>6. Fewer
    BY <1>3, <1>4 DEF Fewer, Inv, TypeInv, TypeOK
  <1>7. ASSUME ~overlapped'
        PROVE  ~overlapped /\ \A u, w \in Threads : Overlap(u, w)' => u = w
    <2>1. ~overlapped /\ \A x \in Threads : arg[x].kind # k \/ arg[x].id # s
      BY <1>1, <1>7 DEF Enter
    <2>2. \A u, w \in Threads : Overlap(u, w) => u = w
      BY <2>1 DEF Inv, Serial
    <2> QED
      BY <1>4, <2>1, <2>2 DEF Overlap
  <1> QED
    BY <1>2, <1>3, <1>4, <1>5, <1>6, <1>7, Quiet

LEMMA InvRoute ==
    ASSUME Inv, NEW t \in Threads, Dispatch(t) \/ CheckTtl(t) \/ BadPayload(t)
    PROVE  Inv'
  <1>1. TypeInv'
    BY TypeRoute DEF Inv
  <1>2. /\ UNCHANGED <<held, runs, aged, asked, completed, results, overlapped>>
        /\ pc[t] # "idle" /\ pc[t] # "work"
    BY DEF Dispatch, CheckTtl, BadPayload, histVars
  <1>3. \A u \in Threads : u # t => pc'[u] = pc[u] /\ arg'[u] = arg[u]
    BY DEF Dispatch, CheckTtl, BadPayload, Return, Goto, Inv, TypeInv, TypeOK
  <1>4. aged \in Nat
    BY FrostDkgAssumption DEF Inv, TypeInv, TypeOK
  <1>5. \/ pc'[t] = "idle" /\ arg'[t].aged <= aged
        \/ pc'[t] = "ttl" /\ arg'[t] = arg[t]
        \/ /\ pc'[t] = "take" /\ arg'[t] = arg[t]
           /\ Checked(t) => Entry(t) # None /\ Entry(t).run > aged
    <2>1. CASE Return(t)
      BY <1>4, <2>1 DEF Return, Goto, NoArg, Inv, TypeInv, TypeOK
    <2>2. CASE Dispatch(t) /\ ~Return(t)
      BY <2>2 DEF Dispatch, Goto, Checked, Inv, TypeInv, TypeOK
    <2>3. CASE CheckTtl(t) /\ ~Return(t)
      <3>1. /\ Entry(t) # None /\ ~(Entry(t).run <= aged)
            /\ Goto(t, "take") /\ UNCHANGED arg
        BY <2>3 DEF CheckTtl
      <3>2. arg[t].kind \in Kinds /\ arg[t].id \in Ids
        BY <1>2 DEF Inv, TypeInv, ArgsOK
      <3>3. Entry(t).run \in Nat
        BY <3>1, <3>2, FrostDkgAssumption
           DEF Entry, Inv, TypeInv, TypeOK, Session, Runs
      <3> QED
        BY <1>4, <3>1, <3>3 DEF Goto, Inv, TypeInv, TypeOK
    <2> QED
      BY <2>1, <2>2, <2>3 DEF BadPayload
  <1>6. Fewer
    <2>1. \A k \in Kinds, s \in Ids :
             sessions'[k][s] # None => sessions'[k][s] = sessions[k][s]
      BY <1>2, SetEntryAt DEF Dispatch, CheckTtl, BadPayload, Inv
    <2>2. held[t] = None
      BY <1>2 DEF Inv, TypeInv, TypeOK
    <2> QED
      BY <1>2, <1>3, <2>1, <2>2 DEF Fewer
  <1>7. ~overlapped' => ~overlapped /\ \A u, v \in Threads : Overlap(u, v)' => u = v
    BY <1>2, <1>3, <1>5, SameOverlap
  <1>8. arg[t].aged <= aged /\ aged <= aged'
    BY <1>2, <1>4 DEF Inv, Unexpired, OnTime
  <1> QED
    BY <1>1, <1>2, <1>3, <1>5, <1>6, <1>7, <1>8, Quiet
-----------------------------------------------------------------------------
(* Steps that open a session, take it, put it back, or complete it.        *)

Sets(k, s, e) ==
    \A l \in Kinds, r \in Ids :
        sessions'[l][r] = IF l = k /\ r = s THEN e ELSE sessions[l][r]

\* A thread is not disturbed by what another one puts into the map, unless it
\* is a stage-1 session of an expired run.
LEMMA Undisturbed ==
    ASSUME Inv, NEW u \in Threads, NEW k \in Kinds, NEW s \in Ids, NEW e,
           Sets(k, s, e),
           pc'[u] = pc[u], arg'[u] = arg[u], held'[u] = held[u], aged' = aged,
           e # None /\ e.stage = 1 => e.run > arg[u].aged
    PROVE  OnTime(u)'
  <1>1. OnTime(u)
    BY DEF Inv, Unexpired
  <1>2. pc[u] # "idle" => arg[u].kind \in Kinds /\ arg[u].id \in Ids
    BY DEF Inv, TypeInv, ArgsOK
  <1> QED
    BY <1>1, <1>2 DEF OnTime, Entry, Checked, Sets

LEMMA Returned ==
    ASSUME Inv, NEW u \in Threads, Return(u), aged' = aged
    PROVE  OnTime(u)'
  <1>1. pc'[u] = "idle" /\ arg'[u].aged = 0 /\ aged \in Nat
    BY FrostDkgAssumption DEF Return, Goto, NoArg, Inv, TypeInv, TypeOK
  <1> QED
    BY <1>1 DEF OnTime

LEMMA InvInsert ==
    ASSUME Inv, NEW t \in Threads, Insert(t)
    PROVE  Inv'
  <1>0. /\ runs + 1 \in Runs /\ arg[t].kind \in Kinds /\ arg[t].id \in Ids
        /\ arg[t].ver \in Versions /\ pc[t] = "insert" /\ held[t] = None
        /\ runs \in Nat /\ aged \in Nat /\ aged <= runs /\ MaxRuns \in Nat
    BY FrostDkgAssumption DEF Inv, TypeInv, TypeOK, ArgsOK, Insert, Runs
  <1> PICK new \in Runs, k \in Kinds, s \in Ids, v \in Versions :
           new = runs + 1 /\ k = arg[t].kind /\ s = arg[t].id /\ v = arg[t].ver
    BY <1>0
  <1> PICK e \in Session : e = [run |-> new, stage |-> 1, ver |-> v, pending |-> new]
    BY DEF Session
  <1> PICK a \in Ask : a = [kind |-> k, id |-> s, ver |-> v]
    BY DEF Ask
  <1>1. runs' = new /\ UNCHANGED <<held, aged, completed, results, overlapped>>
    BY DEF Insert
  <1>2. Sets(k, s, e)
    <2>1. SetEntry(t, e)
      BY <1>1 DEF Insert
    <2> QED
      BY <1>0, <2>1, SetEntryAt DEF Inv, Sets
  <1>3. \A i \in Runs : asked'[i] = IF i = new THEN a ELSE asked[i]
    BY <1>1 DEF Insert, Inv, TypeInv, TypeOK
  <1>4. a # None /\ e # None /\ e.run = new
    BY FrostDkgAssumption
  <1>5. Return(t) /\ pc'[t] = "idle"
        /\ \A u \in Threads : u # t => pc'[u] = pc[u] /\ arg'[u] = arg[u]
    BY DEF Insert, Return, Goto, Inv, TypeInv, TypeOK
  <1>6. /\ \A l \in Kinds, r \in Ids : sessions[l][r] # None =>
              sessions[l][r].run \in Runs /\ sessions[l][r].run <= runs
        /\ \A u \in Threads : held[u] # None =>
              held[u].run \in Runs /\ held[u].run <= runs
    <2>1. /\ \A l \in Kinds, r \in Ids : sessions[l][r] # None => sessions[l][r].run \in Runs
          /\ \A u \in Threads : held[u] # None => held[u].run \in Runs
      BY DEF Inv, TypeInv, TypeOK, Session
    <2> QED
      BY <2>1 DEF Inv, Secrets, OnlyLive, Live, At, With
  <1>7. Secrets'
    <2>1. \A l \in Kinds, r \in Ids, i \in Runs :
             At(l, r, i)' => IF l = k /\ r = s THEN i = new ELSE At(l, r, i)
      BY <1>2, <1>4 DEF At, Sets
    <2>2. \A u \in Threads, i \in Runs : With(u, i)' <=> With(u, i)
      BY <1>1 DEF With
    <2>3. /\ \A l \in Kinds, r \in Ids : ~At(l, r, new)
          /\ \A u \in Threads : ~With(u, new)
          /\ completed[new] = 0
      BY <1>0 DEF Inv, Secrets, OnlyLive, Tally, Live
    <2>4. OneEntry'
      BY <2>1, <2>3 DEF Inv, Secrets, OneEntry
    <2>5. OneHand' /\ EntryOrHand'
      BY <2>1, <2>2, <2>3 DEF Inv, Secrets, OneHand, EntryOrHand
    <2>6. OnlyLive'
      <3>1. Live(new)' /\ \A i \in Runs : Live(i) => Live(i)'
        BY <1>0, <1>1, <2>3 DEF Live, Runs
      <3> QED
        BY <2>1, <2>2, <3>1 DEF Inv, Secrets, OnlyLive
    <2>7. Tally'
      BY <1>0, <1>1 DEF Inv, Secrets, Tally, Runs
    <2> QED
      BY <2>4, <2>5, <2>6, <2>7 DEF Secrets
  <1>8. Content'
    <2>1. \A l \in Kinds, r \in Ids : sessions'[l][r] # None =>
             Started(sessions[l][r].run, l, r, sessions[l][r].ver)'
      <3> SUFFICES ASSUME NEW l \in Kinds, NEW r \in Ids, sessions'[l][r] # None
                   PROVE  Started(sessions[l][r].run, l, r, sessions[l][r].ver)'
        OBVIOUS
      <3>1. CASE l = k /\ r = s
        <4>1. sessions'[l][r].run = new /\ sessions'[l][r].ver = v
          BY <1>2, <3>1 DEF Sets
        <4> QED
          BY <1>3, <1>4, <3>1, <4>1 DEF Started
      <3>2. CASE l # k \/ r # s
        <4>1. sessions'[l][r] = sessions[l][r]
          BY <1>2, <3>2 DEF Sets
        <4>2. sessions[l][r].run \in Runs /\ sessions[l][r].run # new
          BY <1>0, <1>6, <4>1 DEF Runs
        <4> QED
          BY <1>3, <4>1, <4>2 DEF Inv, Content, Started
      <3> QED
        BY <3>1, <3>2
    <2>2. \A u \in Threads : held'[u] # None =>
             Started(held[u].run, arg[u].kind, arg[u].id, held[u].ver)'
      <3>1. \A u \in Threads : held[u] # None =>
               u # t /\ held[u].run \in Runs /\ held[u].run # new
        BY <1>0, <1>6 DEF Runs
      <3> QED
        BY <1>1, <1>3, <1>5, <3>1 DEF Inv, Content, Started
    <2>3. \A r \in results' : r.run <= runs'
      <3>1. \A r \in results : r.run \in Runs /\ r.run <= runs
        BY DEF Inv, TypeInv, TypeOK, Done, Content
      <3> QED
        BY <1>0, <1>1, <3>1 DEF Runs
    <2> QED
      BY <2>1, <2>2, <2>3 DEF Content
  <1>9. ResultIsOfItsRun'
    <2>1. \A r \in results : r.run \in Runs /\ r.run # new
      BY <1>0 DEF Inv, TypeInv, TypeOK, Done, Content, Runs
    <2> QED
      BY <1>1, <1>3, <2>1 DEF Inv, ResultIsOfItsRun
  <1>10. Unexpired'
    <2>1. ASSUME NEW u \in Threads, u # t PROVE OnTime(u)'
      <3>1. arg[u].aged \in Nat /\ arg[u].aged <= aged
        BY FrostDkgAssumption DEF Inv, TypeInv, TypeOK, Arg, Unexpired, OnTime
      <3>2. e # None /\ e.stage = 1 => e.run > arg[u].aged
        BY <1>0, <1>4, <3>1
      <3> QED
        BY <1>1, <1>2, <1>5, <2>1, <3>2, Undisturbed
    <2>2. OnTime(t)'
      BY <1>1, <1>5, Returned
    <2> QED
      BY <2>1, <2>2 DEF Unexpired
  <1>11. Serial'
    <2> SUFFICES ASSUME ~overlapped'
                 PROVE  /\ \A u, w \in Threads : Overlap(u, w)' => u = w
                        /\ \A l \in Kinds, r \in Ids : sessions'[l][r] # None =>
                              Newest(sessions[l][r].run, l, r)'
                        /\ \A u \in Threads : held'[u] # None =>
                              Newest(held[u].run, arg[u].kind, arg[u].id)'
      BY DEF Serial
    <2>1. ~overlapped /\ \A u, w \in Threads : Overlap(u, w)' => u = w
      BY <1>1, <1>5, SameOverlap
    <2>2. ASSUME NEW l \in Kinds, NEW r \in Ids, NEW i \in Runs, i <= runs,
                 Newest(i, l, r), l # k \/ r # s
          PROVE  Newest(i, l, r)'
      <3>1. \A j \in (i + 1)..new : j = new \/ j \in (i + 1)..runs
        BY <1>0 DEF Runs
      <3>2. \A j \in (i + 1)..new : j \in Runs
        BY <1>0 DEF Runs
      <3> QED
        BY <1>1, <1>3, <2>2, <3>1, <3>2 DEF Newest
    <2>3. Newest(new, k, s)'
      BY <1>0, <1>1 DEF Newest
    <2>4. \A l \in Kinds, r \in Ids : sessions'[l][r] # None =>
             Newest(sessions[l][r].run, l, r)'
      <3> SUFFICES ASSUME NEW l \in Kinds, NEW r \in Ids, sessions'[l][r] # None
                   PROVE  Newest(sessions[l][r].run, l, r)'
        OBVIOUS
      <3>1. CASE l = k /\ r = s
        BY <1>2, <1>4, <2>3, <3>1 DEF Newest, Sets
      <3>2. CASE l # k \/ r # s
        <4>1. sessions'[l][r] = sessions[l][r]
          BY <1>2, <3>2 DEF Sets
        <4> PICK i \in Runs : i = sessions[l][r].run /\ i <= runs
          BY <1>6, <4>1
        <4>2. Newest(i, l, r)
          BY <2>1, <4>1 DEF Inv, Serial
        <4>3. Newest(i, l, r)'
          BY <2>2, <3>2, <4>2
        <4> QED
          BY <4>1, <4>3 DEF Newest
      <3> QED
        BY <3>1, <3>2
    <2>5. \A u \in Threads : held'[u] # None =>
             Newest(held[u].run, arg[u].kind, arg[u].id)'
      <3> SUFFICES ASSUME NEW u \in Threads, held'[u] # None
                   PROVE  Newest(held[u].run, arg[u].kind, arg[u].id)'
        OBVIOUS
      <3>1. u # t /\ pc[u] = "work" /\ held[u] # None
        BY <1>0, <1>1 DEF Inv, TypeInv, TypeOK
      <3> PICK l \in Kinds, r \in Ids, i \in Runs :
             l = arg[u].kind /\ r = arg[u].id /\ i = held[u].run /\ i <= runs
        BY <1>6, <3>1 DEF Inv, TypeInv, ArgsOK
      <3>2. l # k \/ r # s
        BY <1>0, <2>1, <3>1 DEF Inv, Serial, Overlap
      <3>3. Newest(i, l, r)
        BY <2>1, <3>1 DEF Inv, Serial
      <3>4. Newest(i, l, r)'
        BY <2>2, <3>2, <3>3
      <3> QED
        BY <1>1, <1>5, <3>1, <3>4 DEF Newest
    <2> QED
      BY <2>1, <2>4, <2>5
  <1>12. TypeInv'
    BY TypeInsert DEF Inv
  <1> QED
    BY <1>7, <1>8, <1>9, <1>10, <1>11, <1>12 DEF Inv
LEMMA InvTake ==
    ASSUME Inv, NEW t \in Threads, Take(t)
    PROVE  Inv'
  <1>0. /\ arg[t].kind \in Kinds /\ arg[t].id \in Ids /\ pc[t] = "take"
        /\ held[t] = None
        /\ UNCHANGED <<runs, aged, asked, completed, results, overlapped>>
        /\ aged \in Nat /\ TypeInv'
    BY FrostDkgAssumption, TypeTake DEF Inv, TypeInv, TypeOK, ArgsOK, Take, histVars
  <1>1. CASE Return(t) /\ UNCHANGED <<sessions, held>>
    <2>1. /\ \A u \in Threads : u # t => pc'[u] = pc[u] /\ arg'[u] = arg[u]
          /\ pc'[t] = "idle" /\ arg'[t].aged = 0
      BY <1>1 DEF Return, Goto, NoArg, Inv, TypeInv, TypeOK
    <2>2. Fewer
      BY <1>0, <1>1, <2>1 DEF Fewer
    <2> QED
      BY <1>0, <2>1, <2>2, SameOverlap, Quiet
  <1>2. CASE /\ Entry(t) # None /\ held' = [held EXCEPT ![t] = Entry(t)]
             /\ SetEntry(t, None) /\ Goto(t, "work") /\ UNCHANGED arg
    <2> PICK k \in Kinds, s \in Ids : k = arg[t].kind /\ s = arg[t].id
      BY <1>0
    <2> PICK e \in Session : e = sessions[k][s] /\ e # None
      BY <1>0, <1>2 DEF Entry, Inv, TypeInv, TypeOK
    <2>1. Sets(k, s, None)
      BY <1>0, <1>2, SetEntryAt DEF Inv, Sets
    <2>2. /\ \A u \in Threads : held'[u] = IF u = t THEN e ELSE held[u]
          /\ \A u \in Threads : pc'[u] = IF u = t THEN "work" ELSE pc[u]
      BY <1>2 DEF Entry, Goto, Inv, TypeInv, TypeOK
    <2>3. Secrets'
      <3>1. \A l \in Kinds, r \in Ids, i \in Runs :
               At(l, r, i)' => ~(l = k /\ r = s) /\ At(l, r, i)
        BY <2>1 DEF At, Sets
      <3>2. \A u \in Threads, i \in Runs :
               With(u, i)' => IF u = t THEN At(k, s, i) ELSE With(u, i)
        BY <2>2 DEF With, At
      <3>3. OneEntry' /\ OneHand' /\ EntryOrHand'
        BY <3>1, <3>2 DEF Inv, Secrets, OneEntry, OneHand, EntryOrHand
      <3>4. OnlyLive' /\ Tally'
        BY <1>0, <3>1, <3>2 DEF Inv, Secrets, OnlyLive, Tally, Live
      <3> QED
        BY <3>3, <3>4 DEF Secrets
    <2>4. Content'
      <3>1. \A l \in Kinds, r \in Ids : sessions'[l][r] # None =>
               sessions'[l][r] = sessions[l][r]
        BY <2>1 DEF Sets
      <3> QED
        BY <1>0, <1>2, <2>2, <3>1 DEF Inv, Content, Started
    <2>5. ResultIsOfItsRun'
      BY <1>0 DEF Inv, ResultIsOfItsRun
    <2>6. Unexpired'
      <3>1. ASSUME NEW u \in Threads, u # t PROVE OnTime(u)'
        BY <1>0, <1>2, <2>1, <2>2, <3>1, Undisturbed
      <3>2. OnTime(t)'
        <4>1. OnTime(t)
          BY DEF Inv, Unexpired
        <4> QED
          BY <1>0, <1>2, <2>2, <4>1 DEF OnTime, Checked, Entry
      <3> QED
        BY <3>1, <3>2 DEF Unexpired
    <2>7. Serial'
      <3>1. \A l \in Kinds, r \in Ids : sessions'[l][r] # None =>
               sessions'[l][r] = sessions[l][r]
        BY <2>1 DEF Sets
      <3>2. ~overlapped' => ~overlapped /\ \A u, w \in Threads : Overlap(u, w)' => u = w
        BY <1>0, <1>2, <2>2, SameOverlap
      <3> QED
        BY <1>0, <1>2, <2>2, <3>1, <3>2 DEF Inv, Serial, Newest
    <2> QED
      BY <1>0, <2>3, <2>4, <2>5, <2>6, <2>7 DEF Inv
  <1> QED
    BY <1>1, <1>2 DEF Take

LEMMA InvPutBack ==
    ASSUME Inv, NEW t \in Threads, PutBack(t)
    PROVE  Inv'
  <1>0. /\ arg[t].kind \in Kinds /\ arg[t].id \in Ids /\ pc[t] = "work"
        /\ arg[t].from \in Runs /\ held[t] \in Session /\ held[t] # None
        /\ UNCHANGED <<runs, aged, asked, completed, results, overlapped>>
        /\ aged \in Nat /\ TypeInv'
    <2>1. /\ pc[t] = "work" /\ arg[t].round = 2
          /\ UNCHANGED <<runs, aged, asked, completed, results, overlapped>>
      BY DEF PutBack, histVars
    <2>2. aged \in Nat
      BY FrostDkgAssumption DEF Inv, TypeInv, TypeOK
    <2>3. TypeInv'
      BY TypeWork DEF Inv
    <2> QED
      BY <2>1, <2>2, <2>3 DEF Inv, TypeInv, TypeOK, ArgsOK
  <1> PICK k \in Kinds, s \in Ids : k = arg[t].kind /\ s = arg[t].id
    BY <1>0
  <1>1. [held[t] EXCEPT !.stage = 2, !.pending = arg[t].from] \in Session
    BY <1>0 DEF Session
  <1> PICK e \in Session : e = [held[t] EXCEPT !.stage = 2, !.pending = arg[t].from]
    BY <1>1
  <1>2. e.run = held[t].run /\ e.ver = held[t].ver /\ e.stage = 2 /\ e # None
    BY <1>0, SessionNotNone DEF Session
  <1>3. Sets(k, s, e)
    BY <1>0, SetEntryAt DEF PutBack, Inv, Sets
  <1>4. Return(t) /\ pc'[t] = "idle" /\ held'[t] = None
        /\ \A u \in Threads : u # t =>
              pc'[u] = pc[u] /\ arg'[u] = arg[u] /\ held'[u] = held[u]
    BY DEF PutBack, Drop, Return, Goto, Inv, TypeInv, TypeOK
  <1>5. Secrets'
    <2>1. \A l \in Kinds, r \in Ids, i \in Runs :
             At(l, r, i)' => IF l = k /\ r = s THEN With(t, i) ELSE At(l, r, i)
      BY <1>0, <1>2, <1>3 DEF At, With, Sets
    <2>2. \A u \in Threads, i \in Runs : With(u, i)' => u # t /\ With(u, i)
      BY <1>4 DEF With
    <2>3. OneEntry' /\ OneHand'
      BY <2>1, <2>2 DEF Inv, Secrets, OneEntry, OneHand, EntryOrHand
    <2>4. EntryOrHand'
      BY <2>1, <2>2 DEF Inv, Secrets, OneHand, EntryOrHand
    <2>5. OnlyLive' /\ Tally'
      BY <1>0, <2>1, <2>2 DEF Inv, Secrets, OnlyLive, Tally, Live
    <2> QED
      BY <2>3, <2>4, <2>5 DEF Secrets
  <1>6. Content'
    <2>1. \A l \in Kinds, r \in Ids : sessions'[l][r] # None =>
             Started(sessions[l][r].run, l, r, sessions[l][r].ver)'
      <3>1. Started(held[t].run, k, s, held[t].ver)
        BY <1>0 DEF Inv, Content
      <3> SUFFICES ASSUME NEW l \in Kinds, NEW r \in Ids, sessions'[l][r] # None
                   PROVE  Started(sessions[l][r].run, l, r, sessions[l][r].ver)'
        OBVIOUS
      <3>2. CASE l = k /\ r = s
        BY <1>0, <1>2, <1>3, <3>1, <3>2 DEF Sets, Started
      <3>3. CASE l # k \/ r # s
        BY <1>0, <1>3, <3>3 DEF Sets, Inv, Content, Started
      <3> QED
        BY <3>2, <3>3
    <2>2. \A u \in Threads : held'[u] # None =>
             Started(held[u].run, arg[u].kind, arg[u].id, held[u].ver)'
      BY <1>0, <1>4 DEF Inv, Content, Started
    <2> QED
      BY <1>0, <2>1, <2>2 DEF Inv, Content
  <1>7. ResultIsOfItsRun'
    BY <1>0 DEF Inv, ResultIsOfItsRun
  <1>8. Unexpired'
    <2>1. ASSUME NEW u \in Threads, u # t PROVE OnTime(u)'
      <3>1. ~(e # None /\ e.stage = 1)
        BY <1>2
      <3>2. pc'[u] = pc[u] /\ arg'[u] = arg[u] /\ held'[u] = held[u] /\ aged' = aged
        BY <1>0, <1>4, <2>1
      <3> QED
        BY <1>3, <3>1, <3>2, Undisturbed
    <2>2. OnTime(t)'
      BY <1>0, <1>4, Returned
    <2> QED
      BY <2>1, <2>2 DEF Unexpired
  <1>9. Serial'
    <2> SUFFICES ASSUME ~overlapped'
                 PROVE  /\ \A u, w \in Threads : Overlap(u, w)' => u = w
                        /\ \A l \in Kinds, r \in Ids : sessions'[l][r] # None =>
                              Newest(sessions[l][r].run, l, r)'
                        /\ \A u \in Threads : held'[u] # None =>
                              Newest(held[u].run, arg[u].kind, arg[u].id)'
      BY DEF Serial
    <2>1. ~overlapped /\ \A u, w \in Threads : Overlap(u, w)' => u = w
      BY <1>0, <1>4, SameOverlap
    <2>2. Newest(held[t].run, k, s)
      BY <1>0, <2>1 DEF Inv, Serial
    <2>3. \A l \in Kinds, r \in Ids : sessions'[l][r] # None =>
             Newest(sessions[l][r].run, l, r)'
      <3> SUFFICES ASSUME NEW l \in Kinds, NEW r \in Ids, sessions'[l][r] # None
                   PROVE  Newest(sessions[l][r].run, l, r)'
        OBVIOUS
      <3>1. CASE l = k /\ r = s
        BY <1>0, <1>2, <1>3, <2>2, <3>1, ZenonT(60) DEF Sets, Newest
      <3>2. CASE l # k \/ r # s
        BY <1>0, <1>3, <2>1, <3>2 DEF Sets, Newest, Inv, Serial
      <3> QED
        BY <3>1, <3>2
    <2>4. \A u \in Threads : held'[u] # None =>
             Newest(held[u].run, arg[u].kind, arg[u].id)'
      BY <1>0, <1>4, <2>1 DEF Newest, Inv, Serial
    <2> QED
      BY <2>1, <2>3, <2>4
  <1> QED
    BY <1>0, <1>5, <1>6, <1>7, <1>8, <1>9 DEF Inv

\* A call that holds a session returns without it.
LEMMA DropFewer ==
    ASSUME Inv, NEW t \in Threads, Drop(t), UNCHANGED <<sessions, overlapped>>
    PROVE  /\ Fewer /\ held'[t] = None
           /\ pc'[t] = "idle" /\ arg'[t].aged = 0
           /\ \A u \in Threads : u # t => pc'[u] = pc[u] /\ arg'[u] = arg[u]
           /\ ~overlapped' => ~overlapped /\ \A u, v \in Threads : Overlap(u, v)' => u = v
  <1>1. /\ pc'[t] = "idle" /\ arg'[t].aged = 0 /\ held'[t] = None
        /\ \A u \in Threads : u # t =>
              pc'[u] = pc[u] /\ arg'[u] = arg[u] /\ held'[u] = held[u]
    BY DEF Drop, Return, Goto, NoArg, Inv, TypeInv, TypeOK
  <1>2. Fewer
    BY <1>1 DEF Fewer
  <1>3. ~overlapped' => ~overlapped /\ \A u, v \in Threads : Overlap(u, v)' => u = v
    BY <1>1, SameOverlap
  <1> QED
    BY <1>1, <1>2, <1>3

LEMMA InvPartFails ==
    ASSUME Inv, NEW t \in Threads, PartFails(t)
    PROVE  Inv'
  <1>1. Drop(t) /\ UNCHANGED <<sessions, runs, aged, asked, completed, results, overlapped>>
    BY DEF PartFails, histVars
  <1>2. aged \in Nat /\ TypeInv'
    BY FrostDkgAssumption, TypeWork DEF Inv, TypeInv, TypeOK
  <1> QED
    BY <1>1, <1>2, DropFewer, Quiet

LEMMA InvComplete ==
    ASSUME Inv, NEW t \in Threads, Complete(t)
    PROVE  Inv'
  <1>0. /\ arg[t].kind \in Kinds /\ arg[t].id \in Ids /\ pc[t] = "work"
        /\ held[t] \in Session /\ held[t] # None
        /\ Drop(t) /\ UNCHANGED <<sessions, runs, aged, asked, overlapped>>
        /\ aged \in Nat /\ TypeInv'
    BY FrostDkgAssumption, TypeWork
       DEF Inv, TypeInv, TypeOK, ArgsOK, Complete, histVars
  <1> PICK i \in Runs, k \in Kinds, s \in Ids, v \in Versions :
           i = held[t].run /\ k = arg[t].kind /\ s = arg[t].id /\ v = held[t].ver
    BY <1>0 DEF Session
  <1>1. /\ Fewer /\ held'[t] = None
        /\ pc'[t] = "idle" /\ arg'[t].aged = 0
        /\ \A u \in Threads : u # t => pc'[u] = pc[u] /\ arg'[u] = arg[u]
        /\ ~overlapped' => ~overlapped /\ \A u, w \in Threads : Overlap(u, w)' => u = w
    BY <1>0, DropFewer
  <1>2. /\ \A j \in Runs :
              completed'[j] = IF j = i THEN completed[i] + 1 ELSE completed[j]
        /\ results' = results \cup
              {[run |-> i, kind |-> k, id |-> s,
                ver |-> IF k = "keygen" THEN 1 ELSE Bump(v)]}
    BY DEF Complete, HandOver, Inv, TypeInv, TypeOK
  <1>3. With(t, i) /\ Live(i) /\ Started(i, k, s, v)
    BY <1>0 DEF With, Inv, Secrets, OnlyLive, Content
  <1>4. Secrets'
    <2>1. /\ \A l \in Kinds, r \in Ids, j \in Runs :
                At(l, r, j)' => At(l, r, j) /\ j # i
          /\ \A u \in Threads, j \in Runs : With(u, j)' => With(u, j) /\ j # i
      BY <1>1, <1>3
         DEF Fewer, At, With, Inv, Secrets, OneHand, EntryOrHand
    <2>2. OneEntry' /\ OneHand' /\ EntryOrHand'
      BY <2>1 DEF Inv, Secrets, OneEntry, OneHand, EntryOrHand
    <2>3. OnlyLive'
      BY <1>0, <1>2, <2>1 DEF Inv, Secrets, OnlyLive, Live
    <2>4. Tally'
      BY <1>0, <1>2, <1>3, FrostDkgAssumption
         DEF Inv, TypeInv, TypeOK, Secrets, Tally, Live, Runs
    <2> QED
      BY <2>2, <2>3, <2>4 DEF Secrets
  <1>5. Content'
    <2>1. \A r \in results' : r.run <= runs
      BY <1>2, <1>3 DEF Inv, Content, Live
    <2> QED
      BY <1>0, <1>1, <2>1, FewerContent
  <1>6. ResultIsOfItsRun'
    BY <1>0, <1>2, <1>3 DEF Inv, ResultIsOfItsRun, Started
  <1>7. Unexpired'
    <2>1. ASSUME NEW u \in Threads, u # t PROVE OnTime(u)'
      <3>1. OnTime(u)
        BY DEF Inv, Unexpired
      <3>2. pc'[u] = pc[u] /\ arg'[u] = arg[u] /\ held'[u] = held[u]
        BY <1>0, <1>1, <2>1 DEF Drop, Inv, TypeInv, TypeOK
      <3> QED
        BY <1>0, <3>1, <3>2 DEF OnTime, Entry, Checked
    <2>2. OnTime(t)'
      BY <1>0, <1>1 DEF OnTime
    <2> QED
      BY <2>1, <2>2 DEF Unexpired
  <1>8. Serial'
    BY <1>0, <1>1 DEF Inv, Serial, Fewer, Newest
  <1> QED
    BY <1>0, <1>4, <1>5, <1>6, <1>7, <1>8 DEF Inv
LEMMA InvAge == Inv /\ Age => Inv'
  <1> SUFFICES ASSUME Inv, Age PROVE Inv'
    OBVIOUS
  <1>1. /\ UNCHANGED <<sessions, pc, arg, held, runs, asked, completed, results, overlapped>>
        /\ aged' = aged + 1 /\ aged \in Nat /\ TypeInv'
    BY TypeNext, FrostDkgAssumption DEF Age, Next, histVars, Inv, TypeInv, TypeOK
  <1>2. Fewer
    BY <1>1 DEF Fewer
  <1>3. Secrets' /\ Content' /\ ResultIsOfItsRun'
    BY <1>1, <1>2, FewerSecrets, FewerContent DEF Inv, Content, ResultIsOfItsRun
  <1>4. Unexpired'
    <2>1. \A t \in Threads : arg[t].aged \in 0..MaxRuns /\ arg[t].aged <= aged
      BY DEF Inv, TypeInv, TypeOK, Arg, Unexpired, OnTime
    <2>2. \A t \in Threads : arg[t].aged <= aged'
      BY <1>1, <2>1, FrostDkgAssumption
    <2> QED
      BY <1>1, <2>2 DEF Inv, Unexpired, OnTime, Entry, Checked
  <1>5. Serial'
    BY <1>1 DEF Inv, Serial, Overlap, Newest
  <1> QED
    BY <1>1, <1>3, <1>4, <1>5 DEF Inv

LEMMA InvRestart == Inv /\ Restart => Inv'
  <1> SUFFICES ASSUME Inv, Restart PROVE Inv'
    OBVIOUS
  <1>1. /\ UNCHANGED <<runs, aged, asked, completed, results>>
        /\ \A k \in Kinds, s \in Ids : sessions'[k][s] = None
        /\ \A t \in Threads : /\ held'[t] = None /\ pc'[t] = "idle"
                              /\ arg'[t].aged = 0
    BY DEF Restart, NoArg, histVars
  <1>2. aged \in Nat
    BY FrostDkgAssumption DEF Inv, TypeInv, TypeOK
  <1>3. TypeInv'
    BY TypeNext DEF Next, Inv
  <1>4. Fewer
    BY <1>1 DEF Fewer
  <1>5. Secrets' /\ Content' /\ ResultIsOfItsRun'
    BY <1>1, <1>4, FewerSecrets, FewerContent DEF Inv, Content, ResultIsOfItsRun
  <1>6. Unexpired' /\ Serial'
    BY <1>1, <1>2 DEF Unexpired, OnTime, Serial, Overlap
  <1> QED
    BY <1>3, <1>5, <1>6 DEF Inv

LEMMA InvNext == Inv /\ [Next]_vars => Inv'
  <1> SUFFICES ASSUME Inv, [Next]_vars PROVE Inv'
    OBVIOUS
  <1>1. ASSUME NEW t \in Threads, Call(t) \/ Step(t) PROVE Inv'
    BY <1>1, InvCall, InvInsert, InvRoute, InvTake, InvPutBack, InvComplete,
       InvPartFails DEF Step
  <1>2. CASE UNCHANGED vars
    <2>1. UNCHANGED <<sessions, pc, arg, held, runs, aged, asked, completed, results,
                      overlapped>>
      BY <1>2 DEF vars, histVars
    <2>2. TypeInv'
      BY <1>2, TypeNext DEF Inv
    <2>3. Secrets'
      BY <2>1 DEF Inv, Secrets, OneEntry, OneHand, EntryOrHand, OnlyLive, Tally,
                  At, With, Live
    <2>4. Content' /\ ResultIsOfItsRun' /\ Unexpired' /\ Serial'
      BY <2>1 DEF Inv, Content, Started, ResultIsOfItsRun, Unexpired, OnTime, Checked,
                  Entry, Serial, Overlap, Newest
    <2> QED
      BY <2>2, <2>3, <2>4 DEF Inv
  <1> QED
    BY <1>1, <1>2, InvAge, InvRestart DEF Next

THEOREM Invariance == Spec => []Inv
  BY InvInit, InvNext, PTL DEF Spec

-----------------------------------------------------------------------------
(* The properties.                                                         *)

\* The secrets of a run are in one map entry, or with the one thread that
\* removed them, or gone, and yield at most one share (SecretsHaveOneOwner):
\* overlapping rounds 2 and 0, replaced sessions and restarts included.
THEOREM SecretsStayWithOneOwner == Spec => []SecretsHaveOneOwner
  <1>1. Inv => SecretsHaveOneOwner
    <2> SUFFICES ASSUME Inv, NEW i \in Runs
                 PROVE  LET Entries == {p \in Kinds \X Ids :
                                           sessions[p[1]][p[2]] # None
                                           /\ sessions[p[1]][p[2]].run = i}
                            Hands == {t \in Threads : held[t] # None /\ held[t].run = i}
                        IN  /\ \A p, q \in Entries : p = q
                            /\ \A t, u \in Hands : t = u
                            /\ Entries = {} \/ Hands = {}
                            /\ completed[i] > 0 => /\ completed[i] = 1
                                                   /\ Entries = {} /\ Hands = {}
      BY DEF SecretsHaveOneOwner
    <2> DEFINE Entries == {p \in Kinds \X Ids : sessions[p[1]][p[2]] # None
                                               /\ sessions[p[1]][p[2]].run = i}
               Hands == {t \in Threads : held[t] # None /\ held[t].run = i}
    <2>1. /\ \A p \in Entries : /\ p[1] \in Kinds /\ p[2] \in Ids
                                /\ p = <<p[1], p[2]>> /\ At(p[1], p[2], i)
          /\ \A t \in Hands : t \in Threads /\ With(t, i)
      BY DEF At, With
    <2> HIDE DEF Entries, Hands
    <2>2. \A p, q \in Entries : p = q
      BY <2>1 DEF Inv, Secrets, OneEntry
    <2>3. \A t, u \in Hands : t = u
      BY <2>1 DEF Inv, Secrets, OneHand
    <2>4. Entries = {} \/ Hands = {}
      BY <2>1 DEF Inv, Secrets, EntryOrHand
    <2>5. ASSUME completed[i] > 0
          PROVE  completed[i] = 1 /\ Entries = {} /\ Hands = {}
      <3>1. completed[i] \in Nat /\ completed[i] <= 1
        BY DEF Inv, TypeInv, TypeOK, Secrets, Tally
      <3>2. ~Live(i)
        BY <2>5, <3>1 DEF Live
      <3> QED
        BY <2>1, <2>5, <3>1, <3>2 DEF Inv, Secrets, OnlyLive
    <2> QED
      BY <2>2, <2>3, <2>4, <2>5 DEF Entries, Hands
  <1> QED
    BY <1>1, Invariance, PTL

\* A new or refreshed share is handed out for the protocol and session id its
\* run was started with, with one more than that run's version.
THEOREM ResultsAreOfTheirRun == Spec => []ResultIsOfItsRun
  <1>1. Inv => ResultIsOfItsRun
    BY DEF Inv
  <1> QED
    BY <1>1, Invariance, PTL

\* The check of created_at in round 2 of recover and the removal are under two
\* locks; still, a call moves no run on that had expired before it began: what
\* can come in between is newer, or has its round 2 behind it.
THEOREM ExpiredRefreshStays == Spec => StaleRefreshNotAdvanced
  <1> DEFINE A == \A t \in Threads :
          pc[t] = "work" /\ pc'[t] = "idle" /\ arg[t].kind = "recover"
          /\ sessions'["recover"][arg[t].id] # None
          /\ sessions'["recover"][arg[t].id].run = held[t].run
            => held[t].run > arg[t].aged
  <1>1. Inv /\ [Next]_vars => A
    <2> SUFFICES ASSUME Inv, [Next]_vars, NEW t \in Threads,
                        pc[t] = "work", pc'[t] = "idle", arg[t].kind = "recover",
                        sessions'["recover"][arg[t].id] # None,
                        sessions'["recover"][arg[t].id].run = held[t].run
                 PROVE  held[t].run > arg[t].aged
      OBVIOUS
    <2>1. held[t] \in Session /\ held[t] # None /\ arg[t].id \in Ids
          /\ "recover" \in Kinds
      BY DEF Inv, TypeInv, TypeOK, ArgsOK, Kinds
    <2>2. ~UNCHANGED sessions
      <3>1. held[t].run \in Runs /\ With(t, held[t].run)
        BY <2>1 DEF Session, With
      <3> QED
        BY <2>1, <3>1 DEF Inv, Secrets, EntryOrHand, At
    <2>3. ASSUME NEW u \in Threads, Call(u) \/ Step(u)
          PROVE  u = t /\ PutBack(t)
      <3>1. u = t
        BY <2>3 DEF Call, Step, CallRound1, CallRound2, CallOther, Enter, Insert,
                    Dispatch, CheckTtl, BadPayload, Take, PutBack, Complete,
                    PartFails, Drop, Return, Goto, Inv, TypeInv, TypeOK
      <3>2. ~(Complete(t) \/ PartFails(t))
        BY <2>2 DEF Complete, PartFails
      <3> QED
        BY <2>3, <3>1, <3>2 DEF Call, Step, CallRound1, CallRound2, CallOther,
                    Enter, Insert, Dispatch, CheckTtl, BadPayload, Take
    <2>4. ~Age /\ ~UNCHANGED vars
      BY <2>2 DEF Age, vars
    <2>5. ~Restart
      BY <2>1 DEF Restart
    <2>6. PutBack(t)
      BY <2>3, <2>4, <2>5 DEF Next
    <2> QED
      BY <2>6 DEF PutBack, Inv, Unexpired, OnTime, Checked
  <1> QED
    BY <1>1, Invariance, PTL DEF Spec, StaleRefreshNotAdvanced

\* As long as the host has overlapped no calls of one id, the share handed over
\* is that of the newest run with its id: a retry from round 1 replaces what
\* was there.
THEOREM RetryCompletes == Spec => NewestRunCompletes
  <1> DEFINE A == \A t \in Threads :
          ~overlapped /\ pc[t] = "work" /\ pc'[t] = "idle" /\ results' # results
            => \A i \in (held[t].run + 1)..runs :
                  asked[i].kind # arg[t].kind \/ asked[i].id # arg[t].id
  <1>1. Inv => [A]_vars
    BY DEF Inv, TypeInv, TypeOK, Serial, Newest
  <1> QED
    BY <1>1, Invariance, PTL DEF NewestRunCompletes
=============================================================================
