--------------------------- MODULE FrostSignProofs ---------------------------
(***************************************************************************)
(* Proofs about FrostSign, for every number of threads, session ids, keys, *)
(* messages and calls, restarts included.                                  *)
(***************************************************************************)
EXTENDS FrostSign, TLAPS

-----------------------------------------------------------------------------
(* Types, with the arguments a call has at each of its statements.         *)

ArgsOK ==
    \A t \in Threads :
        /\ pc[t] \in {"check", "commit"} =>
              /\ arg[t].id \in Ids /\ arg[t].key \in Keys
              /\ arg[t].msg \in Msgs /\ arg[t].inst \in Insts
        /\ pc[t] \in {"dispatch", "take", "finish"} =>
              arg[t].id \in Ids /\ arg[t].msg \in Msgs
        /\ pc[t] = "export" => arg[t].key \in Keys

TypeInv == TypeOK /\ ArgsOK

LEMMA NoArgType == NoArg \in Arg
  BY DEF NoArg, Arg

LEMMA SessionNotNone == \A x \in Session : x # None
  BY FrostSignAssumption

LEMMA TypeInit == Init => TypeInv
  BY NoArgType, FrostSignAssumption
     DEF Init, TypeInv, TypeOK, ArgsOK, Insts

LEMMA TypeCall ==
    ASSUME TypeInv, NEW t \in Threads, Call(t)
    PROVE  TypeInv'
  <1> USE DEF TypeInv, TypeOK, ArgsOK, Enter, Goto, Arg, NoArg, signVars,
              openVars
  <1>1. CASE \E s \in Ids, k \in Keys, m \in Msgs : CallRound1(t, s, k, m)
    <2> PICK s \in Ids, k \in Keys, m \in Msgs : CallRound1(t, s, k, m)
      BY <1>1
    <2>1. opened' \in Insts /\ opened' = opened + 1
      BY FrostSignAssumption DEF CallRound1, Insts
    <2>2. arg' = [arg EXCEPT ![t] =
                    [id |-> s, key |-> k, msg |-> m, inst |-> opened',
                     known |-> exported]]
      BY DEF CallRound1
    <2>3. arg'[t] \in Arg
      BY <2>1, <2>2
    <2>4. late' \subseteq Insts /\ overdue' \subseteq Insts
      BY <2>1 DEF CallRound1
    <2>5. opened' \in 0..MaxOpen
      BY <2>1 DEF Insts
    <2>6. asked' \in [Insts -> Ask \cup {None}]
      BY <2>1 DEF CallRound1, Ask
    <2> QED
      BY <2>1, <2>2, <2>3, <2>4, <2>5, <2>6 DEF CallRound1
  <1>2. CASE \E s \in Ids, m \in Msgs : CallRound2(t, s, m)
    BY <1>2 DEF CallRound2
  <1>3. CASE \E k \in Keys : CallExport(t, k)
    BY <1>3 DEF CallExport
  <1> QED
    BY <1>1, <1>2, <1>3 DEF Call

LEMMA TypeStep ==
    ASSUME TypeInv, NEW t \in Threads, Step(t)
    PROVE  TypeInv'
  <1> USE NoArgType
      DEF TypeInv, TypeOK, ArgsOK, Return, Goto, histVars, openVars, signVars
  <1>1. CASE CheckExported(t)
    BY <1>1 DEF CheckExported
  <1>2. CASE Commit(t)
    BY <1>2, FrostSignAssumption DEF Commit, Session
  <1>3. CASE Dispatch(t)
    BY <1>3 DEF Dispatch
  <1>4. CASE BadPayload(t)
    BY <1>4 DEF BadPayload
  <1>5. CASE Take(t)
    BY <1>5 DEF Take
  <1>6. CASE Refuse(t)
    BY <1>6 DEF Refuse, Drop
  <1>7. CASE Sign(t)
    <2>1. held[t] \in Session
      BY <1>7 DEF Sign
    <2>2. spent' \in [Insts -> Nat]
      BY <1>7, <2>1 DEF Sign, Session
    <2>3. signatures' \subseteq [inst : Insts, key : Keys, msg : Msgs]
      BY <1>7, <2>1 DEF Sign, Session
    <2> QED
      BY <1>7, <2>2, <2>3 DEF Sign, Drop
  <1>8. CASE Export(t)
    BY <1>8 DEF Export
  <1>9. CASE ExportFails(t)
    BY <1>9 DEF ExportFails
  <1> QED
    BY <1>1, <1>2, <1>3, <1>4, <1>5, <1>6, <1>7, <1>8, <1>9 DEF Step

LEMMA TypeNext == TypeInv /\ [Next]_vars => TypeInv'
  <1> SUFFICES ASSUME TypeInv, [Next]_vars PROVE TypeInv'
    OBVIOUS
  <1>1. CASE Restart
    BY <1>1, NoArgType
       DEF Restart, TypeInv, TypeOK, ArgsOK, histVars, openVars, signVars
  <1>2. CASE UNCHANGED vars
    BY <1>2 DEF vars, TypeInv, TypeOK, ArgsOK, histVars, openVars, signVars
  <1> QED
    BY <1>1, <1>2, TypeCall, TypeStep DEF Next

\* Every variable keeps its type, and a thread holds a session exactly between
\* removing it from FROST_SIGN_SESSIONS and returning.
THEOREM TypeCorrect == Spec => []TypeOK
  <1>1. TypeInv => TypeOK
    BY DEF TypeInv
  <1> QED
    BY <1>1, TypeInit, TypeNext, PTL DEF Spec

-----------------------------------------------------------------------------
(* Where nonces are: not yet committed to by a call at "check" or "commit", *)
(* in the map, in a thread's hand, or spent; never in two of those places.  *)

Fresh(t) == pc[t] \in {"check", "commit"}
InMap(s, i) == sessions[s] # None /\ sessions[s].inst = i
InHand(t, i) == held[t] # None /\ held[t].inst = i

OnePlace ==
    /\ \A i \in Insts : \A s1, s2 \in Ids : InMap(s1, i) /\ InMap(s2, i) => s1 = s2
    /\ \A i \in Insts : \A t1, t2 \in Threads :
          InHand(t1, i) /\ InHand(t2, i) => t1 = t2
    /\ \A i \in Insts, s \in Ids, t \in Threads : ~(InMap(s, i) /\ InHand(t, i))

SpentOnce ==
    \A i \in Insts :
        /\ spent[i] \in {0, 1}
        /\ spent[i] = 1 => /\ \A s \in Ids : ~InMap(s, i)
                           /\ \A t \in Threads : ~InHand(t, i)

\* The instance of a call that has not committed yet is its own.
FreshOnes ==
    \A t \in Threads : Fresh(t) =>
        /\ arg[t].inst <= opened /\ ~Open(arg[t].inst)
        /\ \A u \in Threads : Fresh(u) /\ arg[u].inst = arg[t].inst => u = t

\* Only calls already made have opened a session or are marked late.
Made ==
    /\ \A i \in Insts : Open(i) \/ i \in late => i <= opened
    /\ \A g \in signatures : g.inst <= opened

\* What the host asked for travels with the nonces.
Asked(i, k, m) == asked[i] # None /\ asked[i].key = k /\ asked[i].msg = m
Content ==
    /\ \A t \in Threads : Fresh(t) => Asked(arg[t].inst, arg[t].key, arg[t].msg)
    /\ \A s \in Ids : sessions[s] # None =>
          Asked(sessions[s].inst, sessions[s].key, sessions[s].msg)
    /\ \A t \in Threads : held[t] # None =>
          Asked(held[t].inst, held[t].key, held[t].msg)
    /\ \A g \in signatures : Asked(g.inst, g.key, g.msg)

\* A late call finds its key still exported when it reaches the guard.
LateOnes ==
    /\ \A i \in late : ~Open(i)
    /\ \A t \in Threads : Fresh(t) /\ arg[t].inst \in late =>
          pc[t] = "check" /\ arg[t].key \in exported

Inv == TypeInv /\ OnePlace /\ SpentOnce /\ FreshOnes /\ Made /\ Content /\ LateOnes

LEMMA InvInit == Init => Inv
  BY TypeInit, FrostSignAssumption
     DEF Init, Inv, OnePlace, SpentOnce, FreshOnes, Made, Content, LateOnes,
         Fresh, InMap, InHand, Open, Asked, Insts

\* A step that only moves one thread's call, without opening, taking or
\* dropping a session, nor reaching "check" or "commit", disturbs nothing.
LEMMA Bystander ==
    ASSUME Inv, TypeInv', NEW t \in Threads,
           \A u \in Threads \ {t} : pc'[u] = pc[u] /\ arg'[u] = arg[u],
           pc'[t] \notin {"check", "commit"}, exported \subseteq exported',
           UNCHANGED <<sessions, held, opened, asked, late, spent, signatures>>
    PROVE  Inv'
  <1> USE DEF Inv, TypeInv, TypeOK, Fresh, InMap, InHand, Open, Asked
  <1>1. OnePlace' /\ SpentOnce'
    BY DEF OnePlace, SpentOnce
  <1>2. FreshOnes'
    BY DEF FreshOnes
  <1>3. Made'
    BY DEF Made
  <1>4. Content'
    BY DEF Content
  <1>5. LateOnes'
    BY DEF LateOnes
  <1> QED
    BY <1>1, <1>2, <1>3, <1>4, <1>5

LEMMA InvCallRound1 ==
    ASSUME Inv, TypeInv', NEW t \in Threads, NEW s \in Ids, NEW k \in Keys,
           NEW m \in Msgs, CallRound1(t, s, k, m)
    PROVE  Inv'
  <1> USE DEF Inv, TypeInv, TypeOK, ArgsOK, Fresh, InMap, InHand, Open, Asked,
              Enter, Goto, signVars, CallRound1
  <1>1. opened' = opened + 1 /\ opened' \in Insts /\ opened \in Nat
    BY FrostSignAssumption DEF Insts
  <1>2. ~Open(opened') /\ opened' \notin late
    BY <1>1 DEF Made
  <1>3. \A i \in Insts : Open(i)' <=> Open(i)
    OBVIOUS
  <1>4. arg'[t].inst = opened' /\ arg'[t].key = k /\ arg'[t].msg = m
        /\ pc'[t] = "check"
    OBVIOUS
  <1>5. \A u \in Threads \ {t} : pc'[u] = pc[u] /\ arg'[u] = arg[u]
    OBVIOUS
  <1>6. \A u \in Threads \ {t} : Fresh(u) => arg[u].inst \in Insts /\ arg[u].inst <= opened
    BY DEF FreshOnes
  <1>7. OnePlace' /\ SpentOnce'
    BY DEF OnePlace, SpentOnce
  <1>8. FreshOnes'
    BY <1>1, <1>2, <1>3, <1>4, <1>5, <1>6 DEF FreshOnes, Insts
  <1>9. Made'
    BY <1>1, <1>3 DEF Made, Insts
  <1>10. \A i \in Insts : i # opened' => asked'[i] = asked[i]
    OBVIOUS
  <1>11. asked'[opened'] = [id |-> s, key |-> k, msg |-> m]
    BY <1>1
  <1>12. asked'[opened'] # None
    BY <1>11, FrostSignAssumption DEF Ask
  <1>13. Content'
    <2>1. \A u \in Threads : Fresh(u)' => Asked(arg[u].inst, arg[u].key, arg[u].msg)'
      BY <1>1, <1>4, <1>5, <1>6, <1>10, <1>11, <1>12 DEF Content
    <2>2. \A i \in Insts : Open(i) => i # opened'
      BY <1>2
    <2>3. \A x \in Ids : sessions[x] # None =>
             Asked(sessions[x].inst, sessions[x].key, sessions[x].msg)'
      BY <1>10, <2>2 DEF Content, Session
    <2>4. \A u \in Threads : held[u] # None =>
             Asked(held[u].inst, held[u].key, held[u].msg)'
      BY <1>10, <2>2 DEF Content, Session
    <2>5. \A g \in signatures : Asked(g.inst, g.key, g.msg)'
      BY <1>1, <1>10 DEF Content, Made
    <2> QED
      BY <2>1, <2>3, <2>4, <2>5 DEF Content
  <1>14. LateOnes'
    BY <1>1, <1>2, <1>3, <1>4, <1>5, <1>6 DEF LateOnes, Insts
  <1> QED
    BY <1>7, <1>8, <1>9, <1>13, <1>14

LEMMA InvCheckExported ==
    ASSUME Inv, TypeInv', NEW t \in Threads, CheckExported(t)
    PROVE  Inv'
  <1> USE DEF Inv, TypeInv, TypeOK, CheckExported, Goto, histVars, openVars,
              signVars
  <1>1. CASE arg[t].key \in exported
    BY <1>1, Bystander DEF Return
  <1>2. CASE arg[t].key \notin exported
    <2> USE <1>2 DEF Fresh, InMap, InHand, Open, Asked
    <2>1. UNCHANGED <<arg, sessions, held, spent, opened, asked, late,
                      exported, signatures>>
      OBVIOUS
    <2>2. \A u \in Threads : Fresh(u)' <=> Fresh(u)
      OBVIOUS
    <2>3. OnePlace' /\ SpentOnce' /\ Made'
      BY <2>1 DEF OnePlace, SpentOnce, Made
    <2>4. FreshOnes'
      BY <2>1, <2>2 DEF FreshOnes
    <2>5. Content'
      BY <2>1, <2>2 DEF Content
    <2>6. LateOnes'
      BY <2>1 DEF LateOnes
    <2> QED
      BY <2>3, <2>4, <2>5, <2>6
  <1> QED
    BY <1>1, <1>2

LEMMA InvCommit ==
    ASSUME Inv, TypeInv', NEW t \in Threads, Commit(t)
    PROVE  Inv'
  <1> DEFINE i == arg[t].inst
  <1> USE DEF Inv, TypeInv, TypeOK, ArgsOK, Commit, Return, Goto, histVars,
              openVars, signVars, Fresh, InMap, InHand, Open, Asked
  <1>1. i \in Insts /\ arg[t].id \in Ids /\ i <= opened /\ ~Open(i) /\ i \notin late
    BY DEF FreshOnes, LateOnes
  <1>2. sessions'[arg[t].id] =
           [inst |-> i, key |-> arg[t].key, msg |-> arg[t].msg,
            consumed |-> FALSE]
    BY <1>1
  <1>3. sessions'[arg[t].id] # None
    <2>1. arg[t].key \in Keys /\ arg[t].msg \in Msgs
      OBVIOUS
    <2> HIDE DEF i
    <2>2. sessions'[arg[t].id] \in Session
      BY <1>1, <1>2, <2>1 DEF Session
    <2> QED
      BY <2>2, SessionNotNone
  <1>4. \A s \in Ids \ {arg[t].id} : sessions'[s] = sessions[s]
    OBVIOUS
  <1>5. UNCHANGED <<held, spent, opened, asked, late, exported, signatures>>
    OBVIOUS
  <1>6. \A u \in Threads \ {t} : pc'[u] = pc[u] /\ arg'[u] = arg[u]
    OBVIOUS
  <1>7. pc'[t] = "idle"
    OBVIOUS
  <1>8. \A s \in Ids, j \in Insts :
           InMap(s, j)' => InMap(s, j) \/ (s = arg[t].id /\ j = i)
    BY <1>2, <1>4
  <1>9. \A j \in Insts : Open(j)' => Open(j) \/ j = i
    BY <1>5, <1>8
  <1>10. OnePlace'
    BY <1>1, <1>5, <1>8 DEF OnePlace
  <1>11. SpentOnce'
    BY <1>1, <1>5, <1>8 DEF SpentOnce
  <1>12. FreshOnes'
    <2> SUFFICES ASSUME NEW u \in Threads, Fresh(u)'
                 PROVE  /\ (arg'[u].inst <= opened' /\ ~Open(arg[u].inst)')
                        /\ \A v \in Threads : Fresh(v)' /\ arg'[v].inst = arg'[u].inst
                              => v = u
      BY DEF FreshOnes
    <2>1. u # t /\ Fresh(u) /\ arg[u].inst \in Insts
      BY <1>6, <1>7
    <2>2. arg[u].inst # i
      BY <2>1 DEF FreshOnes
    <2>3. ~Open(arg[u].inst)'
      BY <1>6, <1>9, <2>1, <2>2 DEF FreshOnes
    <2> QED
      BY <1>5, <1>6, <1>7, <2>1, <2>3 DEF FreshOnes
  <1>13. Made'
    BY <1>1, <1>5, <1>9 DEF Made
  <1>14. Asked(i, arg[t].key, arg[t].msg)
    BY DEF Content
  <1>15. Content'
    BY <1>2, <1>4, <1>5, <1>6, <1>7, <1>14 DEF Content
  <1>16. LateOnes'
    BY <1>1, <1>5, <1>6, <1>7, <1>9 DEF LateOnes
  <1> QED
    BY <1>10, <1>11, <1>12, <1>13, <1>15, <1>16

LEMMA InvTake ==
    ASSUME Inv, TypeInv', NEW t \in Threads, Take(t)
    PROVE  Inv'
  <1> USE DEF Inv, TypeInv, TypeOK, ArgsOK, Take, Return, Goto, histVars,
              openVars, signVars
  <1>1. CASE sessions[arg[t].id] = None
    BY <1>1, Bystander
  <1>2. CASE sessions[arg[t].id] # None
    <2> DEFINE s == arg[t].id
    <2> USE <1>2 DEF Fresh, InMap, InHand, Open, Asked
    <2>1. s \in Ids /\ held[t] = None /\ sessions[s] \in Session
      OBVIOUS
    <2>2. held'[t] = sessions[s] /\ sessions'[s] = None
      BY <2>1
    <2>3. /\ \A u \in Threads \ {t} : held'[u] = held[u]
          /\ \A x \in Ids \ {s} : sessions'[x] = sessions[x]
      OBVIOUS
    <2>4. UNCHANGED <<arg, spent, opened, asked, late, exported, signatures>>
      OBVIOUS
    <2>5. \A u \in Threads : Fresh(u)' <=> Fresh(u)
      OBVIOUS
    <2>6. \A u \in Threads, j \in Insts :
             InHand(u, j)' => InHand(u, j) \/ (u = t /\ InMap(s, j))
      BY <2>2, <2>3
    <2>7. \A x \in Ids, j \in Insts : InMap(x, j)' => InMap(x, j) /\ x # s
      BY <2>2, <2>3
    <2>8. \A j \in Insts : Open(j)' => Open(j)
      BY <2>1, <2>4, <2>6, <2>7
    <2>9. OnePlace'
      BY <2>1, <2>6, <2>7, SMTT(40) DEF OnePlace
    <2>10. SpentOnce'
      BY <2>1, <2>4, <2>6, <2>7 DEF SpentOnce
    <2>11. FreshOnes'
      BY <2>4, <2>5, <2>8 DEF FreshOnes
    <2>12. Made'
      BY <2>4, <2>8 DEF Made
    <2>13. Content'
      BY <2>1, <2>2, <2>3, <2>4, <2>5 DEF Content
    <2>14. LateOnes'
      BY <2>4, <2>8 DEF LateOnes
    <2> QED
      BY <2>9, <2>10, <2>11, <2>12, <2>13, <2>14
  <1> QED
    BY <1>1, <1>2

LEMMA InvSign ==
    ASSUME Inv, TypeInv', NEW t \in Threads, Refuse(t) \/ Sign(t)
    PROVE  Inv'
  <1> USE DEF Inv, TypeInv, TypeOK, ArgsOK, Drop, Return, Goto, openVars,
              signVars, Fresh, InMap, InHand, Open, Asked
  <1>0. held[t] \in Session /\ held[t] # None /\ held'[t] = None
    BY DEF Refuse, Sign
  <1> PICK i \in Insts : i = held[t].inst
    BY <1>0 DEF Session
  <1>1. held[t] \in Session /\ i \in Insts /\ i = held[t].inst
        /\ held[t] # None /\ held'[t] = None
    BY <1>0
  <1>2. \A u \in Threads \ {t} :
           held'[u] = held[u] /\ pc'[u] = pc[u] /\ arg'[u] = arg[u]
    BY DEF Refuse, Sign
  <1>3. UNCHANGED <<sessions, opened, asked, late, exported>> /\ pc'[t] = "idle"
    BY DEF Refuse, Sign
  <1>4. \/ UNCHANGED spent
        \/ spent' = [spent EXCEPT ![i] = @ + 1]
    BY <1>1 DEF Refuse, Sign
  <1>5. \A g \in signatures' : g \in signatures
                              \/ g = [inst |-> i, key |-> held[t].key, msg |-> held[t].msg]
    BY <1>1 DEF Refuse, Sign
  <1>6. spent[i] = 0 /\ Open(i)
    BY <1>1 DEF SpentOnce
  <1>7. \A j \in Insts : Open(j)' => Open(j)
    BY <1>1, <1>2, <1>3, <1>4
  <1>8. /\ \A u \in Threads, j \in Insts : InHand(u, j)' => InHand(u, j) /\ u # t
        /\ \A s \in Ids, j \in Insts : InMap(s, j)' <=> InMap(s, j)
        /\ InHand(t, i)
    BY <1>1, <1>2, <1>3
  <1> HIDE DEF InHand, InMap
  <1>16. OnePlace'
    BY <1>8 DEF OnePlace
  <1>17. /\ \A s \in Ids : ~InMap(s, i)'
         /\ \A u \in Threads : ~InHand(u, i)'
    BY <1>1, <1>8 DEF OnePlace
  <1> USE DEF InHand, InMap
  <1>9. SpentOnce'
    <2> SUFFICES ASSUME NEW j \in Insts
                 PROVE  /\ spent'[j] \in {0, 1}
                        /\ spent'[j] = 1 => /\ \A s \in Ids : ~InMap(s, j)'
                                            /\ \A u \in Threads : ~InHand(u, j)'
      BY DEF SpentOnce
    <2>1. CASE j = i
      <3>1. spent'[i] \in {0, 1}
        BY <1>1, <1>4, <1>6
      <3> QED
        BY <1>17, <2>1, <3>1
    <2>2. CASE j # i
      BY <1>1, <1>2, <1>3, <1>4, <2>2 DEF SpentOnce
    <2> QED
      BY <2>1, <2>2
  <1>10. FreshOnes'
    BY <1>2, <1>3, <1>7 DEF FreshOnes
  <1>11. i <= opened
    BY <1>1, <1>6 DEF Made
  <1>12. Made'
    BY <1>3, <1>5, <1>7, <1>11 DEF Made
  <1>13. Asked(i, held[t].key, held[t].msg)
    BY <1>1 DEF Content
  <1>14. Content'
    BY <1>1, <1>2, <1>3, <1>5, <1>13 DEF Content
  <1>15. LateOnes'
    BY <1>2, <1>3, <1>7 DEF LateOnes
  <1> QED
    BY <1>9, <1>10, <1>12, <1>14, <1>15, <1>16

LEMMA InvRestart ==
    ASSUME Inv, TypeInv', Restart
    PROVE  Inv'
  <1> USE DEF Inv, TypeInv, TypeOK, Restart, histVars, openVars, signVars,
              Fresh, InMap, InHand, Open, Asked
  <1>1. \A i \in Insts : Open(i)' => Open(i)
    OBVIOUS
  <1>2. OnePlace' /\ SpentOnce' /\ FreshOnes'
    BY DEF OnePlace, SpentOnce, FreshOnes
  <1>3. Made' /\ Content' /\ LateOnes'
    BY <1>1 DEF Made, Content, LateOnes
  <1> QED
    BY <1>2, <1>3

LEMMA InvNext == Inv /\ [Next]_vars => Inv'
  <1> SUFFICES ASSUME Inv, [Next]_vars PROVE Inv'
    OBVIOUS
  <1>1. TypeInv'
    BY TypeNext DEF Inv
  <1>2. ASSUME NEW t \in Threads, Call(t) PROVE Inv'
    <2>1. CASE \E s \in Ids, k \in Keys, m \in Msgs : CallRound1(t, s, k, m)
      BY <1>1, <2>1, InvCallRound1
    <2>2. CASE \E s \in Ids, m \in Msgs : CallRound2(t, s, m)
      BY <1>1, <2>2, Bystander
         DEF CallRound2, Enter, Goto, signVars, openVars, Inv, TypeInv, TypeOK
    <2>3. CASE \E k \in Keys : CallExport(t, k)
      BY <1>1, <2>3, Bystander
         DEF CallExport, Enter, Goto, signVars, openVars, Inv, TypeInv, TypeOK
    <2> QED
      BY <1>2, <2>1, <2>2, <2>3 DEF Call
  <1>3. ASSUME NEW t \in Threads, Step(t) PROVE Inv'
    <2>1. CASE CheckExported(t)
      BY <1>1, <2>1, InvCheckExported
    <2>2. CASE Commit(t)
      BY <1>1, <2>2, InvCommit
    <2>3. CASE Dispatch(t) \/ BadPayload(t) \/ Export(t) \/ ExportFails(t)
      <3> USE DEF Dispatch, BadPayload, Export, ExportFails, Return, Goto,
                  histVars, openVars, signVars, Inv, TypeInv, TypeOK
      <3>1. \A u \in Threads \ {t} : pc'[u] = pc[u] /\ arg'[u] = arg[u]
        BY <2>3
      <3>2. pc'[t] \notin {"check", "commit"}
        BY <2>3
      <3>3. exported \subseteq exported'
        BY <2>3
      <3>4. UNCHANGED <<sessions, held, opened, asked, late, spent, signatures>>
        BY <2>3
      <3> HIDE DEF Dispatch, BadPayload, Export, ExportFails, Inv
      <3> QED
        BY <1>1, <3>1, <3>2, <3>3, <3>4, Bystander
    <2>4. CASE Take(t)
      BY <1>1, <2>4, InvTake
    <2>5. CASE Refuse(t) \/ Sign(t)
      BY <1>1, <2>5, InvSign
    <2> QED
      BY <1>3, <2>1, <2>2, <2>3, <2>4, <2>5 DEF Step
  <1>4. CASE UNCHANGED vars
    BY <1>1, <1>4
       DEF vars, histVars, signVars, openVars, Inv, OnePlace, SpentOnce,
           FreshOnes, Made, Content, LateOnes, Fresh, InMap, InHand, Open, Asked
  <1> QED
    BY <1>1, <1>2, <1>3, <1>4, InvRestart DEF Next

THEOREM Invariance == Spec => []Inv
  BY InvInit, InvNext, PTL DEF Spec

\* SEC-01: however the calls interleave, the nonces of a round 1 are in at most
\* one place, and make at most one signature share.
THEOREM NoncesUsedOnce == Spec => []NoncesHaveOneOwner
  <1>1. Inv => NoncesHaveOneOwner
    BY DEF Inv, OnePlace, SpentOnce, NoncesHaveOneOwner, InMap, InHand,
           TypeInv, TypeOK
  <1> QED
    BY <1>1, Invariance, PTL

\* Every signature handed to the host is over the key and message that the
\* round-1 call of its nonces was given.
THEOREM SignsOnlyWhatWasAsked == Spec => []SignsWhatWasAsked
  <1>1. Inv => SignsWhatWasAsked
    BY DEF Inv, Content, SignsWhatWasAsked, Asked
  <1> QED
    BY <1>1, Invariance, PTL

\* The EXPORTED_KEYS guard of round 1 refuses every call that began while its
\* key was marked, whatever the other threads do meanwhile.
THEOREM ExportedKeyIsRefused == Spec => []ExportedKeyOpensNoSession
  <1>1. Inv => ExportedKeyOpensNoSession
    BY DEF Inv, LateOnes, ExportedKeyOpensNoSession
  <1> QED
    BY <1>1, Invariance, PTL
=============================================================================
