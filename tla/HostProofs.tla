----------------------------- MODULE HostProofs -----------------------------
(***************************************************************************)
(* What host.json promises, proved for any number of callers, each between *)
(* the steps of the others: names are apart but for creations that         *)
(* overlapped; and until two saves cross, the file is whole at every       *)
(* moment, keeps the host's identity, and holds what was promised.         *)
(***************************************************************************)
EXTENDS Host, TLAPS

Saving == {"take", "open", "write", "rename"}

\* Requests are worked on by a serving host only, and the opener only saves,
\* before anything is served.
Shifts ==
    /\ \A c \in Callers : daemon # "up" => at[c] = "idle"
    /\ daemon # "opening" => at[Opener] = "idle"
    /\ at[Opener] \in Saving \cup {"idle"}
    /\ op[Opener] = "none"

\* Where a caller is says which request it is on, and about what.
Stages ==
    \A c \in Callers :
        /\ at[c] \in {"make", "insert", "clone"} => op[c] = "new"
        /\ at[c] = "start" => op[c] \in {"new", "start"}
        /\ at[c] = "shell" => op[c] = "open"
        /\ at[c] = "close" => op[c] \in {"rm", "undo", "stop"}
        /\ at[c] = "halt" => op[c] = "stop"
        /\ at[c] \in {"unmake", "remove", "answer"} => op[c] \in {"rm", "undo"}
        /\ at[c] \in Saving => op[c] \in {"new", "rm", "undo"}
        /\ at[c] # "idle" => env[c] \in Envs
        /\ at[c] = "idle" => op[c] = "none" /\ env[c] = NoEnv

HostInv == TypeOK /\ Shifts /\ Stages

\* The callers whose environment is checked and not yet in the table.
Young(c) == op[c] = "new" /\ at[c] \in {"make", "start", "insert"}

\* An id that anything was ever said about was drawn, and one that is still
\* being made is in no list anywhere.
Births ==
    /\ \A e \in table \cup state.list \cup scratch.list \cup answered \cup doomed \cup gone :
          name[e] # NoName
    /\ \A s \in Savers : \A e \in taken[s].list : name[e] # NoName
    /\ \A c \in Callers : op[c] # "none" => name[env[c]] # NoName
    /\ \A c \in Callers : Young(c) =>
          env[c] \notin table \cup state.list \cup scratch.list \cup answered \cup doomed \cup gone
    /\ \A c \in Callers : Young(c) => \A s \in Savers : env[c] \notin taken[s].list
    /\ \A c, d \in Callers : op[c] = "new" /\ op[d] = "new" /\ env[c] = env[d] => c = d
    /\ \A c \in Callers : op[c] = "new" => env[c] \notin answered
    /\ \A c \in Callers : op[c] \in {"rm", "undo"} => env[c] \in doomed

\* Two environments that are anywhere together are apart, and so is one that
\* is being made from all it may come to be together with.
Named ==
    /\ OneNameIn(table) /\ OneNameIn(state.list) /\ OneNameIn(scratch.list)
    /\ \A s \in Savers : OneNameIn(taken[s].list)
    /\ \A c \in Callers : Young(c) => \A f \in table : Apart(env[c], f)
    /\ \A c, d \in Callers : Young(c) /\ Young(d) => Apart(env[c], env[d])

BirthInv == HostInv /\ Births

\* Every step keeps the types.
LEMMA TypesKept ==
    ASSUME HostInv, Next
    PROVE  TypeOK'
<1> USE DEF disk, rooms, promises, strays, races, history, Goto, Rest, Ask, Request, Fault,
         savers, Savers, HostInv, TypeOK
<1>1. ASSUME NEW c \in Callers, NEW n \in Names, NEW e \in Envs, AskNew(c, n, e) PROVE TypeOK'
  BY <1>1 DEF AskNew, Coming, Stages
<1>2. ASSUME NEW c \in Callers, NEW e \in Envs, AskStart(c, e) PROVE TypeOK'
  BY <1>2 DEF AskStart
<1>3. ASSUME NEW c \in Callers, NEW e \in Envs, AskStop(c, e) PROVE TypeOK'
  BY <1>3 DEF AskStop
<1>4. ASSUME NEW c \in Callers, NEW e \in Envs, AskDestroy(c, e) PROVE TypeOK'
  BY <1>4 DEF AskDestroy
<1>5. ASSUME NEW c \in Callers, NEW e \in Envs, AskShell(c, e) PROVE TypeOK'
  BY <1>5 DEF AskShell
<1>6. ASSUME NEW c \in Callers, StartShell(c) PROVE TypeOK'
  BY <1>6 DEF StartShell, Stages, Blank
<1>7. ASSUME NEW c \in Callers, MakeRoom(c) PROVE TypeOK'
  BY <1>7 DEF MakeRoom, Stages
<1>8. ASSUME NEW c \in Callers, StartRoom(c) PROVE TypeOK'
  BY SMTT(30), <1>8 DEF StartRoom, Revived, Stages, Blank
<1>9. ASSUME NEW c \in Callers, Insert(c) PROVE TypeOK'
  BY <1>9 DEF Insert, Stages
<1>10. ASSUME NEW c \in Callers, AnswerNew(c) PROVE TypeOK'
  BY <1>10 DEF AnswerNew, Stages, Blank
<1>11. ASSUME NEW c \in Callers, CloneFails(c) PROVE TypeOK'
  BY SMTT(30), <1>11 DEF CloneFails, Stages, Blank
<1>12. ASSUME NEW c \in Callers, CloseSessions(c) PROVE TypeOK'
  BY <1>12 DEF CloseSessions
<1>13. ASSUME NEW c \in Callers, Halt(c) PROVE TypeOK'
  BY <1>13 DEF Halt, Stages, Blank
<1>14. ASSUME NEW c \in Callers, Unmake(c) PROVE TypeOK'
  BY <1>14 DEF Unmake, Stages
<1>15. ASSUME NEW c \in Callers, RemoveEntry(c) PROVE TypeOK'
  BY <1>15 DEF RemoveEntry
<1>16. ASSUME NEW c \in Callers, AnswerDestroy(c) PROVE TypeOK'
  BY <1>16 DEF AnswerDestroy, Stages, Blank
<1>17. ASSUME NEW c \in Callers, DockerFails(c) PROVE TypeOK'
  BY <1>17 DEF DockerFails, Revived, Stages, Blank
<1>18. ASSUME NEW c \in Callers, Unseen(c) PROVE TypeOK'
  <2>1. env[c] \in Envs /\ c \in Savers
    BY <1>18 DEF Unseen, Stages
  <2>2. left' \subseteq Envs /\ faults' \in Nat
    BY <1>18, <2>1 DEF Unseen
  <2>3. CASE at[c] = "unmake"
    <3>1. at' = [at EXCEPT ![c] = "remove"]
      BY <1>18, <2>3 DEF Unseen
    <3>2. UNCHANGED <<op, env, taken, handle>>
      BY <1>18, <2>3 DEF Unseen
    <3> QED  BY <1>18, <2>1, <2>2, <3>1, <3>2 DEF Unseen
  <2>4. CASE at[c] = "halt"
    <3>1. Rest(c)
      BY <1>18, <2>4 DEF Unseen
    <3> QED  BY <1>18, <2>1, <2>2, <3>1 DEF Unseen, Blank
  <2> QED  BY <1>18, <2>3, <2>4 DEF Unseen
<1>19. ASSUME NEW s \in Savers, TakeList(s) PROVE TypeOK'
  BY <1>19 DEF TakeList, InSave
<1>20. ASSUME NEW s \in Savers, OpenScratch(s) PROVE TypeOK'
  BY <1>20 DEF OpenScratch, Unwritten, Contents
<1>21. ASSUME NEW s \in Savers, WriteList(s) PROVE TypeOK'
  BY <1>21 DEF WriteList, Written, Whole, Unwritten, Contents
<1>22. ASSUME NEW s \in Savers, Rename(s) PROVE TypeOK'
  BY <1>22 DEF Rename, Moved, Unwritten, Contents, Blank
<1>23. ASSUME NEW s \in Savers, SaveFails(s) PROVE TypeOK'
  BY <1>23, Identities DEF SaveFails, SaveLost, InSave, Shifts, Stages, Blank
<1>24. ASSUME NEW e \in Envs, SessionsEnd(e) PROVE TypeOK'
  BY <1>24 DEF SessionsEnd
<1>25. ASSUME Crash PROVE TypeOK'
  BY <1>25 DEF Crash, Blank, Stages
<1>26. ASSUME Open PROVE TypeOK'
  BY <1>26 DEF Open, Contents
<1> QED  BY <1>1, <1>2, <1>3, <1>4, <1>5, <1>6, <1>7, <1>8, <1>9, <1>10, <1>11, <1>12,
      <1>13, <1>14, <1>15, <1>16, <1>17, <1>18, <1>19, <1>20, <1>21, <1>22, <1>23, <1>24,
      <1>25, <1>26 DEF Next, Save, Work, Asks

\* Every step keeps requests to the serving host.
LEMMA ShiftsKept ==
    ASSUME HostInv, Next
    PROVE  Shifts'
<1> USE Identities DEF disk, rooms, promises, strays, races, history, Goto, Rest, Ask,
         Request, Fault, savers, Savers, HostInv, TypeOK, Shifts, Saving
<1>1. ASSUME NEW c \in Callers, NEW n \in Names, NEW e \in Envs, AskNew(c, n, e) PROVE Shifts'
  BY <1>1 DEF AskNew
<1>2. ASSUME NEW c \in Callers, NEW e \in Envs, AskStart(c, e) PROVE Shifts'
  BY <1>2 DEF AskStart
<1>3. ASSUME NEW c \in Callers, NEW e \in Envs, AskStop(c, e) PROVE Shifts'
  BY <1>3 DEF AskStop
<1>4. ASSUME NEW c \in Callers, NEW e \in Envs, AskDestroy(c, e) PROVE Shifts'
  BY <1>4 DEF AskDestroy
<1>5. ASSUME NEW c \in Callers, NEW e \in Envs, AskShell(c, e) PROVE Shifts'
  BY <1>5 DEF AskShell
<1>6. ASSUME NEW c \in Callers, StartShell(c) PROVE Shifts'
  BY <1>6 DEF StartShell
<1>7. ASSUME NEW c \in Callers, MakeRoom(c) PROVE Shifts'
  BY <1>7 DEF MakeRoom
<1>8. ASSUME NEW c \in Callers, StartRoom(c) PROVE Shifts'
  BY <1>8 DEF StartRoom
<1>9. ASSUME NEW c \in Callers, Insert(c) PROVE Shifts'
  BY <1>9 DEF Insert
<1>10. ASSUME NEW c \in Callers, AnswerNew(c) PROVE Shifts'
  BY <1>10 DEF AnswerNew
<1>11. ASSUME NEW c \in Callers, CloneFails(c) PROVE Shifts'
  BY <1>11 DEF CloneFails
<1>12. ASSUME NEW c \in Callers, CloseSessions(c) PROVE Shifts'
  BY <1>12 DEF CloseSessions
<1>13. ASSUME NEW c \in Callers, Halt(c) PROVE Shifts'
  BY <1>13 DEF Halt
<1>14. ASSUME NEW c \in Callers, Unmake(c) PROVE Shifts'
  BY <1>14 DEF Unmake
<1>15. ASSUME NEW c \in Callers, RemoveEntry(c) PROVE Shifts'
  BY <1>15 DEF RemoveEntry
<1>16. ASSUME NEW c \in Callers, AnswerDestroy(c) PROVE Shifts'
  BY <1>16 DEF AnswerDestroy
<1>17. ASSUME NEW c \in Callers, DockerFails(c) PROVE Shifts'
  BY <1>17 DEF DockerFails
<1>18. ASSUME NEW c \in Callers, Unseen(c) PROVE Shifts'
  BY <1>18 DEF Unseen
<1>19. ASSUME NEW s \in Savers, TakeList(s) PROVE Shifts'
  BY <1>19 DEF TakeList
<1>20. ASSUME NEW s \in Savers, OpenScratch(s) PROVE Shifts'
  BY <1>20 DEF OpenScratch
<1>21. ASSUME NEW s \in Savers, WriteList(s) PROVE Shifts'
  BY <1>21 DEF WriteList
<1>22. ASSUME NEW s \in Savers, Rename(s) PROVE Shifts'
  BY <1>22 DEF Rename, Moved
<1>23. ASSUME NEW s \in Savers, SaveFails(s) PROVE Shifts'
  BY <1>23 DEF SaveFails, SaveLost, InSave
<1>24. ASSUME NEW e \in Envs, SessionsEnd(e) PROVE Shifts'
  BY <1>24 DEF SessionsEnd
<1>25. ASSUME Crash PROVE Shifts'
  BY <1>25 DEF Crash
<1>26. ASSUME Open PROVE Shifts'
  BY <1>26 DEF Open
<1> QED  BY <1>1, <1>2, <1>3, <1>4, <1>5, <1>6, <1>7, <1>8, <1>9, <1>10, <1>11, <1>12,
      <1>13, <1>14, <1>15, <1>16, <1>17, <1>18, <1>19, <1>20, <1>21, <1>22, <1>23, <1>24,
      <1>25, <1>26 DEF Next, Save, Work, Asks

\* Every step keeps callers to the course of their request.
LEMMA StagesKept ==
    ASSUME HostInv, Next
    PROVE  Stages'
<1> USE Identities DEF disk, rooms, promises, strays, races, history, Goto, Rest, Ask,
         Request, Fault, savers, Savers, HostInv, TypeOK, Stages, Saving
<1>1. ASSUME NEW c \in Callers, NEW n \in Names, NEW e \in Envs, AskNew(c, n, e) PROVE Stages'
  BY <1>1 DEF AskNew
<1>2. ASSUME NEW c \in Callers, NEW e \in Envs, AskStart(c, e) PROVE Stages'
  BY <1>2 DEF AskStart
<1>3. ASSUME NEW c \in Callers, NEW e \in Envs, AskStop(c, e) PROVE Stages'
  BY <1>3 DEF AskStop
<1>4. ASSUME NEW c \in Callers, NEW e \in Envs, AskDestroy(c, e) PROVE Stages'
  BY <1>4 DEF AskDestroy
<1>5. ASSUME NEW c \in Callers, NEW e \in Envs, AskShell(c, e) PROVE Stages'
  BY <1>5 DEF AskShell
<1>6. ASSUME NEW c \in Callers, StartShell(c) PROVE Stages'
  BY <1>6 DEF StartShell
<1>7. ASSUME NEW c \in Callers, MakeRoom(c) PROVE Stages'
  BY <1>7 DEF MakeRoom
<1>8. ASSUME NEW c \in Callers, StartRoom(c) PROVE Stages'
  BY <1>8 DEF StartRoom
<1>9. ASSUME NEW c \in Callers, Insert(c) PROVE Stages'
  BY <1>9 DEF Insert
<1>10. ASSUME NEW c \in Callers, AnswerNew(c) PROVE Stages'
  BY <1>10 DEF AnswerNew
<1>11. ASSUME NEW c \in Callers, CloneFails(c) PROVE Stages'
  BY <1>11 DEF CloneFails
<1>12. ASSUME NEW c \in Callers, CloseSessions(c) PROVE Stages'
  BY <1>12 DEF CloseSessions
<1>13. ASSUME NEW c \in Callers, Halt(c) PROVE Stages'
  BY <1>13 DEF Halt
<1>14. ASSUME NEW c \in Callers, Unmake(c) PROVE Stages'
  BY <1>14 DEF Unmake
<1>15. ASSUME NEW c \in Callers, RemoveEntry(c) PROVE Stages'
  BY <1>15 DEF RemoveEntry
<1>16. ASSUME NEW c \in Callers, AnswerDestroy(c) PROVE Stages'
  BY <1>16 DEF AnswerDestroy
<1>17. ASSUME NEW c \in Callers, DockerFails(c) PROVE Stages'
  BY <1>17 DEF DockerFails
<1>18. ASSUME NEW c \in Callers, Unseen(c) PROVE Stages'
  BY <1>18 DEF Unseen
<1>19. ASSUME NEW s \in Savers, TakeList(s) PROVE Stages'
  BY <1>19 DEF TakeList
<1>20. ASSUME NEW s \in Savers, OpenScratch(s) PROVE Stages'
  BY <1>20 DEF OpenScratch
<1>21. ASSUME NEW s \in Savers, WriteList(s) PROVE Stages'
  BY <1>21 DEF WriteList
<1>22. ASSUME NEW s \in Savers, Rename(s) PROVE Stages'
  BY <1>22 DEF Rename, Shifts
<1>23. ASSUME NEW s \in Savers, SaveFails(s) PROVE Stages'
  BY <1>23 DEF SaveFails, SaveLost, InSave
<1>24. ASSUME NEW e \in Envs, SessionsEnd(e) PROVE Stages'
  BY <1>24 DEF SessionsEnd
<1>25. ASSUME Crash PROVE Stages'
  BY <1>25 DEF Crash
<1>26. ASSUME Open PROVE Stages'
  BY <1>26 DEF Open
<1> QED  BY <1>1, <1>2, <1>3, <1>4, <1>5, <1>6, <1>7, <1>8, <1>9, <1>10, <1>11, <1>12,
      <1>13, <1>14, <1>15, <1>16, <1>17, <1>18, <1>19, <1>20, <1>21, <1>22, <1>23, <1>24,
      <1>25, <1>26 DEF Next, Save, Work, Asks

\* The initial state.
LEMMA HostStarts == Init => BirthInv /\ Named
<1> SUFFICES ASSUME Init PROVE BirthInv /\ Named
  OBVIOUS
<1> USE Identities DEF Init, Unwritten, Blank, Savers
<1>1. TypeOK
  BY DEF TypeOK, Contents
<1>2. Shifts /\ Stages
  BY DEF Shifts, Stages, Saving
<1>3. Births
  BY DEF Births, Young
<1>4. Named
  BY DEF Named, OneNameIn, Young
<1> QED  BY <1>1, <1>2, <1>3, <1>4 DEF BirthInv, HostInv

\* Types, shifts and stages are inductive.
LEMMA HostInvKept == HostInv /\ [Next]_vars => HostInv'
<1>1. ASSUME HostInv, UNCHANGED vars PROVE HostInv'
  BY <1>1 DEF HostInv, TypeOK, Shifts, Stages, vars, disk, savers, rooms, promises, strays,
     races, history
<1> QED  BY <1>1, TypesKept, ShiftsKept, StagesKept DEF HostInv

\* However many connections ask at once, the host's variables keep their
\* types and a host that is down holds nothing.
THEOREM HostTyped == Spec => []TypeOK
<1>1. Init => HostInv
  BY HostStarts DEF BirthInv
<1>2. HostInv => TypeOK
  BY DEF HostInv
<1> QED  BY <1>1, <1>2, HostInvKept, PTL DEF Spec

\* Every step draws the ids it speaks of, and keeps the young apart.
LEMMA BirthsKept ==
    ASSUME BirthInv, Next
    PROVE  Births'
<1> USE Identities DEF disk, rooms, promises, strays, races, history, Goto, Rest, Ask,
         Request, Fault, savers, Savers, BirthInv, HostInv, TypeOK, Stages, Births, Young,
         Saving
<1>1. ASSUME NEW c \in Callers, NEW n \in Names, NEW e \in Envs, AskNew(c, n, e) PROVE Births'
  BY <1>1 DEF AskNew
<1>2. ASSUME NEW c \in Callers, NEW e \in Envs, AskStart(c, e) PROVE Births'
  BY <1>2 DEF AskStart
<1>3. ASSUME NEW c \in Callers, NEW e \in Envs, AskStop(c, e) PROVE Births'
  BY <1>3 DEF AskStop
<1>4. ASSUME NEW c \in Callers, NEW e \in Envs, AskDestroy(c, e) PROVE Births'
  BY <1>4 DEF AskDestroy
<1>5. ASSUME NEW c \in Callers, NEW e \in Envs, AskShell(c, e) PROVE Births'
  BY <1>5 DEF AskShell
<1>6. ASSUME NEW c \in Callers, StartShell(c) PROVE Births'
  BY <1>6 DEF StartShell, Blank
<1>7. ASSUME NEW c \in Callers, MakeRoom(c) PROVE Births'
  BY <1>7 DEF MakeRoom
<1>8. ASSUME NEW c \in Callers, StartRoom(c) PROVE Births'
  <2>1. UNCHANGED <<table, name, state, scratch, answered, doomed, gone>>
    BY <1>8 DEF StartRoom
  <2>2. \A s \in Savers : taken'[s].list \subseteq taken[s].list
    <3>1. taken' = taken \/ taken' = [taken EXCEPT ![c] = Blank]
      BY <1>8 DEF StartRoom
    <3>2. \A s \in Savers : taken'[s] = taken[s] \/ taken'[s] = Blank
      BY <3>1
    <3>3. Blank.list = {}
      BY DEF Blank
    <3> QED  BY <3>2, <3>3
  <2>3. \A d \in Callers : op'[d] = "none" \/ (op'[d] = op[d] /\ env'[d] = env[d])
    BY <1>8 DEF StartRoom
  <2>4. \A d \in Callers : Young(d)' => Young(d)
    BY <1>8 DEF StartRoom
  <2> QED  BY <2>1, <2>2, <2>3, <2>4
<1>9. ASSUME NEW c \in Callers, Insert(c) PROVE Births'
  BY <1>9 DEF Insert
<1>10. ASSUME NEW c \in Callers, AnswerNew(c) PROVE Births'
  <2>1. \A s \in Savers : taken'[s].list \subseteq taken[s].list
    <3>1. taken' = taken \/ taken' = [taken EXCEPT ![c] = Blank]
      BY <1>10 DEF AnswerNew
    <3>2. \A s \in Savers : taken'[s] = taken[s] \/ taken'[s] = Blank
      BY <3>1
    <3>3. Blank.list = {}
      BY DEF Blank
    <3> QED  BY <3>2, <3>3
  <2>2. /\ UNCHANGED <<table, name, state, scratch, doomed, gone>>
        /\ answered' \subseteq answered \cup {env[c]} /\ op[c] = "new" /\ ~ Young(c)
        /\ op'[c] = "none" /\ ~ Young(c)'
        /\ \A d \in Callers \ {c} : UNCHANGED <<op[d], env[d], at[d]>>
    BY <1>10 DEF AnswerNew
  <2>3. \A d \in Callers \ {c} : op[d] = "new" => env[d] # env[c]
    BY <2>2
  <2> QED  BY SMTT(30), <2>1, <2>2, <2>3
<1>11. ASSUME NEW c \in Callers, CloneFails(c) PROVE Births'
  <2>1. \A s \in Savers : taken'[s].list \subseteq taken[s].list
    <3>1. taken' = taken \/ taken' = [taken EXCEPT ![c] = Blank]
      BY <1>11 DEF CloneFails
    <3>2. \A s \in Savers : taken'[s] = taken[s] \/ taken'[s] = Blank
      BY <3>1
    <3>3. Blank.list = {}
      BY DEF Blank
    <3> QED  BY <3>2, <3>3
  <2>2. /\ UNCHANGED <<table, name, state, scratch, answered, gone>>
        /\ doomed' = doomed \cup {env[c]} /\ op[c] = "new" /\ ~ Young(c)
        /\ op'[c] = "none" \/ (op'[c] = "undo" /\ env'[c] = env[c])
        /\ ~ Young(c)'
        /\ \A d \in Callers \ {c} : UNCHANGED <<op[d], env[d], at[d]>>
    BY <1>11 DEF CloneFails
  <2>3. \A d \in Callers \ {c} : op[d] = "new" => env[d] # env[c]
    BY <2>2
  <2> QED  BY <2>1, <2>2, <2>3
<1>12. ASSUME NEW c \in Callers, CloseSessions(c) PROVE Births'
  BY <1>12 DEF CloseSessions
<1>13. ASSUME NEW c \in Callers, Halt(c) PROVE Births'
  BY <1>13 DEF Halt, Blank
<1>14. ASSUME NEW c \in Callers, Unmake(c) PROVE Births'
  BY <1>14 DEF Unmake
<1>15. ASSUME NEW c \in Callers, RemoveEntry(c) PROVE Births'
  BY <1>15 DEF RemoveEntry
<1>16. ASSUME NEW c \in Callers, AnswerDestroy(c) PROVE Births'
  BY <1>16 DEF AnswerDestroy, Blank
<1>17. ASSUME NEW c \in Callers, DockerFails(c) PROVE Births'
  BY <1>17 DEF DockerFails, Blank
<1>18. ASSUME NEW c \in Callers, Unseen(c) PROVE Births'
  <2>1. UNCHANGED <<table, name, state, scratch, answered, doomed, gone>>
    BY <1>18 DEF Unseen
  <2>2. \A s \in Savers : taken'[s].list \subseteq taken[s].list
    BY <1>18 DEF Unseen, Blank
  <2>3. \A d \in Callers : op'[d] = "none" \/ (op'[d] = op[d] /\ env'[d] = env[d])
    BY <1>18 DEF Unseen
  <2>4. \A d \in Callers : Young(d)' => Young(d)
    BY <1>18 DEF Unseen
  <2> QED  BY <2>1, <2>2, <2>3, <2>4
<1>19. ASSUME NEW s \in Savers, TakeList(s) PROVE Births'
  BY <1>19 DEF TakeList
<1>20. ASSUME NEW s \in Savers, OpenScratch(s) PROVE Births'
  BY <1>20 DEF OpenScratch, Unwritten
<1>21. ASSUME NEW s \in Savers, WriteList(s) PROVE Births'
  BY <1>21 DEF WriteList, Written, Whole, Unwritten
<1>22. ASSUME NEW s \in Savers, Rename(s) PROVE Births'
  BY <1>22 DEF Rename, Moved, Unwritten, Blank, Shifts
<1>23. ASSUME NEW s \in Savers, SaveFails(s) PROVE Births'
  BY <1>23 DEF SaveFails, SaveLost, InSave, Blank, Shifts
<1>24. ASSUME NEW e \in Envs, SessionsEnd(e) PROVE Births'
  BY <1>24 DEF SessionsEnd
<1>25. ASSUME Crash PROVE Births'
  BY <1>25 DEF Crash, Blank
<1>26. ASSUME Open PROVE Births'
  BY <1>26 DEF Open, Contents
<1> QED  BY <1>1, <1>2, <1>3, <1>4, <1>5, <1>6, <1>7, <1>8, <1>9, <1>10, <1>11, <1>12,
      <1>13, <1>14, <1>15, <1>16, <1>17, <1>18, <1>19, <1>20, <1>21, <1>22, <1>23, <1>24,
      <1>25, <1>26 DEF Next, Save, Work, Asks

\* Most steps claim no name, and list nothing that was not listed.
LEMMA NamesLeftAlone ==
    ASSUME Named, UNCHANGED <<name, kind, beside>>,
           table' \subseteq table, state'.list \subseteq state.list,
           scratch'.list \subseteq scratch.list,
           \A s \in Savers : taken'[s].list \subseteq taken[s].list,
           \A c \in Callers : Young(c)' => Young(c) /\ env'[c] = env[c]
    PROVE  Named'
<1>1. \A e, f : Apart(e, f) => Apart(e, f)'
  BY DEF Apart
<1>2. OneNameIn(table)' /\ OneNameIn(state.list)' /\ OneNameIn(scratch.list)'
  BY <1>1 DEF OneNameIn, Named
<1>3. \A s \in Savers : OneNameIn(taken[s].list)'
  BY <1>1 DEF OneNameIn, Named
<1>4. \A c, d \in Callers : Young(c)' /\ Young(d)' => Apart(env[c], env[d])'
  BY <1>1 DEF Named
<1>5. \A c \in Callers : Young(c)' => \A f \in table' : Apart(env[c], f)'
  BY <1>1 DEF Named
<1> QED  BY <1>2, <1>3, <1>4, <1>5 DEF Named

\* Every step keeps the names apart, except between overlapping creations.
LEMMA NamedKept ==
    ASSUME BirthInv, Named, Next
    PROVE  Named'
<1> USE Identities DEF disk, rooms, promises, strays, races, history, Goto, Rest, Ask,
        Request, Fault, savers, Savers, BirthInv, HostInv, TypeOK
<1>1. ASSUME NEW c \in Callers, NEW n \in Names, NEW e \in Envs, AskNew(c, n, e)
      PROVE  Named'
  <2>1. /\ UNCHANGED <<table, state, scratch, taken, kind>>
        /\ name' = [name EXCEPT ![e] = n] /\ beside' = [beside EXCEPT ![e] = Coming]
        /\ \A d \in Callers \ {c} : UNCHANGED <<at[d], op[d], env[d]>>
        /\ env'[c] = e /\ at[c] = "idle"
    BY <1>1 DEF AskNew
  <2>2. /\ e \notin table \cup state.list \cup scratch.list
        /\ \A s \in Savers : e \notin taken[s].list
        /\ \A d \in Callers : op[d] # "none" => env[d] # e
    BY <1>1 DEF AskNew, Births
  <2>3. \A f, g : f # e /\ g # e /\ f \in Envs /\ g \in Envs /\ Apart(f, g) => Apart(f, g)'
    BY <2>1 DEF Apart
  <2>4. \A f \in table : Apart(e, f)'
    BY <1>1, <2>1, <2>2 DEF AskNew, Refused, Apart
  <2>5. \A d \in Callers \ {c} : Young(d)' => Young(d) /\ env'[d] = env[d] /\ env[d] # e
    BY <2>1, <2>2 DEF Young
  <2>6. \A d \in Callers \ {c} : Young(d)' => e # env[d] /\ Apart(e, env[d])' /\ Apart(env[d], e)'
    BY <2>1, <2>5 DEF Apart, Young, Coming
  <2>7. \A d \in Callers : Young(d) => env[d] \in Envs
    BY DEF Young, Stages
  <2>8. OneNameIn(table)' /\ OneNameIn(state.list)' /\ OneNameIn(scratch.list)'
    BY <2>1, <2>2, <2>3 DEF OneNameIn, Named, Contents
  <2>9. \A s \in Savers : OneNameIn(taken[s].list)'
    BY <2>1, <2>2, <2>3 DEF OneNameIn, Named
  <2>10. \A d \in Callers \ {c} : Young(d)' => \A f \in table' : Apart(env[d], f)'
    BY <2>1, <2>2, <2>3, <2>5, <2>7 DEF Named
  <2>11. \A d1, d2 \in Callers \ {c} : Young(d1)' /\ Young(d2)' => Apart(env[d1], env[d2])'
    BY <2>3, <2>5, <2>7 DEF Named
  <2>12. Apart(e, e)'
    BY DEF Apart
  <2> QED  BY <2>1, <2>4, <2>6, <2>5, <2>8, <2>9, <2>10, <2>11, <2>12 DEF Named
<1>2. ASSUME NEW c \in Callers, Insert(c) PROVE Named'
  <2>1. /\ table' = table \cup {env[c]} /\ UNCHANGED <<state, scratch, taken, name, kind, beside, env>>
        /\ Young(c) /\ \A d \in Callers : Young(d)' => Young(d) /\ d # c
    BY <1>2 DEF Insert, Young, Stages
  <2>2. \A e, f : Apart(e, f) => Apart(e, f)' /\ Apart(f, e)'
    BY <2>1 DEF Apart
  <2>3. OneNameIn(table)'
    BY <2>1, <2>2 DEF Named, OneNameIn, Apart
  <2> QED  BY <2>1, <2>2, <2>3 DEF Named, OneNameIn
<1>3. ASSUME NEW s \in Savers, TakeList(s) PROVE Named'
  <2>1. /\ \A t \in Savers : taken'[t].list = (IF t = s THEN table ELSE taken[t].list)
        /\ UNCHANGED <<table, state, scratch, name, kind, beside, env>>
        /\ \A d \in Callers : Young(d)' => Young(d)
    BY <1>3 DEF TakeList, Young
  <2>2. \A e, f : Apart(e, f) => Apart(e, f)'
    BY <2>1 DEF Apart
  <2> QED  BY <2>1, <2>2 DEF Named, OneNameIn
<1>4. ASSUME NEW s \in Savers, WriteList(s) PROVE Named'
  <2>1. /\ scratch'.list \in {{}, scratch.list, taken[s].list}
        /\ state'.list \in {{}, state.list, taken[s].list}
        /\ UNCHANGED <<table, taken, name, kind, beside, env>>
        /\ \A d \in Callers : Young(d)' => Young(d)
    BY <1>4 DEF WriteList, Written, Whole, Unwritten, Young
  <2>2. \A e, f : Apart(e, f) => Apart(e, f)'
    BY <2>1 DEF Apart
  <2> QED  BY <2>1, <2>2 DEF Named, OneNameIn
<1>5. ASSUME NEW s \in Savers, Rename(s) PROVE Named'
  <2>1. /\ state' = scratch /\ scratch'.list = {}
        /\ \A t \in Savers : taken'[t].list \subseteq taken[t].list
        /\ UNCHANGED <<table, name, kind, beside, env>>
        /\ \A d \in Callers : Young(d)' => Young(d)
    BY <1>5 DEF Rename, Unwritten, Blank, Young
  <2>2. \A e, f : Apart(e, f) => Apart(e, f)'
    BY <2>1 DEF Apart
  <2> QED  BY <2>1, <2>2 DEF Named, OneNameIn
<1>6. ASSUME Open PROVE Named'
  <2>1. /\ table' = state.list /\ UNCHANGED <<state, scratch, taken, name, kind, beside>>
        /\ \A d \in Callers : ~ Young(d)'
    BY <1>6 DEF Open, Young, Shifts
  <2>2. \A e, f : Apart(e, f) => Apart(e, f)'
    BY <2>1 DEF Apart
  <2> QED  BY <2>1, <2>2 DEF Named, OneNameIn
<1>7. ASSUME NEW c \in Callers, NEW e \in Envs,
             AskStart(c, e) \/ AskStop(c, e) \/ AskDestroy(c, e) \/ AskShell(c, e)
      PROVE  Named'
  <2>1. UNCHANGED <<table, name, kind, beside, state, scratch, taken>>
    BY <1>7 DEF AskStart, AskStop, AskDestroy, AskShell
  <2>2. \A d \in Callers : Young(d)' => Young(d) /\ env'[d] = env[d]
    BY <1>7 DEF AskStart, AskStop, AskDestroy, AskShell, Young
  <2> QED  BY <2>1, <2>2, NamesLeftAlone
<1>8. ASSUME NEW c \in Callers, Work(c), ~ Insert(c) PROVE Named'
  <2>1. /\ table' \subseteq table /\ UNCHANGED <<name, kind, beside, state, scratch>>
        /\ taken' = taken \/ taken' = [taken EXCEPT ![c] = Blank]
    BY <1>8 DEF Work, MakeRoom, StartRoom, AnswerNew, CloneFails, CloseSessions, Halt, Unmake,
       RemoveEntry, AnswerDestroy, DockerFails, Unseen, StartShell
  <2>2. \A d \in Callers : Young(d)' => Young(d) /\ env'[d] = env[d]
    BY <1>8 DEF Work, MakeRoom, StartRoom, AnswerNew, CloneFails, CloseSessions, Halt, Unmake,
       RemoveEntry, AnswerDestroy, DockerFails, Unseen, StartShell, Young
  <2>3. \A s \in Savers : taken'[s].list \subseteq taken[s].list
    BY <2>1 DEF Blank
  <2> QED  BY <2>1, <2>2, <2>3, NamesLeftAlone
<1>9. ASSUME NEW s \in Savers, OpenScratch(s) \/ SaveFails(s) PROVE Named'
  <2>1. /\ table' \subseteq table /\ UNCHANGED <<name, kind, beside, state>>
        /\ scratch' = scratch \/ scratch' = Unwritten("empty")
        /\ taken' = taken \/ taken' = [taken EXCEPT ![s] = Blank]
    BY <1>9 DEF OpenScratch, SaveFails, SaveLost
  <2>2. \A d \in Callers : Young(d)' => Young(d) /\ env'[d] = env[d]
    BY <1>9 DEF OpenScratch, SaveFails, SaveLost, InSave, Young
  <2>3. scratch'.list \subseteq scratch.list /\ \A t \in Savers : taken'[t].list \subseteq taken[t].list
    BY <2>1 DEF Blank, Unwritten
  <2> QED  BY <2>1, <2>2, <2>3, NamesLeftAlone
<1>10. ASSUME NEW e \in Envs, SessionsEnd(e) PROVE Named'
  BY <1>10, NamesLeftAlone DEF SessionsEnd, Young
<1>11. ASSUME Crash PROVE Named'
  <2>1. /\ table' = {} /\ UNCHANGED <<name, kind, beside, state, scratch>>
        /\ \A s \in Savers : taken'[s].list = {}
        /\ \A d \in Callers : ~ Young(d)'
    BY <1>11 DEF Crash, Blank, Young
  <2> QED  BY <2>1, NamesLeftAlone
<1> QED  BY <1>1, <1>2, <1>3, <1>4, <1>5, <1>6, <1>7, <1>8, <1>9, <1>10, <1>11
      DEF Next, Save, Asks

\* With types, births and names are inductive.
LEMMA NamesInvKept == BirthInv /\ Named /\ [Next]_vars => BirthInv' /\ Named'
<1>1. ASSUME BirthInv, Named, UNCHANGED vars PROVE BirthInv' /\ Named'
  <2>1. HostInv' /\ Births'
    BY <1>1 DEF BirthInv, HostInv, TypeOK, Shifts, Stages, Births, Young, vars, disk, savers,
       rooms, promises, strays, races, history
  <2>2. Named'
    BY <1>1, NamesLeftAlone DEF Young, vars, disk, savers, races, history
  <2> QED  BY <2>1, <2>2 DEF BirthInv
<1> QED  BY <1>1, HostInvKept, BirthsKept, NamedKept DEF BirthInv

\* However many connections create, destroy and save at once, through crashes
\* and failures, two environments of the host, or of the list it would come
\* back to, have names of their own, and a local host has one room; unless
\* one was asked for while the other was being made.
THEOREM NamesAreUnique == Spec => []OneName
<1>1. BirthInv /\ Named => OneName
  BY DEF Named, OneName
<1> QED  BY <1>1, HostStarts, NamesInvKept, PTL DEF Spec

-----------------------------------------------------------------------------
(* The file, until two saves cross. *)

\* A save under way is alone, owns the scratch file and saves this host.
Scratch ==
    /\ \A s, t \in Savers : InSave(s) /\ InSave(t) => s = t
    /\ \A s \in Savers : InSave(s) => taken[s].id = id
    /\ \A s \in Savers : handle[s] = IF at[s] = "write" THEN "scratch" ELSE "none"
    /\ \A s \in Savers : at[s] = "write" => scratch.is = "empty"
    /\ \A s \in Savers : at[s] = "rename" => scratch = Whole(taken[s])

\* Between saves the file is whole and of this host.
File ==
    /\ state.is \in {"absent", "whole"}
    /\ daemon = "up" => state.is = "whole"
    /\ state.is = "absent" => state.list = {}
    /\ state.is = "whole" /\ daemon # "down" => state.id = id

\* An environment is in the file and in every list about to replace it.
Settled(e) == e \in state.list /\ \A s \in Savers : InSave(s) => e \in taken[s].list

\* An environment is in no list.
Purged(e) ==
    e \notin table \cup state.list /\ \A s \in Savers : InSave(s) => e \notin taken[s].list

\* What was promised, and what the callers' places say of it: a creation is
\* in the table before it saves, on disk before it is answered, and leaves
\* by a destruction only, which has saved before it is answered.
Lists ==
    /\ \A e \in answered : Settled(e) /\ (daemon # "down" => e \in table)
    /\ \A e \in gone : Purged(e)
    /\ answered \cap doomed = {}
    /\ daemon # "down" =>
          \A e \in table \ stranded :
              Settled(e) \/ \E c \in Callers : op[c] = "new" /\ env[c] = e
    /\ daemon = "opening" => table = state.list
    /\ \A c \in Callers :
          /\ op[c] = "new" /\ at[c] \in Saving \cup {"clone"} /\ env[c] \notin doomed =>
                env[c] \in table
          /\ at[c] = "clone" /\ env[c] \in table => Settled(env[c])
          /\ op[c] = "new" /\ InSave(c) /\ env[c] \in table => env[c] \in taken[c].list
          /\ op[c] \in {"rm", "undo"} /\ at[c] \in Saving \cup {"answer"} =>
                env[c] \notin table
          /\ op[c] \in {"rm", "undo"} /\ InSave(c) => env[c] \notin taken[c].list
          /\ at[c] = "answer" => Purged(env[c])

DiskInv == Scratch /\ File /\ Lists

\* Until two saves cross, the scratch file is left to the save under way.
LEMMA ScratchKept ==
    ASSUME BirthInv, DiskInv, ~ crossed', Next
    PROVE  Scratch'
<1> USE Identities DEF disk, rooms, promises, strays, races, history, Goto, Rest, Ask,
         Request, Fault, savers, Savers, BirthInv, HostInv, TypeOK, DiskInv, Scratch, InSave
<1>1. ASSUME NEW c \in Callers, NEW n \in Names, NEW e \in Envs, AskNew(c, n, e) PROVE Scratch'
  BY <1>1 DEF AskNew
<1>2. ASSUME NEW c \in Callers, NEW e \in Envs, AskStart(c, e) PROVE Scratch'
  BY <1>2 DEF AskStart
<1>3. ASSUME NEW c \in Callers, NEW e \in Envs, AskStop(c, e) PROVE Scratch'
  BY <1>3 DEF AskStop
<1>4. ASSUME NEW c \in Callers, NEW e \in Envs, AskDestroy(c, e) PROVE Scratch'
  BY <1>4 DEF AskDestroy
<1>5. ASSUME NEW c \in Callers, NEW e \in Envs, AskShell(c, e) PROVE Scratch'
  BY <1>5 DEF AskShell
<1>6. ASSUME NEW c \in Callers, StartShell(c) PROVE Scratch'
  BY <1>6 DEF StartShell
<1>7. ASSUME NEW c \in Callers, MakeRoom(c) PROVE Scratch'
  BY <1>7 DEF MakeRoom
<1>8. ASSUME NEW c \in Callers, StartRoom(c) PROVE Scratch'
  BY <1>8 DEF StartRoom
<1>9. ASSUME NEW c \in Callers, Insert(c) PROVE Scratch'
  BY <1>9 DEF Insert
<1>10. ASSUME NEW c \in Callers, AnswerNew(c) PROVE Scratch'
  BY <1>10 DEF AnswerNew
<1>11. ASSUME NEW c \in Callers, CloneFails(c) PROVE Scratch'
  BY <1>11 DEF CloneFails
<1>12. ASSUME NEW c \in Callers, CloseSessions(c) PROVE Scratch'
  BY <1>12 DEF CloseSessions
<1>13. ASSUME NEW c \in Callers, Halt(c) PROVE Scratch'
  BY <1>13 DEF Halt
<1>14. ASSUME NEW c \in Callers, Unmake(c) PROVE Scratch'
  BY <1>14 DEF Unmake
<1>15. ASSUME NEW c \in Callers, RemoveEntry(c) PROVE Scratch'
  BY <1>15 DEF RemoveEntry
<1>16. ASSUME NEW c \in Callers, AnswerDestroy(c) PROVE Scratch'
  BY <1>16 DEF AnswerDestroy
<1>17. ASSUME NEW c \in Callers, DockerFails(c) PROVE Scratch'
  BY <1>17 DEF DockerFails
<1>18. ASSUME NEW c \in Callers, Unseen(c) PROVE Scratch'
  BY <1>18 DEF Unseen
<1>19. ASSUME NEW s \in Savers, TakeList(s) PROVE Scratch'
  BY <1>19 DEF TakeList
<1>20. ASSUME NEW s \in Savers, OpenScratch(s) PROVE Scratch'
  BY <1>20 DEF OpenScratch, Unwritten
<1>21. ASSUME NEW s \in Savers, WriteList(s) PROVE Scratch'
  BY <1>21 DEF WriteList, Written, Whole, Unwritten
<1>22. ASSUME NEW s \in Savers, Rename(s) PROVE Scratch'
  BY <1>22 DEF Rename, Moved, Unwritten, Blank
<1>23. ASSUME NEW s \in Savers, SaveFails(s) PROVE Scratch'
  BY <1>23 DEF SaveFails, SaveLost, Shifts, Saving
<1>24. ASSUME NEW e \in Envs, SessionsEnd(e) PROVE Scratch'
  BY <1>24 DEF SessionsEnd
<1>25. ASSUME Crash PROVE Scratch'
  BY <1>25 DEF Crash, Blank
<1>26. ASSUME Open PROVE Scratch'
  BY <1>26 DEF Open
<1> QED  BY <1>1, <1>2, <1>3, <1>4, <1>5, <1>6, <1>7, <1>8, <1>9, <1>10, <1>11, <1>12,
      <1>13, <1>14, <1>15, <1>16, <1>17, <1>18, <1>19, <1>20, <1>21, <1>22, <1>23, <1>24,
      <1>25, <1>26 DEF Next, Save, Work, Asks

\* Until two saves cross, the file stays whole and the host's own.
LEMMA FileKept ==
    ASSUME BirthInv, DiskInv, ~ crossed', Next
    PROVE  File'
<1> USE Identities DEF disk, rooms, promises, strays, races, history, Goto, Rest, Ask,
         Request, Fault, savers, Savers, BirthInv, HostInv, TypeOK, DiskInv, File
<1>1. ASSUME NEW c \in Callers, NEW n \in Names, NEW e \in Envs, AskNew(c, n, e) PROVE File'
  BY <1>1 DEF AskNew
<1>2. ASSUME NEW c \in Callers, NEW e \in Envs, AskStart(c, e) PROVE File'
  BY <1>2 DEF AskStart
<1>3. ASSUME NEW c \in Callers, NEW e \in Envs, AskStop(c, e) PROVE File'
  BY <1>3 DEF AskStop
<1>4. ASSUME NEW c \in Callers, NEW e \in Envs, AskDestroy(c, e) PROVE File'
  BY <1>4 DEF AskDestroy
<1>5. ASSUME NEW c \in Callers, NEW e \in Envs, AskShell(c, e) PROVE File'
  BY <1>5 DEF AskShell
<1>6. ASSUME NEW c \in Callers, StartShell(c) PROVE File'
  BY <1>6 DEF StartShell
<1>7. ASSUME NEW c \in Callers, MakeRoom(c) PROVE File'
  BY <1>7 DEF MakeRoom
<1>8. ASSUME NEW c \in Callers, StartRoom(c) PROVE File'
  BY <1>8 DEF StartRoom
<1>9. ASSUME NEW c \in Callers, Insert(c) PROVE File'
  BY <1>9 DEF Insert
<1>10. ASSUME NEW c \in Callers, AnswerNew(c) PROVE File'
  BY <1>10 DEF AnswerNew
<1>11. ASSUME NEW c \in Callers, CloneFails(c) PROVE File'
  BY <1>11 DEF CloneFails
<1>12. ASSUME NEW c \in Callers, CloseSessions(c) PROVE File'
  BY <1>12 DEF CloseSessions
<1>13. ASSUME NEW c \in Callers, Halt(c) PROVE File'
  BY <1>13 DEF Halt
<1>14. ASSUME NEW c \in Callers, Unmake(c) PROVE File'
  BY <1>14 DEF Unmake
<1>15. ASSUME NEW c \in Callers, RemoveEntry(c) PROVE File'
  BY <1>15 DEF RemoveEntry
<1>16. ASSUME NEW c \in Callers, AnswerDestroy(c) PROVE File'
  BY <1>16 DEF AnswerDestroy
<1>17. ASSUME NEW c \in Callers, DockerFails(c) PROVE File'
  BY <1>17 DEF DockerFails
<1>18. ASSUME NEW c \in Callers, Unseen(c) PROVE File'
  BY <1>18 DEF Unseen
<1>19. ASSUME NEW s \in Savers, TakeList(s) PROVE File'
  BY <1>19 DEF TakeList
<1>20. ASSUME NEW s \in Savers, OpenScratch(s) PROVE File'
  BY <1>20 DEF OpenScratch
<1>21. ASSUME NEW s \in Savers, WriteList(s) PROVE File'
  BY <1>21 DEF WriteList, Scratch
<1>22. ASSUME NEW s \in Savers, Rename(s) PROVE File'
  BY <1>22 DEF Rename, Scratch, InSave, Whole
<1>23. ASSUME NEW s \in Savers, SaveFails(s) PROVE File'
  BY <1>23 DEF SaveFails, SaveLost
<1>24. ASSUME NEW e \in Envs, SessionsEnd(e) PROVE File'
  BY <1>24 DEF SessionsEnd
<1>25. ASSUME Crash PROVE File'
  BY <1>25 DEF Crash
<1>26. ASSUME Open PROVE File'
  <2> HIDE DEF BirthInv, HostInv, TypeOK, Scratch, File, Goto
  <2>1. UNCHANGED <<state, scratch>> /\ daemon' = "opening"
    BY <1>26 DEF Open
  <2>2. state.is = "whole" => id' = state.id
    BY <1>26 DEF Open
  <2> QED  BY <2>1, <2>2 DEF File
<1> QED  BY <1>1, <1>2, <1>3, <1>4, <1>5, <1>6, <1>7, <1>8, <1>9, <1>10, <1>11, <1>12,
      <1>13, <1>14, <1>15, <1>16, <1>17, <1>18, <1>19, <1>20, <1>21, <1>22, <1>23, <1>24,
      <1>25, <1>26 DEF Next, Save, Work, Asks

\* Until two saves cross, what was promised is kept.
LEMMA ListsKept ==
    ASSUME BirthInv, DiskInv, ~ crossed', Next
    PROVE  Lists'
<1> USE Identities DEF disk, rooms, promises, strays, races, history, Goto, Rest, Ask,
         Request, Fault, savers, Savers, BirthInv, HostInv, TypeOK, Stages, Saving, DiskInv,
         Lists, Settled, Purged, InSave
<1>1. ASSUME NEW c \in Callers, NEW n \in Names, NEW e \in Envs, AskNew(c, n, e) PROVE Lists'
  BY <1>1 DEF AskNew, Births
<1>2. ASSUME NEW c \in Callers, NEW e \in Envs, AskStart(c, e) PROVE Lists'
  BY <1>2 DEF AskStart
<1>3. ASSUME NEW c \in Callers, NEW e \in Envs, AskStop(c, e) PROVE Lists'
  BY <1>3 DEF AskStop
<1>4. ASSUME NEW c \in Callers, NEW e \in Envs, AskDestroy(c, e) PROVE Lists'
  BY <1>4 DEF AskDestroy, Births
<1>5. ASSUME NEW c \in Callers, NEW e \in Envs, AskShell(c, e) PROVE Lists'
  BY <1>5 DEF AskShell
<1>6. ASSUME NEW c \in Callers, StartShell(c) PROVE Lists'
  BY <1>6 DEF StartShell
<1>7. ASSUME NEW c \in Callers, MakeRoom(c) PROVE Lists'
  BY <1>7 DEF MakeRoom
<1>8. ASSUME NEW c \in Callers, StartRoom(c) PROVE Lists'
  BY <1>8 DEF StartRoom
<1>9. ASSUME NEW c \in Callers, Insert(c) PROVE Lists'
  <2>1. /\ table' = table \cup {env[c]} /\ at' = [at EXCEPT ![c] = "take"]
        /\ UNCHANGED <<daemon, state, taken, op, env, answered, doomed, gone, stranded>>
        /\ Young(c)
    BY <1>9 DEF Insert, Young
  <2>2. env[c] \notin answered \cup doomed \cup gone
    BY <2>1 DEF Births
  <2>3. \A t \in Savers : InSave(t)' <=> InSave(t)
    BY <1>9 DEF Insert
  <2>4. \A e : Settled(e)' <=> Settled(e)
    BY <2>1, <2>3
  <2>5. \A e : Purged(e) /\ e # env[c] => Purged(e)'
    BY <2>1, <2>3
  <2>6. \A d \in Callers : op[d] \in {"rm", "undo"} => env[d] # env[c]
    BY <2>2 DEF Births
  <2>7. daemon = "up"
    BY <1>9 DEF Insert, Shifts
  <2>8. \A d \in Callers \ {c} : op[d] = "new" => env[d] # env[c]
    BY <2>1 DEF Births, Young
  <2>9. (\A e \in answered : Settled(e) /\ (daemon # "down" => e \in table))'
    BY <2>1, <2>4
  <2>10. (\A e \in gone : Purged(e))'
    BY <2>1, <2>2, <2>5
  <2>11. \A e \in table' \ stranded : Settled(e)' \/ \E d \in Callers : op[d] = "new" /\ env[d] = e
    BY <2>1, <2>4, <2>7 DEF Young
  <2>12. \A d \in Callers :
          /\ op[d] = "new" /\ at'[d] \in Saving \cup {"clone"} /\ env[d] \notin doomed =>
                env[d] \in table'
          /\ at'[d] = "clone" /\ env[d] \in table' => Settled(env[d])
          /\ op[d] = "new" /\ InSave(d)' /\ env[d] \in table' => env[d] \in taken[d].list
          /\ op[d] \in {"rm", "undo"} /\ at'[d] \in Saving \cup {"answer"} =>
                env[d] \notin table'
          /\ op[d] \in {"rm", "undo"} /\ InSave(d)' => env[d] \notin taken[d].list
    BY <2>1, <2>6, <2>8 DEF Young
  <2>13. \A d \in Callers : at'[d] = "answer" => Purged(env[d])'
    BY <2>1, <2>5, <2>6
  <2> HIDE DEF Settled, Purged, InSave
  <2> QED  BY <2>1, <2>4, <2>7, <2>9, <2>10, <2>11, <2>12, <2>13
<1>10. ASSUME NEW c \in Callers, AnswerNew(c) PROVE Lists'
  BY <1>10 DEF AnswerNew, Births
<1>11. ASSUME NEW c \in Callers, CloneFails(c) PROVE Lists'
  <2>1. /\ UNCHANGED <<daemon, table, state, answered, gone, stranded>>
        /\ doomed' = doomed \cup {env[c]} /\ at[c] = "clone" /\ op[c] = "new"
    BY <1>11 DEF CloneFails
  <2>2. /\ \A d \in Callers \ {c} : UNCHANGED <<at[d], op[d], env[d]>>
        /\ op'[c] \in {"none", "undo"} /\ at'[c] \in {"idle", "close"}
        /\ \A t \in Savers : (InSave(t)' <=> InSave(t)) /\ (InSave(t) => taken'[t] = taken[t])
    BY <1>11 DEF CloneFails
  <2>3. \A e : (Settled(e)' <=> Settled(e)) /\ (Purged(e)' <=> Purged(e))
    BY <2>1, <2>2
  <2>4. env[c] \notin answered
    BY <2>1 DEF Births
  <2>5. \A e \in table : e = env[c] => Settled(e)
    BY <2>1
  <2>6. (\A e \in table \ stranded : Settled(e) \/ \E d \in Callers : op[d] = "new" /\ env[d] = e)
        => \A e \in table \ stranded :
              Settled(e) \/ \E d \in Callers : op'[d] = "new" /\ env'[d] = e
    BY <2>2, <2>5
  <2>7. \A d \in Callers \ {c} : InSave(d) => taken'[d] = taken[d]
    BY <2>2
  <2> HIDE DEF Settled, Purged, InSave
  <2>8. (\A d \in Callers :
          /\ op[d] = "new" /\ at[d] \in Saving \cup {"clone"} /\ env[d] \notin doomed =>
                env[d] \in table
          /\ at[d] = "clone" /\ env[d] \in table => Settled(env[d])
          /\ op[d] = "new" /\ InSave(d) /\ env[d] \in table => env[d] \in taken[d].list
          /\ op[d] \in {"rm", "undo"} /\ at[d] \in Saving \cup {"answer"} =>
                env[d] \notin table
          /\ op[d] \in {"rm", "undo"} /\ InSave(d) => env[d] \notin taken[d].list
          /\ at[d] = "answer" => Purged(env[d]))'
    BY <2>1, <2>2, <2>3, <2>7 DEF InSave
  <2> QED  BY <2>1, <2>3, <2>4, <2>6, <2>8
<1>12. ASSUME NEW c \in Callers, CloseSessions(c) PROVE Lists'
  BY <1>12 DEF CloseSessions
<1>13. ASSUME NEW c \in Callers, Halt(c) PROVE Lists'
  BY <1>13 DEF Halt
<1>14. ASSUME NEW c \in Callers, Unmake(c) PROVE Lists'
  BY <1>14 DEF Unmake
<1>15. ASSUME NEW c \in Callers, RemoveEntry(c) PROVE Lists'
  <2>1. /\ table' = table \ {env[c]} /\ at' = [at EXCEPT ![c] = "take"]
        /\ UNCHANGED <<daemon, state, taken, op, env, answered, doomed, gone, stranded>>
        /\ op[c] \in {"rm", "undo"} /\ at[c] = "remove" /\ daemon = "up"
    BY <1>15 DEF RemoveEntry, Shifts
  <2>2. env[c] \in doomed
    BY <2>1 DEF Births
  <2>3. \A t \in Savers : InSave(t)' <=> InSave(t)
    BY <1>15 DEF RemoveEntry
  <2>4. \A e : (Settled(e)' <=> Settled(e)) /\ (Purged(e) => Purged(e)')
    BY <2>1, <2>3
  <2> HIDE DEF Settled, Purged, InSave
  <2>5. (\A d \in Callers :
          /\ op[d] = "new" /\ at[d] \in Saving \cup {"clone"} /\ env[d] \notin doomed =>
                env[d] \in table
          /\ at[d] = "clone" /\ env[d] \in table => Settled(env[d])
          /\ op[d] = "new" /\ InSave(d) /\ env[d] \in table => env[d] \in taken[d].list
          /\ op[d] \in {"rm", "undo"} /\ at[d] \in Saving \cup {"answer"} =>
                env[d] \notin table
          /\ op[d] \in {"rm", "undo"} /\ InSave(d) => env[d] \notin taken[d].list
          /\ at[d] = "answer" => Purged(env[d]))'
    BY <2>1, <2>2, <2>3, <2>4
  <2> QED  BY <2>1, <2>2, <2>4, <2>5
<1>16. ASSUME NEW c \in Callers, AnswerDestroy(c) PROVE Lists'
  BY <1>16 DEF AnswerDestroy, Births
<1>17. ASSUME NEW c \in Callers, DockerFails(c) PROVE Lists'
  BY <1>17 DEF DockerFails
<1>18. ASSUME NEW c \in Callers, Unseen(c) PROVE Lists'
  <2>1. CASE at[c] = "unmake"
    <3>1. /\ at' = [at EXCEPT ![c] = "remove"] /\ op[c] \in {"rm", "undo"}
          /\ UNCHANGED <<daemon, table, state, op, env, taken, answered, doomed, gone, stranded>>
      BY <1>18, <2>1 DEF Unseen
    <3> QED  BY <2>1, <3>1
  <2>2. CASE at[c] = "halt"
    <3>1. Rest(c) /\ op[c] = "stop"
          /\ UNCHANGED <<daemon, table, state, answered, doomed, gone, stranded>>
      BY <1>18, <2>2 DEF Unseen
    <3> QED  BY <2>2, <3>1
  <2> QED  BY <1>18, <2>1, <2>2 DEF Unseen
<1>19. ASSUME NEW s \in Savers, TakeList(s) PROVE Lists'
  BY <1>19 DEF TakeList, Births
<1>20. ASSUME NEW s \in Savers, OpenScratch(s) PROVE Lists'
  BY <1>20 DEF OpenScratch
<1>21. ASSUME NEW s \in Savers, WriteList(s) PROVE Lists'
  BY <1>21 DEF WriteList, Scratch, Written
<1>22. ASSUME NEW s \in Savers, Rename(s) PROVE Lists'
  <2>1. /\ UNCHANGED <<table, op, env, answered, doomed, gone, stranded>>
        /\ state'.list = taken[s].list /\ InSave(s)
    BY <1>22 DEF Rename, Scratch, Whole
  <2>2. \A t \in Savers : ~ InSave(t)'
    BY <1>22, <2>1 DEF Rename, Scratch
  <2>3. \A e : Settled(e) => Settled(e)'
    BY <2>1, <2>2
  <2>4. \A e : Purged(e) => Purged(e)'
    BY <2>1, <2>2
  <2>5. daemon' = "opening" => daemon = "opening" /\ s # Opener
    BY <1>22 DEF Rename
  <2>6. s # Opener => daemon = "up"
    BY <1>22 DEF Rename, Shifts
  <2>7. daemon # "down" /\ daemon' # "down"
    BY <1>22 DEF Rename, Shifts
  <2>8. \A d \in Callers : d # s => at'[d] = at[d]
    BY <1>22 DEF Rename
  <2>9. s \in Callers => at'[s] = IF op[s] = "new" THEN "clone" ELSE "answer"
    BY <1>22 DEF Rename
  <2>10. s \in Callers /\ op[s] = "new" /\ env[s] \in table => Settled(env[s])'
    BY <2>1, <2>2
  <2>11. s \in Callers /\ op[s] # "new" => op[s] \in {"rm", "undo"} /\ Purged(env[s])'
    BY <2>1, <2>2
  <2>12. \A d \in Callers : d # s =>
          /\ op[d] = "new" /\ at[d] \in Saving \cup {"clone"} /\ env[d] \notin doomed =>
                env[d] \in table
          /\ at[d] = "clone" /\ env[d] \in table => Settled(env[d])'
          /\ op[d] \in {"rm", "undo"} /\ at[d] \in Saving \cup {"answer"} =>
                env[d] \notin table
          /\ at[d] = "answer" => Purged(env[d])'
    <3> HIDE DEF Settled, Purged, InSave
    <3> QED  BY <2>1, <2>3, <2>4
  <2> HIDE DEF Settled, Purged, InSave
  <2>13. s \in Callers =>
          /\ op[s] = "new" /\ env[s] \notin doomed => env[s] \in table
          /\ op[s] \in {"rm", "undo"} => env[s] \notin table
    BY <2>1 DEF InSave
  <2>14. (\A d \in Callers :
          /\ op[d] = "new" /\ at[d] \in Saving \cup {"clone"} /\ env[d] \notin doomed =>
                env[d] \in table
          /\ at[d] = "clone" /\ env[d] \in table => Settled(env[d])
          /\ op[d] = "new" /\ InSave(d) /\ env[d] \in table => env[d] \in taken[d].list
          /\ op[d] \in {"rm", "undo"} /\ at[d] \in Saving \cup {"answer"} =>
                env[d] \notin table
          /\ op[d] \in {"rm", "undo"} /\ InSave(d) => env[d] \notin taken[d].list
          /\ at[d] = "answer" => Purged(env[d]))'
    BY <2>1, <2>2, <2>8, <2>9, <2>10, <2>11, <2>12, <2>13
  <2> QED  BY <2>1, <2>3, <2>4, <2>5, <2>6, <2>7, <2>14
<1>23. ASSUME NEW s \in Savers, SaveFails(s) PROVE Lists'
  BY <1>23 DEF SaveFails, SaveLost, Shifts
<1>24. ASSUME NEW e \in Envs, SessionsEnd(e) PROVE Lists'
  BY <1>24 DEF SessionsEnd
<1>25. ASSUME Crash PROVE Lists'
  BY <1>25 DEF Crash
<1>26. ASSUME Open PROVE Lists'
  <2>1. /\ daemon' = "opening" /\ table' = state.list /\ UNCHANGED <<state, op, env, taken, history>>
        /\ at' = [at EXCEPT ![Opener] = "take"]
    BY <1>26 DEF Open
  <2>2. \A s \in Savers : at[s] = "idle" /\ ~InSave(s) /\ ~InSave(s)'
    BY <1>26, <2>1 DEF Open, Shifts
  <2>3. \A c \in Callers : at'[c] = "idle" /\ op'[c] = "none"
    BY <2>1, <2>2
  <2>4. \A e : (Settled(e)' <=> e \in state.list) /\ (Purged(e)' <=> e \notin state.list)
    BY <2>1, <2>2
  <2>5. \A e \in answered : e \in state.list
    OBVIOUS
  <2>6. \A e \in gone : e \notin state.list
    OBVIOUS
  <2> HIDE DEF Settled, Purged, InSave, HostInv
  <2> QED  BY <2>1, <2>3, <2>4, <2>5, <2>6
<1> QED  BY <1>1, <1>2, <1>3, <1>4, <1>5, <1>6, <1>7, <1>8, <1>9, <1>10, <1>11, <1>12,
      <1>13, <1>14, <1>15, <1>16, <1>17, <1>18, <1>19, <1>20, <1>21, <1>22, <1>23, <1>24,
      <1>25, <1>26 DEF Next, Save, Work, Asks
-----------------------------------------------------------------------------
(* Keepers and containers, until two saves cross. *)

\* Keepers are under this host's id; the sessions of an environment were told
\* to end before it leaves the table, and those begun after that are late.
Keepers ==
    /\ kept # {} => state.is = "whole"
    /\ \A e \in kept : home[e] = state.id /\ (daemon # "down" => home[e] = id)
    /\ \A e \in kept \ (stranded \cup late) :
          IF daemon = "down" THEN e \in state.list ELSE e \in table
    /\ \A c \in Callers :
          op[c] \in {"rm", "undo"} /\ at[c] # "close" /\ env[c] \in kept => env[c] \in late

\* Its container goes before it leaves the table, or is left.
Rooms ==
    /\ \A e \in Envs :
          container[e] # "none" =>
              \/ e \in Coming \cup stranded \cup left
              \/ IF daemon = "down" THEN e \in state.list ELSE e \in table
    /\ \A c \in Callers :
          /\ op[c] \in {"rm", "undo"}
          /\ at[c] \notin {"close", "unmake"}
          /\ container[env[c]] # "none"
          => env[c] \in left

OwnedInv == DiskInv /\ Keepers /\ Rooms

\* Until two saves cross, no keeper is lost but the excused.
LEMMA KeepersKept ==
    ASSUME BirthInv, OwnedInv, ~ crossed', Next
    PROVE  Keepers'
<1> USE Identities DEF disk, rooms, promises, strays, races, history, Goto, Rest, Ask,
         Request, Fault, savers, Savers, BirthInv, HostInv, TypeOK, Stages, Saving, OwnedInv,
         Keepers
<1>1. ASSUME NEW c \in Callers, NEW n \in Names, NEW e \in Envs, AskNew(c, n, e) PROVE Keepers'
  BY <1>1 DEF AskNew
<1>2. ASSUME NEW c \in Callers, NEW e \in Envs, AskStart(c, e) PROVE Keepers'
  BY <1>2 DEF AskStart
<1>3. ASSUME NEW c \in Callers, NEW e \in Envs, AskStop(c, e) PROVE Keepers'
  BY <1>3 DEF AskStop
<1>4. ASSUME NEW c \in Callers, NEW e \in Envs, AskDestroy(c, e) PROVE Keepers'
  BY <1>4 DEF AskDestroy
<1>5. ASSUME NEW c \in Callers, NEW e \in Envs, AskShell(c, e) PROVE Keepers'
  BY <1>5 DEF AskShell
<1>6. ASSUME NEW c \in Callers, StartShell(c) PROVE Keepers'
  BY <1>6 DEF StartShell, DiskInv, File, Leaving, Shifts
<1>7. ASSUME NEW c \in Callers, MakeRoom(c) PROVE Keepers'
  BY <1>7 DEF MakeRoom
<1>8. ASSUME NEW c \in Callers, StartRoom(c) PROVE Keepers'
  BY <1>8 DEF StartRoom
<1>9. ASSUME NEW c \in Callers, Insert(c) PROVE Keepers'
  BY <1>9 DEF Insert, Shifts
<1>10. ASSUME NEW c \in Callers, AnswerNew(c) PROVE Keepers'
  BY <1>10 DEF AnswerNew
<1>11. ASSUME NEW c \in Callers, CloneFails(c) PROVE Keepers'
  BY <1>11 DEF CloneFails
<1>12. ASSUME NEW c \in Callers, CloseSessions(c) PROVE Keepers'
  BY <1>12 DEF CloseSessions, DiskInv, File, Shifts
<1>13. ASSUME NEW c \in Callers, Halt(c) PROVE Keepers'
  BY <1>13 DEF Halt
<1>14. ASSUME NEW c \in Callers, Unmake(c) PROVE Keepers'
  BY <1>14 DEF Unmake
<1>15. ASSUME NEW c \in Callers, RemoveEntry(c) PROVE Keepers'
  BY <1>15 DEF RemoveEntry, Shifts
<1>16. ASSUME NEW c \in Callers, AnswerDestroy(c) PROVE Keepers'
  BY <1>16 DEF AnswerDestroy
<1>17. ASSUME NEW c \in Callers, DockerFails(c) PROVE Keepers'
  BY <1>17 DEF DockerFails
<1>18. ASSUME NEW c \in Callers, Unseen(c) PROVE Keepers'
  BY <1>18 DEF Unseen
<1>19. ASSUME NEW s \in Savers, TakeList(s) PROVE Keepers'
  BY <1>19 DEF TakeList
<1>20. ASSUME NEW s \in Savers, OpenScratch(s) PROVE Keepers'
  BY <1>20 DEF OpenScratch
<1>21. ASSUME NEW s \in Savers, WriteList(s) PROVE Keepers'
  BY <1>21 DEF WriteList, DiskInv, Scratch
<1>22. ASSUME NEW s \in Savers, Rename(s) PROVE Keepers'
  BY <1>22 DEF Rename, DiskInv, Scratch, File, Lists, InSave, Whole, Shifts
<1>23. ASSUME NEW s \in Savers, SaveFails(s) PROVE Keepers'
  <2>1. CASE s = Opener
    <3>1. /\ daemon = "opening" /\ daemon' = "down" /\ UNCHANGED <<state, kept, home, late, stranded>>
          /\ \A d \in Callers : UNCHANGED <<op[d], at[d], env[d]>>
      BY <1>23, <2>1 DEF SaveFails, SaveLost, InSave, Shifts
    <3>2. table = state.list
      BY <3>1 DEF DiskInv, Lists
    <3> QED  BY <3>1, <3>2
  <2>2. CASE s \in Callers
    <3>1. /\ UNCHANGED <<daemon, id, table, state, kept, home, late>> /\ stranded \subseteq stranded'
          /\ \A d \in Callers \ {s} : UNCHANGED <<op[d], at[d], env[d]>>
          /\ op'[s] = "none"
      BY <1>23, <2>2 DEF SaveFails, SaveLost
    <3> QED  BY <3>1
  <2> QED  BY <2>1, <2>2
<1>24. ASSUME NEW e \in Envs, SessionsEnd(e) PROVE Keepers'
  BY <1>24 DEF SessionsEnd
<1>25. ASSUME Crash PROVE Keepers'
  BY <1>25 DEF Crash, DiskInv, Lists, Settled
<1>26. ASSUME Open PROVE Keepers'
  BY <1>26 DEF Open, DiskInv, File, Lists, Shifts
<1> QED  BY <1>1, <1>2, <1>3, <1>4, <1>5, <1>6, <1>7, <1>8, <1>9, <1>10, <1>11, <1>12,
      <1>13, <1>14, <1>15, <1>16, <1>17, <1>18, <1>19, <1>20, <1>21, <1>22, <1>23, <1>24,
      <1>25, <1>26 DEF Next, Save, Work, Asks

\* Until two saves cross, no container is lost but the excused.
LEMMA RoomsKept ==
    ASSUME BirthInv, OwnedInv, ~ crossed', Next
    PROVE  Rooms'
<1> USE Identities DEF disk, rooms, promises, strays, races, history, Goto, Rest, Ask,
         Request, Fault, savers, Savers, BirthInv, HostInv, TypeOK, Stages, Saving, OwnedInv,
         Rooms, Coming
<1>1. ASSUME NEW c \in Callers, NEW n \in Names, NEW e \in Envs, AskNew(c, n, e) PROVE Rooms'
  BY <1>1 DEF AskNew
<1>2. ASSUME NEW c \in Callers, NEW e \in Envs, AskStart(c, e) PROVE Rooms'
  BY <1>2 DEF AskStart
<1>3. ASSUME NEW c \in Callers, NEW e \in Envs, AskStop(c, e) PROVE Rooms'
  BY <1>3 DEF AskStop
<1>4. ASSUME NEW c \in Callers, NEW e \in Envs, AskDestroy(c, e) PROVE Rooms'
  BY <1>4 DEF AskDestroy
<1>5. ASSUME NEW c \in Callers, NEW e \in Envs, AskShell(c, e) PROVE Rooms'
  BY <1>5 DEF AskShell
<1>6. ASSUME NEW c \in Callers, StartShell(c) PROVE Rooms'
  BY <1>6 DEF StartShell
<1>7. ASSUME NEW c \in Callers, MakeRoom(c) PROVE Rooms'
  <2>1. /\ UNCHANGED <<daemon, table, state, left, stranded, op, env>>
        /\ at' = [at EXCEPT ![c] = "start"] /\ at[c] = "make" /\ op[c] = "new"
        /\ \A e \in Envs : e # env[c] => container'[e] = container[e]
    BY <1>7 DEF MakeRoom
  <2>2. Coming' = Coming /\ env[c] \in Coming
    BY <2>1
  <2>3. \A d \in Callers : op[d] \in {"rm", "undo"} => env[d] # env[c] /\ d # c /\ env[d] \in doomed
    BY <2>1 DEF Births, Young
  <2>4. \A d \in Callers : op[d] \in {"rm", "undo"} /\ at[d] # "idle" => env[d] \in Envs
    BY DEF Stages
  <2>5. \A d \in Callers : op[d] \in {"rm", "undo"} => at[d] # "idle"
    BY DEF Stages
  <2> HIDE DEF Coming
  <2> QED  BY <2>1, <2>2, <2>3, <2>4, <2>5
<1>8. ASSUME NEW c \in Callers, StartRoom(c) PROVE Rooms'
  <2>1. /\ UNCHANGED <<daemon, table, state, stranded>> /\ at[c] = "start"
        /\ left \subseteq left' /\ daemon = "up"
        /\ \A d \in Callers \ {c} : UNCHANGED <<op[d], env[d], at[d]>>
        /\ op[c] = "new" \/ op[c] = "start"
        /\ \A e \in Envs : e # env[c] => container'[e] = container[e]
    BY <1>8 DEF StartRoom, Shifts
  <2>2. CASE container' = container /\ left' = left
    <3>1. Coming' = Coming /\ op'[c] \in {"new", "none"}
      BY <1>8, <2>1 DEF StartRoom
    <3> HIDE DEF Coming
    <3> QED  BY <2>1, <2>2, <3>1
  <2>3. CASE op[c] = "new"
    <3>1. Coming' = Coming /\ env[c] \in Coming /\ op'[c] = "new"
      BY <1>8, <2>1, <2>3 DEF StartRoom
    <3>2. \A d \in Callers : op[d] \in {"rm", "undo"} => env[d] # env[c] /\ d # c /\ env[d] \in Envs
      BY <2>1, <2>3 DEF Births, Young
    <3> HIDE DEF Coming
    <3> QED  BY <2>1, <3>1, <3>2
  <2>4. CASE op[c] = "start" /\ left' = left \cup Revived(c)
    <3>1. Coming' = Coming /\ op'[c] = "none"
      BY <1>8, <2>4 DEF StartRoom
    <3>2. env[c] \in left' \/ (env[c] \in table /\ ~ Leaving(env[c], {"close", "unmake"}))
      BY <2>4 DEF Revived
    <3>3. \A d \in Callers : op[d] \in {"rm", "undo"} /\ at[d] \notin {"close", "unmake"}
              /\ env[d] = env[c] => env[c] \in left'
      BY <3>2 DEF Leaving
    <3>4. \A d \in Callers : op[d] \in {"rm", "undo"} => env[d] \in Envs
      OBVIOUS
    <3> HIDE DEF Coming
    <3> QED  BY <2>1, <2>4, <3>1, <3>2, <3>3, <3>4
  <2> QED  BY <1>8, <2>1, <2>2, <2>3, <2>4 DEF StartRoom
<1>9. ASSUME NEW c \in Callers, Insert(c) PROVE Rooms'
  BY <1>9 DEF Insert, Shifts
<1>10. ASSUME NEW c \in Callers, AnswerNew(c) PROVE Rooms'
  BY <1>10 DEF AnswerNew
<1>11. ASSUME NEW c \in Callers, CloneFails(c) PROVE Rooms'
  BY <1>11 DEF CloneFails
<1>12. ASSUME NEW c \in Callers, CloseSessions(c) PROVE Rooms'
  BY <1>12 DEF CloseSessions
<1>13. ASSUME NEW c \in Callers, Halt(c) PROVE Rooms'
  BY <1>13 DEF Halt
<1>14. ASSUME NEW c \in Callers, Unmake(c) PROVE Rooms'
  BY <1>14 DEF Unmake, Births
<1>15. ASSUME NEW c \in Callers, RemoveEntry(c) PROVE Rooms'
  BY <1>15 DEF RemoveEntry, Shifts
<1>16. ASSUME NEW c \in Callers, AnswerDestroy(c) PROVE Rooms'
  BY <1>16 DEF AnswerDestroy
<1>17. ASSUME NEW c \in Callers, DockerFails(c) PROVE Rooms'
  <2>1. /\ UNCHANGED <<daemon, table, state>> /\ daemon = "up"
        /\ left \subseteq left' /\ stranded \subseteq stranded'
        /\ \A d \in Callers \ {c} : UNCHANGED <<op[d], env[d], at[d]>>
        /\ op'[c] = "none" /\ env[c] \in Envs
        /\ \A e \in Envs : e # env[c] => container'[e] = container[e]
        /\ op[c] = "new" => env[c] \in stranded'
    BY <1>17 DEF DockerFails, Shifts
  <2>2. \A e \in Coming : e \in Coming' \/ e \in stranded'
    BY <2>1
  <2>3. \A d \in Callers : op[d] \in {"rm", "undo"} => env[d] \in Envs
    OBVIOUS
  <2>4. CASE container' = container
    <3> HIDE DEF Coming
    <3> QED  BY <2>1, <2>2, <2>4
  <2>5. CASE op[c] = "new"
    <3>1. \A d \in Callers : op[d] \in {"rm", "undo"} => env[d] # env[c]
      BY <1>17, <2>5 DEF DockerFails, Births, Young
    <3> HIDE DEF Coming
    <3> QED  BY <2>1, <2>2, <2>3, <2>5, <3>1
  <2>6. CASE op[c] = "start" /\ left' = left \cup Revived(c)
    <3>1. env[c] \in left' \/ (env[c] \in table /\ ~ Leaving(env[c], {"close", "unmake"}))
      BY <2>6 DEF Revived
    <3>2. \A d \in Callers : op[d] \in {"rm", "undo"} /\ at[d] \notin {"close", "unmake"}
              /\ env[d] = env[c] => env[c] \in left'
      BY <3>1 DEF Leaving
    <3> HIDE DEF Coming
    <3> QED  BY <2>1, <2>2, <2>3, <2>6, <3>1, <3>2
  <2>7. container' = container \/ (at[c] = "start" /\ left' = left \cup Revived(c))
    BY <1>17 DEF DockerFails
  <2> QED  BY <2>4, <2>5, <2>6, <2>7
<1>18. ASSUME NEW c \in Callers, Unseen(c) PROVE Rooms'
  <2>1. /\ UNCHANGED <<daemon, table, state, stranded, container>>
        /\ left \subseteq left' /\ env[c] \in Envs
        /\ \A d \in Callers \ {c} : UNCHANGED <<op[d], env[d], at[d]>>
        /\ at[c] \in {"unmake", "halt"}
    BY <1>18 DEF Unseen
  <2>2. Coming \subseteq Coming'
    BY <2>1
  <2>3. op'[c] = "none" \/ (env'[c] = env[c] /\ env[c] \in left')
    BY <1>18 DEF Unseen
  <2> HIDE DEF Coming
  <2> QED  BY <2>1, <2>2, <2>3
<1>19. ASSUME NEW s \in Savers, TakeList(s) PROVE Rooms'
  BY <1>19 DEF TakeList
<1>20. ASSUME NEW s \in Savers, OpenScratch(s) PROVE Rooms'
  BY <1>20 DEF OpenScratch
<1>21. ASSUME NEW s \in Savers, WriteList(s) PROVE Rooms'
  BY <1>21 DEF WriteList, DiskInv, Scratch
<1>22. ASSUME NEW s \in Savers, Rename(s) PROVE Rooms'
  BY <1>22 DEF Rename, DiskInv, Lists, Shifts
<1>23. ASSUME NEW s \in Savers, SaveFails(s) PROVE Rooms'
  <2>1. CASE s = Opener
    <3>1. /\ daemon = "opening" /\ daemon' = "down" /\ UNCHANGED <<state, container, left, stranded>>
          /\ \A d \in Callers : UNCHANGED <<op[d], at[d], env[d]>>
      BY <1>23, <2>1 DEF SaveFails, SaveLost, InSave, Shifts
    <3>2. table = state.list
      BY <3>1 DEF DiskInv, Lists
    <3> QED  BY <3>1, <3>2
  <2>2. CASE s \in Callers
    <3>1. /\ UNCHANGED <<daemon, table, state, container, left>> /\ stranded \subseteq stranded'
          /\ \A d \in Callers \ {s} : UNCHANGED <<op[d], at[d], env[d]>>
          /\ op'[s] = "none" /\ at[s] \in {"open", "write", "rename"}
      BY <1>23, <2>2 DEF SaveFails, SaveLost, InSave
    <3>2. Coming \subseteq Coming'
      BY <3>1
    <3> HIDE DEF Coming
    <3> QED  BY <3>1, <3>2
  <2> QED  BY <2>1, <2>2
<1>24. ASSUME NEW e \in Envs, SessionsEnd(e) PROVE Rooms'
  BY <1>24 DEF SessionsEnd
<1>25. ASSUME Crash PROVE Rooms'
  BY <1>25 DEF Crash, DiskInv, Lists, Settled
<1>26. ASSUME Open PROVE Rooms'
  BY <1>26 DEF Open, DiskInv, Lists, Shifts
<1> QED  BY <1>1, <1>2, <1>3, <1>4, <1>5, <1>6, <1>7, <1>8, <1>9, <1>10, <1>11, <1>12,
      <1>13, <1>14, <1>15, <1>16, <1>17, <1>18, <1>19, <1>20, <1>21, <1>22, <1>23, <1>24,
      <1>25, <1>26 DEF Next, Save, Work, Asks

-----------------------------------------------------------------------------
(* What holds until two saves cross, however many requests do. *)

Kept == BirthInv /\ Named /\ (crossed \/ OwnedInv)

\* Saves that crossed have crossed.
LEMMA CrossedStays ==
    ASSUME TypeOK, Next
    PROVE  crossed => crossed'
<1> USE DEF strays, races, history
<1>1. \A s \in Savers : Save(s) => (crossed => crossed')
  BY DEF Save, TakeList, OpenScratch, WriteList, Rename, SaveFails, SaveLost
<1>2. \A c \in Callers : Work(c) => (crossed => crossed')
  BY DEF Work, MakeRoom, StartRoom, Insert, AnswerNew, CloneFails, CloseSessions, Halt, Unmake,
     RemoveEntry, AnswerDestroy, StartShell, DockerFails, Unseen
<1>3. \A c \in Callers : Asks(c) => (crossed => crossed')
  BY DEF Asks, AskNew, AskStart, AskStop, AskDestroy, AskShell
<1>4. (\E e \in Envs : SessionsEnd(e)) \/ Crash \/ Open => (crossed => crossed')
  BY DEF SessionsEnd, Crash, Open
<1> QED  BY <1>1, <1>2, <1>3, <1>4 DEF Next

\* What is kept holds from the start and through every step.
LEMMA KeptHolds == (Init => Kept) /\ (Kept /\ [Next]_vars => Kept')
<1>1. Init => Kept
  <2>1. Init => DiskInv
    BY Identities
    DEF Init, Unwritten, DiskInv, Scratch, File, Lists, InSave, Saving, Settled, Purged, Savers
  <2>2. Init => Keepers /\ Rooms
    BY Identities DEF Init, Unwritten, Keepers, Rooms, Savers
  <2> QED  BY <2>1, <2>2, HostStarts DEF Kept, OwnedInv
<1>2. ASSUME Kept, UNCHANGED vars PROVE Kept'
  <2>1. BirthInv' /\ Named'
    BY <1>2, NamesInvKept DEF Kept
  <2>2. DiskInv => DiskInv'
    BY <1>2 DEF DiskInv, Scratch, File, Lists, InSave, Settled, Purged, vars, disk, savers,
       promises, strays, races, history
  <2>3. Keepers /\ Rooms => Keepers' /\ Rooms'
    BY <1>2 DEF Keepers, Rooms, Coming, vars, disk, savers, rooms, promises, strays, history
  <2>4. crossed' = crossed
    BY <1>2 DEF vars, races, history
  <2> QED  BY <1>2, <2>1, <2>2, <2>3, <2>4 DEF Kept, OwnedInv
<1>3. ASSUME Kept, Next PROVE Kept'
  <2>1. BirthInv' /\ Named'
    BY <1>3, NamesInvKept DEF Kept
  <2>2. ~ crossed' => OwnedInv
    BY <1>3, CrossedStays DEF Kept, BirthInv, HostInv
  <2>3. ~ crossed' => DiskInv'
    BY <1>3, <2>2, ScratchKept, FileKept, ListsKept DEF Kept, OwnedInv, DiskInv
  <2>4. ~ crossed' => Keepers' /\ Rooms'
    BY <1>3, <2>2, KeepersKept, RoomsKept DEF Kept
  <2> QED  BY <2>1, <2>3, <2>4 DEF Kept, OwnedInv
<1> QED  BY <1>1, <1>2, <1>3

\* Whatever requests come between the steps of a save, a host killed at any
\* moment finds a whole list when it comes back, until two saves cross.
THEOREM DiskStaysWhole == Spec => []DiskIsWhole
<1>1. Kept => DiskIsWhole
  BY DEF Kept, OwnedInv, DiskInv, File, DiskIsWhole, NeverHalf
<1> QED  BY <1>1, KeptHolds, PTL DEF Spec

\* Every environment whose creation was answered comes back with the daemon
\* until its destruction is asked for or two saves cross.
THEOREM AnsweredComesBack == Spec => []AnsweredSurvives
<1>1. Kept => AnsweredSurvives
  BY DEF Kept, OwnedInv, DiskInv, Lists, Settled, AnsweredSurvives
<1> QED  BY <1>1, KeptHolds, PTL DEF Spec

\* No restart, and no other request, brings back an environment whose
\* destruction was answered, until two saves cross.
THEOREM GoneStaysGone == Spec => []StaysGone
<1>1. Kept => StaysGone
  BY DEF Kept, OwnedInv, DiskInv, Lists, Purged, StaysGone
<1> QED  BY <1>1, KeptHolds, PTL DEF Spec

\* The keepers that outlive a daemon are found by the next one, but for the
\* three excuses of SessionsFound, until two saves cross.
THEOREM SessionsAreFound == Spec => []SessionsFound
<1>1. Kept => SessionsFound
  <2>1. ASSUME Keepers, DiskInv, NEW e \in kept PROVE
          /\ home[e] = state.id
          /\ daemon = "up" => home[e] = id
          /\ \/ e \in stranded \cup late
             \/ \E c \in Callers : op[c] = "new" /\ env[c] = e
             \/ e \in state.list /\ (daemon = "up" => e \in table)
    <3>1. home[e] = state.id /\ (daemon = "up" => home[e] = id)
      BY <2>1 DEF Keepers
    <3>2. CASE daemon = "down"
      BY <2>1, <3>2 DEF Keepers
    <3>3. CASE daemon # "down" /\ e \notin stranded \cup late
      BY <2>1, <3>3 DEF Keepers, DiskInv, Lists, Settled
    <3> QED  BY <3>1, <3>2, <3>3
  <2> QED  BY <2>1 DEF Kept, OwnedInv, SessionsFound
<1> QED  BY <1>1, KeptHolds, PTL DEF Spec

\* No container is left that nobody can name, but for the excuses of
\* RoomsAreOwned, until two saves cross.
THEOREM NoRoomIsLost == Spec => []RoomsAreOwned
<1>1. Kept => RoomsAreOwned
  BY DEF Kept, OwnedInv, Rooms, RoomsAreOwned
<1> QED  BY <1>1, KeptHolds, PTL DEF Spec

\* The host keeps its identity through every save and restart until two
\* saves cross: only a rename writes the file, and what it renames is whole
\* and of this host.
THEOREM HostKeepsIdentity == Spec => IdentityKept
<1> DEFINE Same == crossed \/ (state.is = "whole" => state'.is = "whole" /\ state'.id = state.id)
<1>1. ASSUME Kept, Next PROVE Same
  <2> SUFFICES ASSUME ~ crossed PROVE Same
    OBVIOUS
  <2>1. \A s \in Savers : Rename(s) => Same
    BY <1>1 DEF Kept, OwnedInv, BirthInv, DiskInv, HostInv, TypeOK, Shifts, Scratch, File,
       InSave, Whole, Savers, Saving, Rename
  <2>2. \A s \in Savers : WriteList(s) => state' = state
    BY <1>1 DEF Kept, OwnedInv, DiskInv, Scratch, WriteList
  <2>3. \A s \in Savers : TakeList(s) \/ OpenScratch(s) \/ SaveFails(s) => state' = state
    BY DEF TakeList, OpenScratch, SaveFails, SaveLost, disk
  <2>4. \A c \in Callers : Work(c) => state' = state
    BY DEF Work, MakeRoom, StartRoom, Insert, AnswerNew, CloneFails, CloseSessions, Halt, Unmake,
       RemoveEntry, AnswerDestroy, StartShell, DockerFails, Unseen, disk
  <2>5. \A c \in Callers : Asks(c) => state' = state
    BY DEF Asks, AskNew, AskStart, AskStop, AskDestroy, AskShell, disk
  <2>6. (\E e \in Envs : SessionsEnd(e)) \/ Crash \/ Open => state' = state
    BY DEF SessionsEnd, Crash, Open, disk
  <2> QED  BY <1>1, <2>1, <2>2, <2>3, <2>4, <2>5, <2>6 DEF Next, Save
<1>2. Kept /\ [Next]_vars => [Same]_vars
  BY <1>1
<1> QED  BY <1>2, KeptHolds, PTL DEF Spec, IdentityKept
=============================================================================
