--------------------------- MODULE Sessions_proofs ---------------------------
(***************************************************************************)
(* Theorems about module Sessions, for any number of processes, accounts   *)
(* and user names, and whoever knows which account.                        *)
(***************************************************************************)
EXTENDS Sessions, FiniteSetTheorems, TLAPS

-----------------------------------------------------------------------------
(* Types *)

\* The steps a process is in, by the form of what it is doing.
LEMMA DoingForms ==
    ASSUME TypeOK, NEW p \in Process
    PROVE  /\ doing[p] = Idle \/ doing[p] \in Creation \/ doing[p] \in FileChange
           /\ doing[p].step \in Steps => doing[p] \in FileChange /\ endUser[p] \in Account
           /\ doing[p].step = "create" => doing[p] \in Creation
           /\ doing[p] = Idle => doing[p].step \notin Steps \cup {"create"}
BY SessionAssumption DEF TypeOK, Creation, FileChange, Idle, Steps

\* Who is idle is at no step.
LEMMA IdleStep == Idle.step \notin Steps \cup {"create"}
BY DEF Idle, Steps

\* Gone leaves a process without anything to do.
LEMMA GoneType ==
    ASSUME TypeOK, NEW p \in Process, Gone(p)
    PROVE  /\ window' \in [Process -> {"off", "login", "board"}]
           /\ endUser' \in [Process -> Account \cup {None}]
           /\ doing' \in [Process -> {Idle} \cup Creation \cup FileChange]
           /\ \A q \in Process :
                 /\ window'[q] = "off" => doing'[q] = Idle /\ endUser'[q] = None
                 /\ window'[q] = "board" \/ doing'[q].step \in Steps => endUser'[q] # None
           /\ database' \subseteq Process
<1>1. \A q \in Process : doing'[q] = IF q = p THEN Idle ELSE doing[q]
  BY DEF Gone, TypeOK
<1> QED
  BY <1>1, IdleStep DEF Gone, TypeOK, Creation, FileChange

\* What a change of status begins with, and what it is one step of.
LEMMA SetStatusType ==
    ASSUME NEW status \in {"0", "1"}, NEW next \in {"enter", "logout", "close", "off", "board"}
    PROVE  /\ SetStatus("copy", status, next) \in FileChange
           /\ SetStatus("copy", status, next).step = "copy"
BY DEF SetStatus, FileChange, Steps

\* No step leaves the types.
LEMMA StepType ==
    ASSUME TypeOK, [Next]_vars
    PROVE  TypeOK'
<1> USE SessionAssumption
<1>1. ASSUME UNCHANGED vars PROVE TypeOK'
  BY <1>1 DEF vars, TypeOK, Creation, FileChange
<1>2. ASSUME NEW p \in Process, Open(p) PROVE TypeOK'
  BY <1>2 DEF Open, TypeOK
<1>3. ASSUME NEW p \in Process, Close(p) PROVE TypeOK'
  <2>1. CASE endUser[p] = None
    BY <1>3, <2>1, GoneType DEF Close, TypeOK
  <2>2. CASE endUser[p] # None
    <3>1. raced' \subseteq Account /\ ousted' \subseteq Account
      BY <1>3, <2>2 DEF Close, Overlap, TypeOK
    <3> QED BY <1>3, <2>2, <3>1, SetStatusType DEF Close, TypeOK
  <2> QED BY <2>1, <2>2
<1>4. ASSUME NEW p \in Process, Crash(p) PROVE TypeOK'
  <2>1. abandoned' \subseteq Account
    BY <1>4 DEF Crash, TypeOK
  <2>2. Gone(p) /\ UNCHANGED <<file, output, tables, raced, ousted>>
    BY <1>4 DEF Crash
  <2> QED BY <2>1, <2>2, GoneType DEF TypeOK
<1>5. ASSUME NEW p \in Process, NEW a \in Uses[p], NewUser(p, a) PROVE TypeOK'
  BY <1>5 DEF NewUser, AtScreen, TypeOK, Creation, Contents, Steps
<1>6. ASSUME NEW p \in Process, NEW a \in Uses[p], Login(p, a) PROVE TypeOK'
  BY <1>6, SetStatusType DEF Login, AtScreen, Overlap, TypeOK
<1>7. ASSUME NEW p \in Process, FillAccount(p) PROVE TypeOK'
  BY <1>7, IdleStep, DoingForms DEF FillAccount, TypeOK, Contents, Creation
<1>8. ASSUME NEW p \in Process, Logout(p) PROVE TypeOK'
  BY <1>8, SetStatusType DEF Logout, AtScreen, Overlap, TypeOK
<1>9. ASSUME NEW p \in Process, CloseAddWindow(p) PROVE TypeOK'
  BY <1>9, SetStatusType DEF CloseAddWindow, AtScreen, Overlap, TypeOK
<1>10. ASSUME NEW p \in Process, Copy(p) PROVE TypeOK'
  BY <1>10, DoingForms DEF Copy, WithStatus, TypeOK, FileChange, Steps, Contents
<1>11. ASSUME NEW p \in Process, RemoveOld(p) PROVE TypeOK'
  BY <1>11, DoingForms DEF RemoveOld, TypeOK, FileChange, Steps, Contents
<1>12. ASSUME NEW p \in Process, Rename(p) PROVE TypeOK'
  <2>1. doing[p] \in FileChange /\ endUser[p] \in Account
    BY <1>12, DoingForms DEF Rename, Steps
  <2>2. file' \in [Account -> Contents] /\ output' \in [Account -> Contents]
    BY <1>12, <2>1 DEF Rename, Renamed, TypeOK, Contents
  <2>3. raced' \subseteq Account /\ ousted' \subseteq Account
    BY <1>12 DEF Rename, TypeOK
  <2>4. CASE doing[p].next = "enter"
    <3>1. Enter(p)
      BY <1>12, <2>4 DEF Rename, Continue
    <3>2. CASE /\ Gone(p) /\ abandoned' = abandoned \cup {endUser[p]}
               /\ tables' \in {tables, tables \cup {userName[endUser[p]]}}
      BY <2>1, <2>2, <2>3, <3>2, GoneType DEF TypeOK
    <3>3. CASE /\ tables' = IF p \in database THEN tables \cup {userName[endUser[p]]} ELSE tables
               /\ window' = [window EXCEPT ![p] = "board"]
               /\ doing' = [doing EXCEPT ![p] = Idle]
               /\ UNCHANGED <<database, endUser, abandoned>>
      BY <2>1, <2>2, <2>3, <3>3, IdleStep DEF TypeOK
    <3> QED BY <3>1, <3>2, <3>3 DEF Enter
  <2>5. CASE doing[p].next = "close"
    BY <1>12, <2>1, <2>2, <2>3, <2>5, SetStatusType DEF Rename, Continue, TypeOK
  <2>6. CASE doing[p].next = "off"
    BY <1>12, <2>2, <2>3, <2>6, GoneType DEF Rename, Continue, TypeOK
  <2>7. CASE doing[p].next \in {"logout", "board"}
    BY <1>12, <2>1, <2>2, <2>3, <2>7, IdleStep DEF Rename, Continue, TypeOK
  <2> QED BY <2>1, <2>4, <2>5, <2>6, <2>7 DEF FileChange
<1>13. ASSUME NEW p \in Process, StatementFails(p) PROVE TypeOK'
  <2>1. endUser[p] \in Account
    BY <1>13 DEF StatementFails, AtScreen, TypeOK
  <2> QED BY <1>13, <2>1, GoneType DEF StatementFails, TypeOK
<1> QED
  BY <1>1, <1>2, <1>3, <1>4, <1>5, <1>6, <1>7, <1>8, <1>9, <1>10, <1>11, <1>12, <1>13 DEF Next

\* Types are correct: every file is missing, empty or has a status, nobody changes a
\* file before somebody has logged in, and a window that is off does nothing.
THEOREM TypeCorrect == Spec => []TypeOK
<1>1. Init => TypeOK
  BY SessionAssumption, IdleStep DEF Init, TypeOK, Contents
<1>2. TypeOK /\ [Next]_vars => TypeOK'
  BY StepType
<1> QED
  BY <1>1, <1>2, PTL DEF Spec

-----------------------------------------------------------------------------
(* What the windows show *)

\* An account is created on the login screen; who logs in is on it and will have
\* status 1, as will who closes the window of addBoard on the board; who logs out
\* is on the board and will have status 0, as will who closes his window.
ScreenInv ==
    \A p \in Process :
        /\ doing[p].step = "create" => window[p] = "login"
        /\ doing[p].step \in Steps =>
              /\ doing[p].next = "enter" => doing[p].status = "1" /\ window[p] = "login"
              /\ doing[p].next = "board" => doing[p].status = "1" /\ window[p] = "board"
              /\ doing[p].next = "logout" => doing[p].status = "0" /\ window[p] = "board"
              /\ doing[p].next \in {"close", "off"} => doing[p].status = "0"

\* The status that a change begins with.
LEMMA SetStatusParts ==
    ASSUME NEW status, NEW next
    PROVE  LET change == SetStatus("copy", status, next) IN
           /\ change.step = "copy" /\ change.status = status /\ change.next = next
           /\ change.step \in Steps /\ change.step # "create"
BY DEF SetStatus, Steps

\* Every step keeps screens and changes of status together.
LEMMA ScreenStep ==
    ASSUME TypeOK, ScreenInv, [Next]_vars
    PROVE  ScreenInv'
<1>1. ASSUME UNCHANGED vars PROVE ScreenInv'
  BY <1>1 DEF vars, ScreenInv
<1>2. ASSUME NEW p \in Process, Open(p) PROVE ScreenInv'
  BY <1>2, IdleStep DEF Open, TypeOK, ScreenInv
<1>3. ASSUME NEW p \in Process, Close(p) PROVE ScreenInv'
  BY <1>3, SetStatusParts, IdleStep DEF Close, Gone, TypeOK, ScreenInv
<1>4. ASSUME NEW p \in Process, Crash(p) PROVE ScreenInv'
  BY <1>4, IdleStep DEF Crash, Gone, TypeOK, ScreenInv
<1>5. ASSUME NEW p \in Process, NEW a \in Uses[p], NewUser(p, a) PROVE ScreenInv'
  BY <1>5 DEF NewUser, AtScreen, TypeOK, ScreenInv, Steps
<1>6. ASSUME NEW p \in Process, NEW a \in Uses[p], Login(p, a) PROVE ScreenInv'
  BY <1>6, SetStatusParts DEF Login, AtScreen, TypeOK, ScreenInv
<1>7. ASSUME NEW p \in Process, FillAccount(p) PROVE ScreenInv'
  BY <1>7, IdleStep DEF FillAccount, TypeOK, ScreenInv
<1>8. ASSUME NEW p \in Process, Logout(p) PROVE ScreenInv'
  BY <1>8, SetStatusParts DEF Logout, AtScreen, TypeOK, ScreenInv
<1>9. ASSUME NEW p \in Process, CloseAddWindow(p) PROVE ScreenInv'
  BY <1>9, SetStatusParts DEF CloseAddWindow, AtScreen, TypeOK, ScreenInv
<1>10. ASSUME NEW p \in Process, Copy(p) PROVE ScreenInv'
  BY <1>10, DoingForms DEF Copy, TypeOK, ScreenInv, FileChange, Steps
<1>11. ASSUME NEW p \in Process, RemoveOld(p) PROVE ScreenInv'
  BY <1>11, DoingForms DEF RemoveOld, TypeOK, ScreenInv, FileChange, Steps
<1>12. ASSUME NEW p \in Process, Rename(p) PROVE ScreenInv'
  <2>1. doing[p] \in FileChange /\ Continue(p)
    BY <1>12, DoingForms DEF Rename, Steps
  <2>2. CASE doing' = [doing EXCEPT ![p] = Idle] /\ \A q \in Process \ {p} : window'[q] = window[q]
    BY <2>2, IdleStep DEF TypeOK, ScreenInv
  <2>3. CASE doing' = [doing EXCEPT ![p] = SetStatus("copy", "0", "off")] /\ window' = window
    BY <2>3, SetStatusParts DEF TypeOK, ScreenInv
  <2>4. CASE doing[p].next = "close"
    BY <2>1, <2>3, <2>4 DEF Continue
  <2>5. CASE doing[p].next # "close"
    BY <2>1, <2>2, <2>5 DEF Continue, Enter, Gone, TypeOK
  <2> QED BY <2>4, <2>5
<1>13. ASSUME NEW p \in Process, StatementFails(p) PROVE ScreenInv'
  BY <1>13, IdleStep DEF StatementFails, Gone, TypeOK, ScreenInv
<1> QED
  BY <1>1, <1>2, <1>3, <1>4, <1>5, <1>6, <1>7, <1>8, <1>9, <1>10, <1>11, <1>12, <1>13 DEF Next

-----------------------------------------------------------------------------
(* The tables *)

\* Who is on the board of a database application has tables.
TableInv ==
    \A p \in database :
        /\ window[p] # "off"
        /\ window[p] = "board" => userName[endUser[p]] \in tables

\* Only a login that creates tables shows a board that was not shown before.
LEMMA TableStep ==
    ASSUME TypeOK, ScreenInv, TableInv, OneDatabaseSession, [Next]_vars
    PROVE  TableInv' /\ OneDatabaseSession'
<1> DEFINE Kept(p) ==
        /\ database' \subseteq database
        /\ \A q \in database' : endUser'[q] = endUser[q] \/ window'[q] = "login"
        /\ \A q \in database' : window'[q] \in {window[q], "login"}
        /\ tables \subseteq tables'
<1>1. ASSUME NEW p, Kept(p) PROVE TableInv' /\ OneDatabaseSession'
  BY <1>1 DEF TableInv, OneDatabaseSession
<1>2. ASSUME NEW p \in Process, Open(p) PROVE TableInv' /\ OneDatabaseSession'
  BY <1>2 DEF Open, TypeOK, TableInv, OneDatabaseSession
<1>3. ASSUME NEW p \in Process, Gone(p), tables \subseteq tables' PROVE Kept(p)
  BY <1>3 DEF Gone, TypeOK
<1>4. ASSUME NEW p \in Process, Close(p) PROVE Kept(p)
  BY <1>3, <1>4 DEF Close
<1>5. ASSUME NEW p \in Process, NEW a \in Uses[p], Login(p, a) PROVE Kept(p)
  BY <1>5 DEF Login, AtScreen, TypeOK
<1>6. ASSUME NEW p \in Process, Rename(p), doing[p].next = "enter"
      PROVE  TableInv' /\ OneDatabaseSession'
  <2>1. Enter(p)
    BY <1>6 DEF Rename, Continue
  <2>2. CASE Gone(p) /\ tables \subseteq tables'
    BY <1>1, <1>3, <2>2
  <2>3. CASE /\ p \in database => userName[endUser[p]] \notin tables
             /\ tables' = IF p \in database THEN tables \cup {userName[endUser[p]]} ELSE tables
             /\ window' = [window EXCEPT ![p] = "board"]
             /\ UNCHANGED <<database, endUser>>
    BY <2>3 DEF TypeOK, TableInv, OneDatabaseSession
  <2> QED BY <2>1, <2>2, <2>3 DEF Enter
<1>7. ASSUME NEW p \in Process, Rename(p), doing[p].next # "enter" PROVE Kept(p)
  <2>1. doing[p] \in FileChange /\ Continue(p) /\ doing[p].step \in Steps
    BY <1>7, DoingForms DEF Rename, Steps
  <2>2. CASE doing[p].next = "close"
    BY <2>1, <2>2 DEF Continue
  <2>3. CASE doing[p].next = "off"
    BY <1>3, <2>1, <2>3 DEF Continue
  <2>4. CASE doing[p].next \in {"logout", "board"}
    BY <2>1, <2>4 DEF Continue, ScreenInv, TypeOK
  <2> QED BY <1>7, <2>1, <2>2, <2>3, <2>4 DEF FileChange
<1>8. ASSUME UNCHANGED <<window, database, endUser, tables>> PROVE TableInv' /\ OneDatabaseSession'
  BY <1>8 DEF TableInv, OneDatabaseSession
<1>9. ASSUME NEW p \in Process, Crash(p) PROVE Kept(p)
  BY <1>3, <1>9 DEF Crash
<1>10. CASE UNCHANGED vars
  BY <1>8, <1>10 DEF vars
<1>12. ASSUME NEW p \in Process, StatementFails(p) PROVE Kept(p)
  BY <1>3, <1>12 DEF StatementFails
<1>11. CASE \E p \in Process :
               \/ \E a \in Uses[p] : NewUser(p, a)
               \/ FillAccount(p) \/ Logout(p) \/ CloseAddWindow(p) \/ Copy(p) \/ RemoveOld(p)
  BY <1>8, <1>11 DEF NewUser, FillAccount, Logout, CloseAddWindow, Copy, RemoveOld
<1> QED
  BY <1>1, <1>2, <1>4, <1>5, <1>6, <1>7, <1>9, <1>10, <1>11, <1>12 DEF Next

\* No two database applications are logged in under one user name, whoever crashes and
\* whatever becomes of the files: who finds tables of his user name ends.
THEOREM DatabaseSessionsApart == Spec => []OneDatabaseSession
<1>1. Init => TypeOK /\ ScreenInv /\ TableInv /\ OneDatabaseSession
  BY SessionAssumption, IdleStep DEF Init, TypeOK, Contents, ScreenInv, TableInv, OneDatabaseSession
<1>2. TypeOK /\ ScreenInv /\ TableInv /\ OneDatabaseSession /\ [Next]_vars
         => (TypeOK /\ ScreenInv /\ TableInv /\ OneDatabaseSession)'
  BY StepType, ScreenStep, TableStep
<1> QED
  BY <1>1, <1>2, PTL DEF Spec

-----------------------------------------------------------------------------
(* The status *)

\* Process p changes the status of a.
At(p, a) == endUser[p] = a /\ doing[p].step \in Steps

\* Process p is on the board as a, or changes the status of a.
Active(p, a) == endUser[p] = a /\ (window[p] = "board" \/ doing[p].step \in Steps)

\* Unless two have raced for it, one process at most changes the status of an account,
OneChange ==
    \A a \in Account \ raced : \A p, q \in Process : At(p, a) /\ At(q, a) => p = q

\* and unless a late close has also reset it, one at most is active as it.
OneActive ==
    \A a \in Account \ (raced \cup ousted) : \A p, q \in Process :
        Active(p, a) /\ Active(q, a) => p = q

\* What comes of a status that is reset, whoever is on the board: the output file has
\* status 0 or none.
ResetInv ==
    \A p \in Process : \A a \in Account \ raced :
        At(p, a) /\ doing[p].status = "0" /\ doing[p].step \in {"remove", "rename"} =>
            output[a] \in {"0", "empty"}

\* A login and the window of addBoard find a file with a status, and have it in the
\* output file with status 1 before they remove the file.
SetInv ==
    \A p \in Process : \A a \in Account \ (raced \cup ousted) :
        At(p, a) /\ doing[p].status = "1" =>
            /\ doing[p].step \in {"copy", "remove"} => file[a] \in {"0", "1"}
            /\ doing[p].step \in {"remove", "rename"} => output[a] = "1"

\* Who is on the board, and changes nothing, has status 1,
BoardInv ==
    \A p \in Process : \A a \in Account \ (raced \cup ousted) :
        endUser[p] = a /\ window[p] = "board" /\ doing[p].step \notin Steps => file[a] = "1"

\* and nobody else has, but those who were left with it.
BusyInv ==
    \A a \in Account \ (raced \cup abandoned) : file[a] = "1" => \E p \in Process : Active(p, a)

StatusInv == OneChange /\ OneActive /\ ResetInv /\ SetInv /\ BoardInv /\ BusyInv

\* Who changes a status is active.
LEMMA AtActive == ASSUME NEW p, NEW a, At(p, a) PROVE Active(p, a)
BY DEF At, Active

\* A change that does not race finds nobody else changing the account.
LEMMA OverlapAlone ==
    ASSUME NEW p \in Process, NEW a, Overlap(p, a)
    PROVE  /\ raced \subseteq raced'
           /\ a \notin raced' => \A q \in Process \ {p} : ~At(q, a)
           /\ \A b \in Account : b # a => (b \in raced' <=> b \in raced)
<1>1. \A q \in Process \ {p} : At(q, a) => Changing(q, a)
  BY DEF At, Changing
<1> QED
  BY <1>1 DEF Overlap

\* What begins a change of status with files as they are, and with nobody else on the
\* board unless the account is one that a late close has reset, keeps the invariant.
LEMMA BeginStatus ==
    ASSUME TypeOK, ScreenInv, StatusInv,
           NEW p \in Process, NEW a \in Account, Overlap(p, a),
           NEW status \in {"0", "1"}, NEW next,
           doing' = [doing EXCEPT ![p] = SetStatus("copy", status, next)],
           endUser' = [endUser EXCEPT ![p] = a],
           endUser[p] = a \/ ~Active(p, endUser[p]),
           ousted \subseteq ousted', \A b \in Account \ {a} : b \in ousted' => b \in ousted,
           a \notin raced' \cup ousted' => \A q \in Process \ {p} : ~Active(q, a),
           status = "1" /\ a \notin raced' \cup ousted' => file[a] \in {"0", "1"},
           UNCHANGED <<file, output, window, abandoned>>
    PROVE  StatusInv'
<1>1. /\ doing'[p].step = "copy" /\ doing'[p].status = status /\ doing'[p].step \in Steps
      /\ \A q \in Process \ {p} : doing'[q] = doing[q] /\ endUser'[q] = endUser[q]
      /\ endUser'[p] = a
  BY SetStatusParts DEF TypeOK
<1>2. \A q \in Process \ {p} : \A b : (Active(q, b)' <=> Active(q, b)) /\ (At(q, b)' <=> At(q, b))
  BY <1>1 DEF Active, At
<1>3. \A b : (Active(p, b)' <=> b = a) /\ (At(p, b)' <=> b = a)
  BY <1>1 DEF Active, At
<1>4. OneChange'
  BY <1>2, <1>3, OverlapAlone DEF StatusInv, OneChange
<1>5. OneActive'
  BY <1>2, <1>3, OverlapAlone DEF StatusInv, OneActive
<1>6. ResetInv'
  BY <1>1, <1>2, <1>3, OverlapAlone DEF StatusInv, ResetInv
<1>7. SetInv'
  <2>1. ASSUME NEW q \in Process \ {p}, NEW b \in Account \ (raced' \cup ousted'), At(q, b)
        PROVE  b # a /\ b \in Account \ (raced \cup ousted)
    BY <2>1, OverlapAlone
  <2> QED BY <1>1, <1>2, <1>3, <2>1 DEF StatusInv, SetInv
<1>8. BoardInv'
  BY <1>1, OverlapAlone DEF StatusInv, BoardInv
<1>9. BusyInv'
  <2>1. ASSUME NEW b \in Account \ {a}, NEW q \in Process, Active(q, b) PROVE Active(q, b)'
    BY <1>2, <2>1 DEF Active
  <2> QED BY <1>3, <2>1, OverlapAlone DEF StatusInv, BusyInv
<1> QED
  BY <1>4, <1>5, <1>6, <1>7, <1>8, <1>9 DEF StatusInv

\* A process that ends leaves an account it was active as with another status than 1,
\* or abandons it.
LEMMA GoneStatus ==
    ASSUME TypeOK, StatusInv, NEW p \in Process, Gone(p),
           UNCHANGED <<raced, ousted>>, abandoned \subseteq abandoned',
           \A a \in Account \ raced :
               \/ UNCHANGED <<file[a], output[a]>> /\ (Active(p, a) => a \in abandoned')
               \/ At(p, a) /\ (file'[a] = "1" => a \in abandoned')
    PROVE  StatusInv'
<1>1. /\ doing'[p].step \notin Steps /\ endUser'[p] = None
      /\ \A q \in Process \ {p} :
            doing'[q] = doing[q] /\ endUser'[q] = endUser[q] /\ window'[q] = window[q]
  BY IdleStep DEF Gone, TypeOK
<1>2. \A q \in Process \ {p} : \A a : (Active(q, a)' <=> Active(q, a)) /\ (At(q, a)' <=> At(q, a))
  BY <1>1 DEF Active, At
<1>3. \A a \in Account : ~Active(p, a)' /\ ~At(p, a)'
  BY <1>1, SessionAssumption DEF Active, At
<1>4. /\ \A q \in Process \ {p} : \A a \in Account \ raced :
            At(q, a) => UNCHANGED <<file[a], output[a]>>
      /\ \A q \in Process \ {p} : \A a \in Account \ (raced \cup ousted) :
            Active(q, a) => UNCHANGED <<file[a], output[a]>>
  BY AtActive DEF StatusInv, OneChange, OneActive
<1>5. OneChange' /\ OneActive'
  BY <1>2, <1>3 DEF StatusInv, OneChange, OneActive
<1>6. ResetInv' /\ SetInv'
  BY <1>1, <1>2, <1>3, <1>4 DEF StatusInv, ResetInv, SetInv
<1>7. BoardInv'
  BY <1>1, <1>4, SessionAssumption DEF StatusInv, BoardInv, Active
<1>8. BusyInv'
  BY <1>2, AtActive DEF StatusInv, BusyInv
<1> QED
  BY <1>5, <1>6, <1>7, <1>8 DEF StatusInv

\* A process that is neither on the board nor changing a status disturbs no status: it
\* only makes files that do not have status 1.
LEMMA QuietStatus ==
    ASSUME TypeOK, StatusInv, NEW p \in Process,
           \A q \in Process : endUser'[q] = endUser[q],
           \A q \in Process \ {p} : doing'[q] = doing[q] /\ window'[q] = window[q],
           doing[p].step \notin Steps, doing'[p].step \notin Steps,
           window[p] # "board", window'[p] # "board",
           UNCHANGED <<output, raced, ousted, abandoned>>,
           \A a \in Account : file'[a] = file[a] \/ (file[a] \notin {"0", "1"} /\ file'[a] # "1")
    PROVE  StatusInv'
<1>1. \A q \in Process : \A a : (Active(q, a)' <=> Active(q, a)) /\ (At(q, a)' <=> At(q, a))
  BY DEF Active, At
<1>2. OneChange' /\ OneActive'
  BY <1>1 DEF StatusInv, OneChange, OneActive
<1>3. ResetInv' /\ SetInv'
  BY <1>1 DEF StatusInv, ResetInv, SetInv, At
<1>4. BoardInv'
  BY DEF StatusInv, BoardInv
<1>5. BusyInv'
  BY <1>1 DEF StatusInv, BusyInv
<1> QED
  BY <1>2, <1>3, <1>4, <1>5 DEF StatusInv

\* What is copied for an account that nobody races for is status 1 or, if a
\* status is to be reset, not 1.
LEMMA CopyStatus ==
    ASSUME TypeOK, ScreenInv, StatusInv, NEW p \in Process, Copy(p)
    PROVE  StatusInv'
<1> DEFINE a == endUser[p]
<1>1. a \in Account /\ doing[p] \in FileChange /\ Active(p, a) /\ At(p, a) /\ doing[p].step = "copy"
  BY DoingForms DEF Copy, Steps, Active, At
<1>2. /\ doing'[p].step = "remove" /\ doing'[p].status = doing[p].status /\ doing'[p].step \in Steps
      /\ \A q \in Process \ {p} : doing'[q] = doing[q]
  BY <1>1 DEF Copy, TypeOK, FileChange, Steps
<1>3. output'[a] = WithStatus(file[a], doing[p].status) /\ \A b \in Account \ {a} : output'[b] = output[b]
  BY <1>1 DEF Copy, TypeOK
<1>4. \A q \in Process : \A b : (Active(q, b)' <=> Active(q, b)) /\ (At(q, b)' <=> At(q, b))
  BY <1>1, <1>2 DEF Active, At, Copy, Steps
<1>5. UNCHANGED <<file, window, endUser, abandoned, raced, ousted>>
  BY DEF Copy
<1>6. OneChange' /\ OneActive'
  BY <1>4, <1>5 DEF StatusInv, OneChange, OneActive
<1>7. \A q \in Process \ {p} : a \notin raced => ~At(q, a)
  BY <1>1 DEF StatusInv, OneChange
<1>8. ResetInv'
  <2>1. doing[p].status = "0" => output'[a] \in {"0", "empty"}
    BY <1>3 DEF WithStatus
  <2> QED BY <1>1, <1>2, <1>3, <1>4, <1>5, <1>7, <2>1 DEF StatusInv, ResetInv, At
<1>9. SetInv'
  <2>1. a \notin raced \cup ousted /\ doing[p].status = "1" => file[a] \in {"0", "1"} /\ output'[a] = "1"
    BY <1>1, <1>3 DEF StatusInv, SetInv, WithStatus
  <2> QED BY <1>1, <1>2, <1>3, <1>4, <1>5, <1>7, <2>1 DEF StatusInv, SetInv, At
<1>10. BoardInv'
  BY <1>1, <1>2, <1>5 DEF StatusInv, BoardInv, Steps
<1>11. BusyInv'
  BY <1>4, <1>5 DEF StatusInv, BusyInv
<1> QED
  BY <1>6, <1>8, <1>9, <1>10, <1>11 DEF StatusInv

\* The file is removed by the one process that changes the account.
LEMMA RemoveStatus ==
    ASSUME TypeOK, ScreenInv, StatusInv, NEW p \in Process, RemoveOld(p)
    PROVE  StatusInv'
<1> DEFINE a == endUser[p]
<1>1. a \in Account /\ doing[p] \in FileChange /\ Active(p, a) /\ At(p, a) /\ doing[p].step = "remove"
  BY DoingForms DEF RemoveOld, Steps, Active, At
<1>2. /\ doing'[p].step = "rename" /\ doing'[p].status = doing[p].status /\ doing'[p].step \in Steps
      /\ \A q \in Process \ {p} : doing'[q] = doing[q]
  BY <1>1 DEF RemoveOld, TypeOK, FileChange, Steps
<1>3. file'[a] = "missing" /\ \A b \in Account \ {a} : file'[b] = file[b]
  BY <1>1 DEF RemoveOld, TypeOK
<1>4. \A q \in Process : \A b : (Active(q, b)' <=> Active(q, b)) /\ (At(q, b)' <=> At(q, b))
  BY <1>1, <1>2 DEF Active, At, RemoveOld, Steps
<1>5. /\ \A q \in Process \ {p} : a \notin raced => ~At(q, a)
      /\ \A q \in Process \ {p} : a \notin raced \cup ousted => ~Active(q, a)
  BY <1>1 DEF StatusInv, OneChange, OneActive
<1>6. UNCHANGED <<output, window, endUser, abandoned, raced, ousted>>
  BY DEF RemoveOld
<1>7. OneChange' /\ OneActive'
  BY <1>4, <1>6 DEF StatusInv, OneChange, OneActive
<1>8. ResetInv'
  BY <1>1, <1>2, <1>4, <1>5, <1>6 DEF StatusInv, ResetInv, At
<1>9. SetInv'
  BY <1>1, <1>2, <1>3, <1>4, <1>5, <1>6 DEF StatusInv, SetInv, At
<1>10. BoardInv'
  BY <1>1, <1>2, <1>3, <1>5, <1>6 DEF StatusInv, BoardInv, Active
<1>11. BusyInv'
  BY <1>3, <1>4, <1>6 DEF StatusInv, BusyInv
<1> QED
  BY <1>7, <1>8, <1>9, <1>10, <1>11 DEF StatusInv

\* The last step, after which the process is somewhere else.
LEMMA RenameStatus ==
    ASSUME TypeOK, ScreenInv, StatusInv, NEW p \in Process, Rename(p)
    PROVE  StatusInv'
<1> DEFINE a == endUser[p]
<1>1. /\ a \in Account /\ doing[p] \in FileChange /\ Active(p, a) /\ At(p, a)
      /\ doing[p].step = "rename" /\ Renamed(a) /\ Continue(p)
      /\ UNCHANGED <<raced, ousted>>
  BY DoingForms DEF Rename, Steps, Active, At
<1>2. \A b \in Account \ {a} : UNCHANGED <<file[b], output[b]>>
  BY <1>1 DEF Renamed, TypeOK
<1>3. /\ a \notin raced /\ doing[p].status = "0" => file'[a] # "1"
      /\ a \notin raced \cup ousted /\ doing[p].status = "1" => file'[a] = "1"
  BY <1>1 DEF StatusInv, ResetInv, SetInv, Renamed, TypeOK
<1>4. /\ \A q \in Process \ {p} : a \notin raced => ~At(q, a)
      /\ \A q \in Process \ {p} : a \notin raced \cup ousted => ~Active(q, a)
  BY <1>1 DEF StatusInv, OneChange, OneActive
<1>5. ASSUME Gone(p), abandoned \subseteq abandoned', doing[p].status = "0" \/ a \in abandoned'
      PROVE  StatusInv'
  <2>1. \A b \in Account : b # a => ~Active(p, b)
    BY DEF Active
  <2>2. a \notin raced => (file'[a] = "1" => a \in abandoned')
    BY <1>3, <1>5
  <2>3. \A b \in Account \ raced :
               \/ UNCHANGED <<file[b], output[b]>> /\ (Active(p, b) => b \in abandoned')
               \/ At(p, b) /\ (file'[b] = "1" => b \in abandoned')
    BY <1>1, <1>2, <2>1, <2>2
  <2> QED
    BY <1>1, <1>5, <2>3, GoneStatus
<1>6. ASSUME NEW screen \in {"login", "board"}, window' = [window EXCEPT ![p] = screen],
             NEW next, doing' = [doing EXCEPT ![p] = next],
             next = Idle \/ next = SetStatus("copy", "0", "off"),
             screen = "board" /\ next = Idle => doing[p].status = "1",
             screen = "login" => doing[p].status = "0",
             next # Idle => doing[p].status = "0",
             UNCHANGED <<endUser, abandoned>>
      PROVE  StatusInv'
  <2>1. /\ doing'[p] = next /\ window'[p] = screen
        /\ \A q \in Process \ {p} : doing'[q] = doing[q] /\ window'[q] = window[q]
    BY <1>6 DEF TypeOK
  <2>2. \/ next = Idle /\ next.step \notin Steps
        \/ next.step \in Steps /\ next.step = "copy" /\ next.status = "0" /\ doing[p].status = "0"
    BY <1>6, IdleStep, SetStatusParts
  <2>3. \A q \in Process \ {p} : \A b : (Active(q, b)' <=> Active(q, b)) /\ (At(q, b)' <=> At(q, b))
    BY <1>6, <2>1 DEF Active, At
  <2>4. \A b : b # a => ~Active(p, b)' /\ ~At(p, b)'
    BY <1>6 DEF Active, At
  <2>5. OneChange' /\ OneActive'
    BY <1>1, <1>4, <2>3, <2>4 DEF StatusInv, OneChange, OneActive
  <2>6. ResetInv'
    BY <1>1, <1>2, <1>4, <2>1, <2>2, <2>3, <2>4 DEF StatusInv, ResetInv, At
  <2>7. SetInv'
    BY <1>1, <1>2, <1>4, <2>1, <2>2, <2>3, <2>4 DEF StatusInv, SetInv, At
  <2>8. BoardInv'
    BY <1>1, <1>2, <1>3, <1>4, <1>6, <2>1, <2>2 DEF StatusInv, BoardInv, Active
  <2>9. BusyInv'
    BY <1>1, <1>2, <1>3, <1>6, <2>1, <2>2, <2>3 DEF StatusInv, BusyInv, Active
  <2> QED
    BY <2>5, <2>6, <2>7, <2>8, <2>9 DEF StatusInv
<1>7. CASE doing[p].next = "enter"
  <2>1. Enter(p) /\ doing[p].status = "1"
    BY <1>1, <1>7 DEF Continue, ScreenInv, Steps
  <2> QED BY <1>1, <1>5, <1>6, <2>1 DEF Enter
<1>8. CASE doing[p].next = "close"
  <2>1. /\ doing' = [doing EXCEPT ![p] = SetStatus("copy", "0", "off")]
        /\ UNCHANGED <<window, endUser, abandoned>> /\ doing[p].status = "0"
    BY <1>1, <1>8 DEF Continue, ScreenInv, Steps
  <2>2. window' = [window EXCEPT ![p] = window[p]] /\ window[p] \in {"login", "board"}
    BY <2>1, <1>1, DoingForms DEF TypeOK, Steps
  <2>3. SetStatus("copy", "0", "off") # Idle
    BY SetStatusParts, IdleStep
  <2> QED BY <1>6, <2>1, <2>2, <2>3
<1>9. CASE doing[p].next = "off"
  <2>1. Gone(p) /\ abandoned' = abandoned /\ doing[p].status = "0"
    BY <1>1, <1>9 DEF Continue, ScreenInv, Steps
  <2> QED BY <1>5, <2>1
<1>10. CASE doing[p].next \in {"logout", "board"}
  <2>1. /\ window' = [window EXCEPT ![p] = IF doing[p].next = "logout" THEN "login" ELSE "board"]
        /\ doing' = [doing EXCEPT ![p] = Idle] /\ UNCHANGED <<endUser, abandoned>>
        /\ doing[p].status = IF doing[p].next = "logout" THEN "0" ELSE "1"
    BY <1>1, <1>10 DEF Continue, ScreenInv, Steps
  <2> QED BY <1>6, <1>10, <2>1
<1> QED
  BY <1>1, <1>7, <1>8, <1>9, <1>10 DEF FileChange

\* Every step keeps the status of accounts that nobody races for.
LEMMA StatusStep ==
    ASSUME TypeOK, ScreenInv, StatusInv, [Next]_vars
    PROVE  StatusInv'
<1> USE SessionAssumption
<1>1. CASE UNCHANGED vars
  BY <1>1 DEF vars, StatusInv, OneChange, OneActive, ResetInv, SetInv, BoardInv, BusyInv, Active, At
<1>2. ASSUME NEW p \in Process, Open(p) PROVE StatusInv'
  <2>1. /\ doing[p] = Idle /\ window'[p] = "login"
        /\ \A q \in Process \ {p} : window'[q] = window[q]
    BY <1>2 DEF Open, TypeOK
  <2> QED BY <1>2, <2>1, QuietStatus, IdleStep DEF Open
<1>3. ASSUME NEW p \in Process, Close(p) PROVE StatusInv'
  <2>1. CASE endUser[p] = None
    <3>1. \A a \in Account : ~Active(p, a)
      BY <2>1 DEF Active
    <3> QED BY <1>3, <2>1, <3>1, GoneStatus DEF Close
  <2>2. CASE endUser[p] # None
    <3> DEFINE a == endUser[p]
    <3>1. a \in Account /\ endUser' = [endUser EXCEPT ![p] = a]
      BY <1>3, <2>2 DEF Close, TypeOK
    <3>2. /\ doing' = [doing EXCEPT ![p] = SetStatus("copy", "0", "close")] /\ Overlap(p, a)
          /\ ousted \subseteq ousted' /\ \A b \in Account \ {a} : b \in ousted' => b \in ousted
          /\ UNCHANGED <<file, output, window, abandoned>>
      BY <1>3, <2>2 DEF Close
    <3>3. ASSUME a \notin raced' \cup ousted', NEW q \in Process \ {p}, Active(q, a) PROVE FALSE
      <4>1. InSession(q, a)
        BY <3>3 DEF Active, InSession, Changing
      <4>2. window[p] = "board"
        BY <1>3, <2>2, <3>3, <4>1 DEF Close
      <4>3. Active(p, a)
        BY <4>2 DEF Active
      <4> QED BY <3>1, <3>2, <3>3, <4>3, OverlapAlone DEF StatusInv, OneActive
    <3> QED BY <3>1, <3>2, <3>3, BeginStatus
  <2> QED BY <2>1, <2>2
<1>4. ASSUME NEW p \in Process, Crash(p) PROVE StatusInv'
  <2>1. \A a \in Account : Active(p, a) => a \in abandoned'
    BY <1>4 DEF Crash, Active, Changing, InSession
  <2> QED BY <1>4, <2>1, GoneStatus DEF Crash
<1>5. ASSUME NEW p \in Process, NEW a \in Uses[p], NewUser(p, a) PROVE StatusInv'
  <2>1. doing'[p].step \notin Steps /\ \A q \in Process \ {p} : doing'[q] = doing[q]
    BY <1>5 DEF NewUser, TypeOK, Steps
  <2>2. \A b \in Account : file'[b] = file[b] \/ (file[b] \notin {"0", "1"} /\ file'[b] # "1")
    BY <1>5 DEF NewUser, TypeOK
  <2> QED BY <1>5, <2>1, <2>2, QuietStatus, IdleStep DEF NewUser, AtScreen
<1>6. ASSUME NEW p \in Process, NEW a \in Uses[p], Login(p, a) PROVE StatusInv'
  <2>1. ~Active(p, endUser[p])
    BY <1>6, IdleStep DEF Login, AtScreen, Active
  <2>2. a \in Account /\ file[a] = "0" /\ Overlap(p, a) /\ ousted' = ousted
    BY <1>6 DEF Login
  <2>3. ASSUME a \notin raced' \cup ousted', NEW q \in Process \ {p}, Active(q, a) PROVE FALSE
    <3>1. a \notin raced \cup ousted /\ ~At(q, a)
      BY <2>2, <2>3, OverlapAlone
    <3>2. endUser[q] = a /\ window[q] = "board" /\ doing[q].step \notin Steps
      BY <2>3, <3>1 DEF Active, At
    <3>3. file[a] = "1"
      BY <2>2, <3>1, <3>2 DEF StatusInv, BoardInv
    <3> QED BY <2>2, <3>3
  <2> QED BY <1>6, <2>1, <2>2, <2>3, BeginStatus DEF Login
<1>7. ASSUME NEW p \in Process, FillAccount(p) PROVE StatusInv'
  <2>1. /\ doing[p].step \notin Steps /\ doing'[p].step \notin Steps /\ window[p] = "login"
        /\ \A q \in Process \ {p} : doing'[q] = doing[q]
    BY <1>7, IdleStep DEF FillAccount, TypeOK, ScreenInv, Steps
  <2>2. \A b \in Account : file'[b] = file[b] \/ (file[b] \notin {"0", "1"} /\ file'[b] # "1")
    BY <1>7, DoingForms DEF FillAccount, TypeOK, Creation
  <2> QED BY <1>7, <2>1, <2>2, QuietStatus DEF FillAccount
<1>8. ASSUME NEW p \in Process, window[p] = "board", Overlap(p, endUser[p]), ousted' = ousted
      PROVE  /\ endUser[p] \in Account /\ Active(p, endUser[p])
             /\ endUser[p] \notin raced' \cup ousted' =>
                   /\ \A q \in Process \ {p} : ~Active(q, endUser[p])
                   /\ doing[p] = Idle => file[endUser[p]] = "1"
  <2>1. endUser[p] \in Account /\ Active(p, endUser[p])
    BY <1>8 DEF TypeOK, Active
  <2>2. endUser[p] \notin raced' \cup ousted' => endUser[p] \notin raced \cup ousted
    BY <1>8, OverlapAlone
  <2> QED BY <1>8, <2>1, <2>2, IdleStep DEF StatusInv, OneActive, BoardInv
<1>9. ASSUME NEW p \in Process, Logout(p) PROVE StatusInv'
  <2>1. endUser' = [endUser EXCEPT ![p] = endUser[p]]
    BY <1>9 DEF Logout, TypeOK
  <2> QED BY <1>8, <1>9, <2>1, BeginStatus DEF Logout, AtScreen
<1>10. ASSUME NEW p \in Process, CloseAddWindow(p) PROVE StatusInv'
  <2>1. endUser' = [endUser EXCEPT ![p] = endUser[p]]
    BY <1>10 DEF CloseAddWindow, TypeOK
  <2> QED BY <1>8, <1>10, <2>1, BeginStatus DEF CloseAddWindow, AtScreen
<1>11. ASSUME NEW p \in Process, StatementFails(p) PROVE StatusInv'
  <2>1. \A a \in Account : Active(p, a) => a \in abandoned'
    BY <1>11 DEF StatementFails, Active
  <2> QED BY <1>11, <2>1, GoneStatus DEF StatementFails
<1> QED
  BY <1>1, <1>2, <1>3, <1>4, <1>5, <1>6, <1>7, <1>9, <1>10, <1>11, CopyStatus, RemoveStatus, RenameStatus DEF Next

\* The status keeps users apart: any number of processes and users, any of them ending
\* at any point, keep one process at most on the board as an account, with status 1, until
\* two are in the middle of changing it at one time or a window closed late has reset it;
\* and status 1 is that of somebody on the board or of a process that ended without
\* resetting it also after a late close.
THEOREM StatusCorrect == Spec => []StatusIsSession
<1>1. Init => TypeOK /\ ScreenInv /\ StatusInv
  BY SessionAssumption, IdleStep
  DEF Init, TypeOK, Contents, ScreenInv, StatusInv, OneChange, OneActive, ResetInv, SetInv, BoardInv, BusyInv,
      Active, At
<1>2. TypeOK /\ ScreenInv /\ StatusInv /\ [Next]_vars => (TypeOK /\ ScreenInv /\ StatusInv)'
  BY StepType, ScreenStep, StatusStep
<1>3. StatusInv => StatusIsSession
  <2> SUFFICES ASSUME StatusInv, NEW a \in Account \ raced, Unchanging(a)
               PROVE  /\ a \notin ousted /\ Logged(a) # {} => file[a] = "1" /\ Cardinality(Logged(a)) = 1
                      /\ file[a] = "1" => Logged(a) # {} \/ a \in abandoned
    BY DEF StatusIsSession
  <2>1. \A p \in Process : endUser[p] = a => doing[p].step \notin Steps
    BY DEF Unchanging, Changing
  <2>2. \A p \in Process : Active(p, a) <=> p \in Logged(a)
    BY <2>1 DEF Active, Logged
  <2>3. ASSUME a \notin ousted, NEW p \in Logged(a) PROVE file[a] = "1" /\ Cardinality(Logged(a)) = 1
    <3>1. p \in Process /\ file[a] = "1"
      BY <2>1, <2>3 DEF Logged, StatusInv, BoardInv
    <3>2. \A q \in Logged(a) : q \in Process /\ q = p
      BY <2>2, <2>3, <3>1 DEF Logged, StatusInv, OneActive
    <3>3. Logged(a) = {p}
      BY <2>3, <3>2
    <3> QED BY <3>1, <3>3, FS_Singleton
  <2>4. file[a] = "1" => Logged(a) # {} \/ a \in abandoned
    BY <2>2 DEF StatusInv, BusyInv
  <2> QED BY <2>3, <2>4
<1> QED
  BY <1>1, <1>2, <1>3, PTL DEF Spec

-----------------------------------------------------------------------------
(* The files *)

\* An account that somebody has logged in to, that nobody races for or has left in the
\* middle of a change, is in its file, or in the output file of one who is about to
\* rename it; and its output file is in use by one who has still to do so.
KeepInv ==
    \A a \in Account \ (raced \cup abandoned) :
        /\ (\E p \in Process : endUser[p] = a) =>
              \/ file[a] \in {"0", "1"}
              \/ \E p \in Process : endUser[p] = a /\ doing[p].step = "rename"
        /\ \A p \in Process : endUser[p] = a /\ doing[p].step \in {"remove", "rename"} =>
              output[a] \in {"0", "1"}
        /\ output[a] \in {"0", "1"} =>
              \E p \in Process : endUser[p] = a /\ doing[p].step \in {"remove", "rename"}

\* Steps before which and after which the process is not at work on files, or is about
\* to copy one.
LEMMA KeepOthers ==
    ASSUME TypeOK, KeepInv, NEW p \in Process,
           doing[p].step \notin {"remove", "rename"}, doing'[p].step \notin {"remove", "rename"},
           \A q \in Process \ {p} : doing'[q] = doing[q] /\ endUser'[q] = endUser[q],
           endUser'[p] \in Account => endUser'[p] = endUser[p] \/ file[endUser'[p]] \in {"0", "1"},
           \A a \in Account : file'[a] = file[a] \/ file[a] \notin {"0", "1"},
           output' = output, raced \subseteq raced', abandoned \subseteq abandoned'
    PROVE  KeepInv'
<1> SUFFICES ASSUME NEW a \in Account, a \notin raced \cup abandoned
             PROVE  /\ (\E q \in Process : endUser'[q] = a) =>
                          \/ file'[a] \in {"0", "1"}
                          \/ \E q \in Process : endUser'[q] = a /\ doing'[q].step = "rename"
                    /\ \A q \in Process : endUser'[q] = a /\ doing'[q].step \in {"remove", "rename"} =>
                          output'[a] \in {"0", "1"}
                    /\ output'[a] \in {"0", "1"} =>
                          \E q \in Process : endUser'[q] = a /\ doing'[q].step \in {"remove", "rename"}
  BY DEF KeepInv
<1>1. \A q \in Process : endUser'[q] = a /\ doing'[q].step \in {"remove", "rename"}
                    <=> endUser[q] = a /\ doing[q].step \in {"remove", "rename"}
  OBVIOUS
<1>2. \A q \in Process : endUser[q] = a /\ doing[q].step = "rename"
                     => endUser'[q] = a /\ doing'[q].step = "rename"
  OBVIOUS
<1>3. (\E q \in Process : endUser'[q] = a) => (\E q \in Process : endUser[q] = a) \/ file[a] \in {"0", "1"}
  OBVIOUS
<1> QED
  BY <1>1, <1>2, <1>3 DEF KeepInv

\* A process that ends leaves only accounts it is not at work on, or leaves them
\* abandoned.
LEMMA KeepGone ==
    ASSUME TypeOK, KeepInv, NEW p \in Process, Gone(p),
           \A a \in Account : Active(p, a) => a \in abandoned',
           UNCHANGED <<file, output, raced>>, abandoned \subseteq abandoned'
    PROVE  KeepInv'
<1>1. /\ \A q \in Process \ {p} : doing'[q] = doing[q] /\ endUser'[q] = endUser[q]
      /\ doing'[p] = Idle /\ endUser'[p] = None
  BY DEF Gone, TypeOK
<1>2. ASSUME NEW a \in Account, a \notin abandoned'
      PROVE  \A q \in Process : endUser'[q] = a /\ doing'[q].step \in {"remove", "rename"}
                            <=> endUser[q] = a /\ doing[q].step \in {"remove", "rename"}
  BY <1>1, <1>2, SessionAssumption, IdleStep DEF Active, Steps
<1>3. ASSUME NEW a \in Account, a \notin abandoned'
      PROVE  \A q \in Process : endUser'[q] = a /\ doing'[q].step = "rename"
                            <=> endUser[q] = a /\ doing[q].step = "rename"
  BY <1>1, <1>3, SessionAssumption, IdleStep DEF Active, Steps
<1>4. \A a \in Account : \A q \in Process : endUser'[q] = a => endUser[q] = a
  BY <1>1, SessionAssumption
<1> QED
  BY <1>2, <1>3, <1>4 DEF KeepInv

\* Who copies a file finds it with a status.
LEMMA KeepCopy ==
    ASSUME TypeOK, StatusInv, KeepInv, NEW p \in Process, Copy(p)
    PROVE  /\ KeepInv'
           /\ endUser[p] \notin raced \cup abandoned => file[endUser[p]] \in {"0", "1"}
<1> DEFINE a == endUser[p]
<1>1. a \in Account /\ doing[p] \in FileChange /\ Active(p, a) /\ doing[p].step = "copy"
  BY DoingForms DEF Copy, Steps, Active
<1>2. doing'[p].step = "remove" /\ \A q \in Process \ {p} : doing'[q] = doing[q]
  BY <1>1 DEF Copy, TypeOK, FileChange, Steps
<1>3. output'[a] = WithStatus(file[a], doing[p].status) /\ \A b \in Account \ {a} : output'[b] = output[b]
  BY <1>1 DEF Copy, TypeOK
<1>4. UNCHANGED <<file, endUser, raced, abandoned>>
  BY DEF Copy
<1>5. ASSUME a \notin raced, NEW q \in Process, endUser[q] = a, doing[q].step \in {"remove", "rename"}
      PROVE  FALSE
  BY <1>1, <1>5 DEF StatusInv, OneChange, At, Steps
<1>6. a \notin raced \cup abandoned => file[a] \in {"0", "1"}
  BY <1>1, <1>5 DEF KeepInv
<1>7. a \notin raced \cup abandoned => output'[a] \in {"0", "1"}
  BY <1>1, <1>3, <1>6 DEF WithStatus, FileChange
<1>8. KeepInv'
  BY <1>1, <1>2, <1>3, <1>4, <1>6, <1>7 DEF KeepInv
<1> QED
  BY <1>6, <1>8

\* Who removes a file has it in his output file.
LEMMA KeepRemove ==
    ASSUME TypeOK, KeepInv, NEW p \in Process, RemoveOld(p)
    PROVE  KeepInv'
<1> DEFINE a == endUser[p]
<1>1. a \in Account /\ doing[p] \in FileChange /\ doing[p].step = "remove"
  BY DoingForms DEF RemoveOld, Steps
<1>2. doing'[p].step = "rename" /\ \A q \in Process \ {p} : doing'[q] = doing[q]
  BY <1>1 DEF RemoveOld, TypeOK, FileChange, Steps
<1>3. \A b \in Account \ {a} : file'[b] = file[b]
  BY <1>1 DEF RemoveOld, TypeOK
<1>4. UNCHANGED <<output, endUser, raced, abandoned>>
  BY DEF RemoveOld
<1> QED
  BY <1>1, <1>2, <1>3, <1>4 DEF KeepInv

\* Who names his output file after an account has its status there.
LEMMA KeepRename ==
    ASSUME TypeOK, StatusInv, KeepInv, NEW p \in Process, Rename(p)
    PROVE  KeepInv'
<1> DEFINE a == endUser[p]
<1>1. /\ a \in Account /\ doing[p] \in FileChange /\ Active(p, a)
      /\ doing[p].step = "rename" /\ Renamed(a) /\ Continue(p) /\ raced' = raced
  BY DoingForms DEF Rename, Steps, Active
<1>2. \A b \in Account \ {a} : UNCHANGED <<file[b], output[b]>>
  BY <1>1 DEF Renamed, TypeOK
<1>3. a \notin raced \cup abandoned => file'[a] \in {"0", "1"} /\ output'[a] = "missing"
  BY <1>1 DEF KeepInv, Renamed, TypeOK
<1>4. ASSUME a \notin raced, NEW q \in Process \ {p}, endUser[q] = a, doing[q].step \in {"remove", "rename"}
      PROVE  FALSE
  BY <1>1, <1>4 DEF StatusInv, OneChange, At, Steps
<1>5. abandoned \subseteq abandoned'
  BY <1>1 DEF Continue, Enter, FileChange
<1>6. /\ doing' = [doing EXCEPT ![p] = doing'[p]] /\ endUser' = [endUser EXCEPT ![p] = endUser'[p]]
      /\ doing'[p].step \notin {"remove", "rename"} /\ endUser'[p] \in {a, None}
  <2>1. CASE doing' = [doing EXCEPT ![p] = Idle]
    BY <1>1, <2>1, IdleStep DEF Continue, Enter, Gone, TypeOK, Steps
  <2>2. CASE doing' = [doing EXCEPT ![p] = SetStatus("copy", "0", "off")] /\ endUser' = endUser
    BY <2>2, SetStatusParts DEF TypeOK
  <2> QED BY <1>1, <2>1, <2>2 DEF Continue, Enter, Gone, FileChange
<1>7. \A q \in Process \ {p} : doing'[q] = doing[q] /\ endUser'[q] = endUser[q]
  BY <1>6 DEF TypeOK
<1> QED
  BY <1>1, <1>2, <1>3, <1>4, <1>5, <1>6, <1>7, SessionAssumption DEF KeepInv

\* Every step keeps the accounts that nobody races for or has left.
LEMMA KeepStep ==
    ASSUME TypeOK, ScreenInv, StatusInv, KeepInv, [Next]_vars
    PROVE  KeepInv'
<1> USE SessionAssumption
<1>1. CASE UNCHANGED vars
  BY <1>1 DEF vars, KeepInv
<1>2. ASSUME NEW p \in Process, Open(p) PROVE KeepInv'
  BY <1>2 DEF Open, KeepInv
<1>3. ASSUME NEW p \in Process, doing[p] = Idle, NEW status, NEW next,
             doing' = [doing EXCEPT ![p] = SetStatus("copy", status, next)],
             \A q \in Process \ {p} : endUser'[q] = endUser[q],
             endUser'[p] = endUser[p] \/ file[endUser'[p]] = "0",
             Overlap(p, endUser'[p]), endUser'[p] \in Account,
             UNCHANGED <<file, output, abandoned>>
      PROVE  KeepInv'
  <2>1. /\ doing[p].step \notin {"remove", "rename"} /\ doing'[p].step \notin {"remove", "rename"}
        /\ \A q \in Process \ {p} : doing'[q] = doing[q]
    BY <1>3, IdleStep, SetStatusParts DEF TypeOK, Steps
  <2>2. raced \subseteq raced'
    BY <1>3 DEF Overlap
  <2> QED BY <1>3, <2>1, <2>2, KeepOthers
<1>4. ASSUME NEW p \in Process, Close(p) PROVE KeepInv'
  <2>1. CASE endUser[p] = None
    <3>1. \A a \in Account : ~Active(p, a)
      BY <2>1 DEF Active
    <3> QED BY <1>4, <2>1, <3>1, KeepGone DEF Close
  <2>2. CASE endUser[p] # None
    BY <1>3, <1>4, <2>2 DEF Close, TypeOK
  <2> QED BY <2>1, <2>2
<1>5. ASSUME NEW p \in Process, Crash(p) PROVE KeepInv'
  <2>1. \A a \in Account : Active(p, a) => a \in abandoned'
    BY <1>5 DEF Crash, Active, Changing, InSession
  <2> QED BY <1>5, <2>1, KeepGone DEF Crash
<1>6. ASSUME NEW p \in Process, NEW a \in Uses[p], NewUser(p, a) PROVE KeepInv'
  <2>1. /\ doing[p].step \notin {"remove", "rename"} /\ doing'[p].step \notin {"remove", "rename"}
        /\ \A q \in Process \ {p} : doing'[q] = doing[q]
    BY <1>6, IdleStep DEF NewUser, AtScreen, TypeOK, Steps
  <2>2. \A b \in Account : file'[b] = file[b] \/ file[b] \notin {"0", "1"}
    BY <1>6 DEF NewUser, TypeOK
  <2> QED BY <1>6, <2>1, <2>2, KeepOthers DEF NewUser
<1>7. ASSUME NEW p \in Process, NEW a \in Uses[p], Login(p, a) PROVE KeepInv'
  <2>1. endUser'[p] = a /\ \A q \in Process \ {p} : endUser'[q] = endUser[q]
    BY <1>7 DEF Login, TypeOK
  <2> QED BY <1>3, <1>7, <2>1 DEF Login, AtScreen
<1>8. ASSUME NEW p \in Process, FillAccount(p) PROVE KeepInv'
  <2>1. /\ doing[p].step \notin {"remove", "rename"} /\ doing'[p].step \notin {"remove", "rename"}
        /\ \A q \in Process \ {p} : doing'[q] = doing[q]
    BY <1>8, IdleStep DEF FillAccount, TypeOK, Steps
  <2>2. \A b \in Account : file'[b] = file[b] \/ file[b] \notin {"0", "1"}
    BY <1>8, DoingForms DEF FillAccount, TypeOK, Creation
  <2> QED BY <1>8, <2>1, <2>2, KeepOthers DEF FillAccount
<1>9. ASSUME NEW p \in Process, Logout(p) PROVE KeepInv'
  BY <1>3, <1>9 DEF Logout, AtScreen, TypeOK
<1>10. ASSUME NEW p \in Process, CloseAddWindow(p) PROVE KeepInv'
  BY <1>3, <1>10 DEF CloseAddWindow, AtScreen, TypeOK
<1>11. ASSUME NEW p \in Process, StatementFails(p) PROVE KeepInv'
  <2>1. \A a \in Account : Active(p, a) => a \in abandoned'
    BY <1>11 DEF StatementFails, Active
  <2> QED BY <1>11, <2>1, KeepGone DEF StatementFails
<1> QED
  BY <1>1, <1>2, <1>4, <1>5, <1>6, <1>7, <1>8, <1>9, <1>10, <1>11, KeepCopy, KeepRemove, KeepRename DEF Next

\* An account is never lost by changing its status, in whichever step a process ends,
\* unless two change it at once or one was left in the middle of a change.
THEOREM AccountsSurvive == Spec => AccountSurvives
<1> DEFINE Inv == TypeOK /\ ScreenInv /\ StatusInv /\ KeepInv
           Kept(a) == {file[a], output[a]} \cap {"0", "1"} # {}
           Survives == \A a \in Account \ (raced' \cup abandoned) : Kept(a) => Kept(a)'
<1>1. Init => Inv
  BY SessionAssumption, IdleStep
  DEF Init, TypeOK, Contents, ScreenInv, StatusInv, OneChange, OneActive, ResetInv, SetInv, BoardInv, BusyInv,
      Active, At, KeepInv
<1>2. Inv /\ [Next]_vars => Inv'
  BY StepType, ScreenStep, StatusStep, KeepStep
<1>3. Inv /\ [Next]_vars => [Survives]_vars
  <2> SUFFICES ASSUME Inv, Next PROVE Survives
    OBVIOUS
  <2> USE SessionAssumption
  <2>2. ASSUME output' = output, \A a \in Account : file'[a] = file[a] \/ file[a] \notin {"0", "1"}
        PROVE  Survives
    BY <2>2
  <2>3. ASSUME NEW p \in Process, NEW a \in Uses[p], NewUser(p, a) PROVE Survives
    BY <2>2, <2>3 DEF NewUser, TypeOK
  <2>4. ASSUME NEW p \in Process, FillAccount(p) PROVE Survives
    BY <2>2, <2>4, DoingForms DEF FillAccount, TypeOK, Creation
  <2>5. ASSUME NEW p \in Process, Copy(p) PROVE Survives
    <3>1. endUser[p] \notin raced \cup abandoned => file[endUser[p]] \in {"0", "1"}
      BY <2>5, KeepCopy
    <3>2. \A b \in Account \ {endUser[p]} : output'[b] = output[b]
      BY <2>5 DEF Copy, TypeOK
    <3>3. file' = file /\ raced' = raced
      BY <2>5 DEF Copy
    <3> QED BY <3>1, <3>2, <3>3
  <2>6. ASSUME NEW p \in Process, RemoveOld(p) PROVE Survives
    <3>1. endUser[p] \in Account \ (raced \cup abandoned) => output[endUser[p]] \in {"0", "1"}
      BY <2>6 DEF RemoveOld, KeepInv
    <3>2. \A b \in Account \ {endUser[p]} : file'[b] = file[b]
      BY <2>6 DEF RemoveOld, TypeOK
    <3>3. output' = output /\ raced' = raced
      BY <2>6 DEF RemoveOld
    <3> QED BY <3>1, <3>2, <3>3
  <2>7. ASSUME NEW p \in Process, Rename(p) PROVE Survives
    <3>1. endUser[p] \in Account \ (raced \cup abandoned) => output[endUser[p]] \in {"0", "1"}
      BY <2>7 DEF Rename, KeepInv
    <3>2. endUser[p] \in Account
      BY <2>7, DoingForms DEF Rename, Steps
    <3>3. /\ \A b \in Account \ {endUser[p]} : UNCHANGED <<file[b], output[b]>>
          /\ endUser[p] \notin raced \cup abandoned => file'[endUser[p]] \in {"0", "1"}
      BY <2>7, <3>1, <3>2 DEF Rename, Renamed, TypeOK
    <3>4. raced' = raced
      BY <2>7 DEF Rename
    <3> QED BY <3>3, <3>4
  <2>8. CASE UNCHANGED <<file, output>>
    BY <2>2, <2>8
  <2> QED
    BY <2>3, <2>4, <2>5, <2>6, <2>7, <2>8 DEF Next, Open, Close, Crash, StatementFails, Login, Logout, CloseAddWindow
<1>4. Inv /\ [Next]_vars => [\A a \in Account \ (raced' \cup abandoned) :
          {file[a], output[a]} \cap {"0", "1"} # {} =>
              {file'[a], output'[a]} \cap {"0", "1"} # {}]_vars
  BY <1>3
<1> QED
  BY <1>1, <1>2, <1>4, PTL DEF Spec, AccountSurvives

=============================================================================
