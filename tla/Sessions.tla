------------------------------ MODULE Sessions ------------------------------
(***************************************************************************)
(* Who is logged in: the accounts and sessions of the Trello application,  *)
(* src/trello_application/main.cpp, and of the database application,       *)
(* src/database_application/main.cpp, which use the same account files.    *)
(*                                                                         *)
(* An account is a text file, named by user name and password, whose last  *)
(* line is the status of the user: 1 while he is logged in.  Any number of *)
(* processes read and replace these files without a lock.  A status is     *)
(* changed by copying the file with the new status to an output file,      *)
(* removing the file, and giving the output file its name; these are three *)
(* steps here, and a process may end between any two of them.              *)
(*                                                                         *)
(* The database application also creates two tables named after the user   *)
(* when he logs in.  The table of counters, created first, is never        *)
(* dropped, and is the one kept here; the table of tasks is dropped and    *)
(* created again whenever the board is drawn, but only by a process that   *)
(* has created the table of counters.  The SQL server is external: creating*)
(* a table that exists fails, and any statement may fail at any time, which*)
(* ends the process.                                                       *)
(***************************************************************************)
EXTENDS FiniteSets, Naturals

CONSTANTS
    Process,   \* the processes, each with a window
    Account,   \* pairs of a user name and a password
    userName,  \* the user name of each account
    Uses,      \* per process, the accounts its users know
    MayCrash,  \* the processes that may end at any point
    None       \* no account: nobody has logged in since the process began

ASSUME SessionAssumption ==
    /\ None \notin Account
    /\ DOMAIN userName = Account
    /\ Uses \in [Process -> SUBSET Account]
    /\ MayCrash \subseteq Process

VARIABLES
    file,      \* per account, its file: missing, without a status, or the status
    output,    \* per account, its output file
    window,    \* per process, the screen it shows
    database,  \* the processes that run the database application
    endUser,   \* per process, the account it last logged in
    doing,     \* per process, the file operation it is in
    tables,    \* the user names for which there is a table of counters
    abandoned, \* history: accounts a process has left without resetting the status
    raced,     \* history: accounts that two processes were changing at one time
    ousted     \* history: accounts on a board whose status another's window has reset

vars == <<file, output, window, database, endUser, doing, tables, abandoned, raced, ousted>>

Idle == [step |-> "none"]

\* The steps of setUserStatus, the status to write, and what follows.
SetStatus(step, status, next) == [step |-> step, status |-> status, next |-> next]

Steps == {"copy", "remove", "rename"}

Init ==
    /\ file = [a \in Account |-> "missing"]
    /\ output = [a \in Account |-> "missing"]
    /\ window = [p \in Process |-> "off"]
    /\ database = {}
    /\ endUser = [p \in Process |-> None]
    /\ doing = [p \in Process |-> Idle]
    /\ tables = {}
    /\ abandoned = {}
    /\ raced = {}
    /\ ousted = {}

\* Process p is at work on the files of a, or has a session as a.
Changing(p, a) ==
    \/ doing[p].step \in Steps /\ endUser[p] = a
    \/ doing[p].step = "create" /\ doing[p].account = a

InSession(p, a) == endUser[p] = a /\ (window[p] = "board" \/ Changing(p, a))

\* Process p begins to change the files of a, perhaps while another is changing them.
Overlap(p, a) ==
    raced' = IF \E q \in Process \ {p} : Changing(q, a) THEN raced \cup {a} ELSE raced

-----------------------------------------------------------------------------
(* Windows and accounts *)

\* One of the two programs is started; its main() shows the login screen.
Open(p) ==
    /\ window[p] = "off"
    /\ window' = [window EXCEPT ![p] = "login"]
    /\ database' \in {database, database \cup {p}}
    /\ UNCHANGED <<file, output, endUser, doing, tables, abandoned, raced, ousted>>

AtScreen(p, screen) == window[p] = screen /\ doing[p] = Idle

\* "Create Account": the new file is empty first; it is not created when there is
\* one already.
NewUser(p, a) ==
    /\ AtScreen(p, "login")
    /\ file[a] = "missing"
    /\ file' = [file EXCEPT ![a] = "empty"]
    /\ doing' = [doing EXCEPT ![p] = [step |-> "create", account |-> a]]
    /\ UNCHANGED <<output, window, database, endUser, tables, abandoned, raced, ousted>>

\* Its lines reach the file, unless another has taken the name meanwhile.
FillAccount(p) ==
    /\ doing[p].step = "create"
    /\ LET a == doing[p].account IN
       file' = IF file[a] = "empty" THEN [file EXCEPT ![a] = "0"] ELSE file
    /\ doing' = [doing EXCEPT ![p] = Idle]
    /\ UNCHANGED <<output, window, database, endUser, tables, abandoned, raced, ousted>>

\* Mutant: whoever is logged in already.
LoginAnyway(p, a) ==
    /\ AtScreen(p, "login")
    /\ file[a] \in {"0", "1"}
    /\ endUser' = [endUser EXCEPT ![p] = a]
    /\ doing' = [doing EXCEPT ![p] = SetStatus("copy", "1", "enter")]
    /\ Overlap(p, a)
    /\ UNCHANGED <<file, output, window, database, tables, abandoned, ousted>>

\* A login that finds the account with status 0; any other status is taken for 1.
Login(p, a) ==
    /\ AtScreen(p, "login")
    /\ file[a] = "0"
    /\ endUser' = [endUser EXCEPT ![p] = a]
    /\ doing' = [doing EXCEPT ![p] = SetStatus("copy", "1", "enter")]
    /\ Overlap(p, a)
    /\ UNCHANGED <<file, output, window, database, tables, abandoned, ousted>>

\* Mutant: the status stays as it is.
LogoutSilently(p) ==
    /\ AtScreen(p, "board")
    /\ window' = [window EXCEPT ![p] = "login"]
    /\ UNCHANGED <<file, output, database, endUser, doing, tables, abandoned, raced, ousted>>

\* "Log out"; the account stays the one of the process.
Logout(p) ==
    /\ AtScreen(p, "board")
    /\ doing' = [doing EXCEPT ![p] = SetStatus("copy", "0", "logout")]
    /\ Overlap(p, endUser[p])
    /\ UNCHANGED <<file, output, window, database, endUser, tables, abandoned, ousted>>

\* Mutant: what the process has begun goes on.
GoneButBusy(p) ==
    /\ window' = [window EXCEPT ![p] = "off"]
    /\ database' = database \ {p}
    /\ endUser' = [endUser EXCEPT ![p] = None]
    /\ UNCHANGED doing

\* The process ends.
Gone(p) ==
    /\ window' = [window EXCEPT ![p] = "off"]
    /\ database' = database \ {p}
    /\ endUser' = [endUser EXCEPT ![p] = None]
    /\ doing' = [doing EXCEPT ![p] = Idle]

\* The window is closed, also on the login screen after a logout.  Before the
\* first login the files that are replaced are those of no account.
Close(p) ==
    /\ doing[p] = Idle
    /\ window[p] \in {"login", "board"}
    /\ IF endUser[p] = None
       THEN Gone(p) /\ UNCHANGED <<raced, ousted>>
       ELSE LET a == endUser[p] IN
            /\ doing' = [doing EXCEPT ![p] = SetStatus("copy", "0", "close")]
            /\ Overlap(p, a)
            /\ ousted' = IF window[p] = "login" /\ \E q \in Process \ {p} : InSession(q, a)
                         THEN ousted \cup {a} ELSE ousted
            /\ UNCHANGED <<window, database, endUser>>
    /\ UNCHANGED <<file, output, tables, abandoned>>

\* The window of addBoard is closed.
CloseAddWindow(p) ==
    /\ AtScreen(p, "board")
    /\ doing' = [doing EXCEPT ![p] = SetStatus("copy", "1", "board")]
    /\ Overlap(p, endUser[p])
    /\ UNCHANGED <<file, output, window, database, endUser, tables, abandoned, ousted>>

-----------------------------------------------------------------------------
(* setUserStatus *)

\* What the lines of a file give with another status; a missing file has none.
WithStatus(content, status) == IF content \in {"0", "1"} THEN status ELSE "empty"

Copy(p) ==
    /\ doing[p].step = "copy"
    /\ LET a == endUser[p] IN
       output' = [output EXCEPT ![a] = WithStatus(file[a], doing[p].status)]
    /\ doing' = [doing EXCEPT ![p].step = "remove"]
    /\ UNCHANGED <<file, window, database, endUser, tables, abandoned, raced, ousted>>

\* Mutant: the output file is removed with it.
RemoveBoth(p) ==
    /\ doing[p].step = "remove"
    /\ file' = [file EXCEPT ![endUser[p]] = "missing"]
    /\ output' = [output EXCEPT ![endUser[p]] = "missing"]
    /\ doing' = [doing EXCEPT ![p].step = "rename"]
    /\ UNCHANGED <<window, database, endUser, tables, abandoned, raced, ousted>>

RemoveOld(p) ==
    /\ doing[p].step = "remove"
    /\ file' = [file EXCEPT ![endUser[p]] = "missing"]
    /\ doing' = [doing EXCEPT ![p].step = "rename"]
    /\ UNCHANGED <<output, window, database, endUser, tables, abandoned, raced, ousted>>

\* Without an output file there is nothing to rename, and the call fails unnoticed.
Renamed(a) ==
    /\ file' = IF output[a] = "missing" THEN file ELSE [file EXCEPT ![a] = output[a]]
    /\ output' = [output EXCEPT ![a] = "missing"]

\* Mutant: CREATE TABLE IF NOT EXISTS.
EnterAnyway(p) ==
    /\ tables' = tables \cup {userName[endUser[p]]}
    /\ window' = [window EXCEPT ![p] = "board"]
    /\ doing' = [doing EXCEPT ![p] = Idle]
    /\ UNCHANGED <<database, endUser, abandoned>>

\* The login goes on: the database application connects and creates the user's
\* tables; if that fails, before or after the table of counters is there, it exits and
\* leaves the status as it is.
Enter(p) ==
    LET a == endUser[p] IN
    \/ /\ p \in database => userName[a] \notin tables
       /\ tables' = IF p \in database THEN tables \cup {userName[a]} ELSE tables
       /\ window' = [window EXCEPT ![p] = "board"]
       /\ doing' = [doing EXCEPT ![p] = Idle]
       /\ UNCHANGED <<database, endUser, abandoned>>
    \/ /\ p \in database
       /\ Gone(p)
       /\ abandoned' = abandoned \cup {a}
       /\ tables' \in {tables, tables \cup {userName[a]}}

\* Where the process goes on after a change of status: a closed window changes it
\* a second time when the event loop has ended.
Continue(p) ==
    CASE doing[p].next = "enter" -> Enter(p)
      [] doing[p].next = "close" ->
            /\ doing' = [doing EXCEPT ![p] = SetStatus("copy", "0", "off")]
            /\ UNCHANGED <<window, database, endUser, tables, abandoned>>
      [] doing[p].next = "off" -> Gone(p) /\ UNCHANGED <<tables, abandoned>>
      [] OTHER ->
            /\ window' = [window EXCEPT ![p] =
                             IF doing[p].next = "logout" THEN "login" ELSE "board"]
            /\ doing' = [doing EXCEPT ![p] = Idle]
            /\ UNCHANGED <<database, endUser, tables, abandoned>>

Rename(p) ==
    /\ doing[p].step = "rename"
    /\ Renamed(endUser[p])
    /\ Continue(p)
    /\ UNCHANGED <<raced, ousted>>

\* A database application on the board exits when one of its statements fails: the table
\* of tasks is dropped, created and filled again whenever the board is drawn.
StatementFails(p) ==
    /\ AtScreen(p, "board")
    /\ p \in database
    /\ Gone(p)
    /\ abandoned' = abandoned \cup {endUser[p]}
    /\ UNCHANGED <<file, output, tables, raced, ousted>>

\* The process ends at any point: killed, by an exception that nobody catches, or
\* on the login screen by reading the status of a file without one.
Crash(p) ==
    /\ p \in MayCrash
    /\ window[p] # "off"
    /\ Gone(p)
    /\ abandoned' = abandoned \cup {a \in Account : Changing(p, a) \/ InSession(p, a)}
    /\ UNCHANGED <<file, output, tables, raced, ousted>>

-----------------------------------------------------------------------------

Next ==
    \E p \in Process :
        \/ Open(p) \/ Close(p) \/ Crash(p) \/ StatementFails(p)
        \/ \E a \in Uses[p] : NewUser(p, a) \/ Login(p, a)
        \/ FillAccount(p)
        \/ Logout(p) \/ CloseAddWindow(p)
        \/ Copy(p) \/ RemoveOld(p) \/ Rename(p)

Spec == Init /\ [][Next]_vars

\* A file operation that was begun goes on, and who is logged in logs out at some
\* time, however often he opens and closes the window of addBoard before.
FairSpec ==
    /\ Spec
    /\ \A p \in Process : /\ WF_vars(FillAccount(p) \/ Copy(p) \/ RemoveOld(p) \/ Rename(p))
                          /\ SF_vars(Logout(p))

-----------------------------------------------------------------------------
(* Properties *)

Contents == {"missing", "empty", "0", "1"}

Creation == [step : {"create"}, account : Account]

FileChange == [step : Steps, status : {"0", "1"},
               next : {"enter", "logout", "close", "off", "board"}]

TypeOK ==
    /\ file \in [Account -> Contents] /\ output \in [Account -> Contents]
    /\ window \in [Process -> {"off", "login", "board"}]
    /\ endUser \in [Process -> Account \cup {None}]
    /\ doing \in [Process -> {Idle} \cup Creation \cup FileChange]
    /\ \A p \in Process :
          /\ window[p] = "off" => doing[p] = Idle /\ endUser[p] = None
          /\ window[p] = "board" \/ doing[p].step \in Steps => endUser[p] # None
    /\ database \subseteq Process
    /\ tables \subseteq {userName[a] : a \in Account}
    /\ abandoned \subseteq Account /\ raced \subseteq Account /\ ousted \subseteq Account

\* The processes on the board as a.
Logged(a) == {p \in Process : window[p] = "board" /\ endUser[p] = a}

Unchanging(a) == \A p \in Process : ~Changing(p, a)

\* The status keeps users apart: whoever finds status 0 and logs in is alone on the
\* board as his account, and is shown online while he is.  The two ways around this
\* are left out: two processes in the middle of changing the account at one time, and
\* a window that is closed after a logout, when another has logged in meanwhile.  In any
\* case an account keeps status 1 only while somebody is on the board as it, or after a
\* process ended without resetting it.
StatusIsSession ==
    \A a \in Account \ raced :
        Unchanging(a) =>
            /\ a \notin ousted /\ Logged(a) # {} => file[a] = "1" /\ Cardinality(Logged(a)) = 1
            /\ file[a] = "1" => Logged(a) # {} \/ a \in abandoned

\* "Online User Display: Will show you who else is online" (README.md:878).  The list
\* is that of the accounts with status 1: whoever is on a board is on it, and nobody else.
OnlineIsShown == \A a \in Account : Unchanging(a) => (file[a] = "1" <=> Logged(a) # {})

\* No account is lost: one of its two files has a status at any time, whenever a
\* process ends, also when a window closed late resets it while another is on the
\* board as it.  Two processes in the middle of changing it at one time do lose it, and
\* so does one that goes on after another has ended between removing the file and
\* naming the output file after it.
AccountSurvives ==
    [][\A a \in Account \ (raced' \cup abandoned) :
          {file[a], output[a]} \cap {"0", "1"} # {} =>
              {file'[a], output'[a]} \cap {"0", "1"} # {}]_vars

\* The tables keep two database applications apart where the status does not: no
\* two of them are ever logged in under one user name.
OneDatabaseSession ==
    \A p, q \in database :
        p # q /\ window[p] = "board" /\ window[q] = "board" =>
            userName[endUser[p]] # userName[endUser[q]]

\* Nobody is locked out by others for ever: an account that is in use becomes free
\* again, unless a process ended without resetting it or two were changing it at one
\* time.
AccountsBecomeFree ==
    \A a \in Account :
        file[a] = "1" ~> (file[a] = "0" \/ a \in abandoned \/ a \in raced)

=============================================================================
