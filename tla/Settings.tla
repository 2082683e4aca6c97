------------------------------ MODULE Settings ------------------------------
(***************************************************************************)
(* SettingsService: a table of containers of settings in memory and the    *)
(* TOML file it is written to after every change.                          *)
(*                                                                         *)
(*   server   starts the program and serves the clients' requests          *)
(*   reader   saves what the headphones say                                *)
(*                                                                         *)
(* Nothing is locked, and the file is written in place: opening it empties *)
(* it, and what is printed arrives when it is closed, which nobody checks. *)
(* What two threads in the same table at once do to it is undefined and    *)
(* not modelled: the steps here are the moments between the calls.         *)
(***************************************************************************)
EXTENDS Naturals

CONSTANTS
    SettingNames,  \* of settings
    Values,
    ValidLevels,   \* values isValidLogLevel() accepts
    MaxSaves       \* bound: settings saved

Threads == {"server", "reader"}
Program == "magicpods"                 \* the container of the program's own settings
Containers == {Program, "device"}
Scalar == [name \in {""} |-> "scalar"]  \* what a user may have written instead of a container
Empty == <<>>

VARIABLES
    running,
    memory,      \* _settings
    file,        \* what the file holds, or that it is missing or cannot be parsed
    pc,          \* where each thread is in SaveSetting()
    saving,      \* the setting it saves, or Nothing while the program starts
    text,        \* what it has printed
    level,       \* the logger's level
    kept,        \* history: the first file's settings, and what listeners have been told
    refused,     \* history: the program could not be started
    saves,       \* history: how many there have been (bound)
    excused      \* history: see SettingsKept

threadVars == <<pc, saving, text>>
vars == <<running, memory, file, threadVars, level, kept, refused, saves, excused>>

Nothing == [container |-> Program, name |-> "none"]
Holds(table, container, name) ==
    container \in DOMAIN table /\ table[container] # Scalar
        /\ name \in DOMAIN table[container]

\* A table with a value in it, and one over another.
With(table, key, value) ==
    [k \in DOMAIN table \cup {key} |-> IF k = key THEN value ELSE table[k]]
Over(table, other) ==
    [k \in DOMAIN table \cup DOMAIN other |-> IF k \in DOMAIN table THEN table[k] ELSE other[k]]

\* The container is made if there is none, or something else in its place.
IsTable(table, container) == container \in DOMAIN table /\ table[container] # Scalar
Container(table, container) == IF IsTable(table, container) THEN table[container] ELSE Empty
Insert(table, container, name, value) ==
    With(table, container, With(Container(table, container), name, value))

GetDefaults == [c \in {Program} |-> [animation |-> "on", logLevel |-> "info"]]

\* Fault: the defaults win.
MergeDefaultsOver(settings, defaults) ==
    Over([c \in DOMAIN defaults |-> Over(defaults[c], Container(settings, c))], settings)

MergeDefaults(settings, defaults) ==
    Over([c \in DOMAIN defaults |-> Over(Container(settings, c), defaults[c])], settings)

Text(table) == [kind |-> "text", table |-> table]
Missing == [kind |-> "missing", table |-> Empty]
Torn == [kind |-> "torn", table |-> Empty]

\* Files users may have: of an older version, or edited by hand.
FirstFiles ==
    {Missing, Text(Empty), Text([c \in {Program} |-> [animation |-> "off"]]),
     Text([c \in Containers |-> IF c = Program THEN Scalar ELSE [color |-> "on"]])}

Init ==
    /\ running = FALSE /\ memory = Empty
    /\ file \in FirstFiles
    /\ pc = [t \in Threads |-> "idle"] /\ saving = [t \in Threads |-> Nothing]
    /\ text = [t \in Threads |-> Empty]
    /\ level = "debug" /\ kept = file.table
    /\ refused = FALSE /\ saves = 0 /\ excused = {}

Goes(t, from, to) == pc[t] = from /\ pc' = [pc EXCEPT ![t] = to]
Writing(t) == pc[t] \in {"print", "close"}
Starting == running /\ saving["server"] = Nothing /\ pc["server"] # "idle"
AllIdle == [t \in Threads |-> "idle"]

(***************************************************************************)
(* The constructor, and the program that ends.                             *)
(***************************************************************************)
\* A file that cannot be parsed throws, and main() does not catch.
LoadFromFile ==
    /\ ~running
    /\ IF file.kind = "torn"
         THEN refused' = TRUE /\ UNCHANGED <<running, memory, threadVars>>
         ELSE /\ running' = TRUE
              /\ memory' = MergeDefaults(file.table, GetDefaults)
              /\ pc' = [pc EXCEPT !["server"] = "open"]
              /\ UNCHANGED <<saving, text, refused>>
    /\ UNCHANGED <<file, level, kept, saves, excused>>

Ends ==
    /\ running' = FALSE /\ memory' = Empty /\ level' = "debug"
    /\ pc' = AllIdle /\ saving' = [t \in Threads |-> Nothing]
    /\ text' = [t \in Threads |-> Empty]

\* Of a setting that is being saved either value may survive.
Without(table, s) ==
    IF Holds(table, s.container, s.name)
    THEN [table EXCEPT ![s.container] =
             [n \in DOMAIN table[s.container] \ {s.name} |-> table[s.container][n]]]
    ELSE table
InFlight(t) == IF pc[t] = "idle" THEN Nothing ELSE saving[t]

Crash ==
    /\ running
    /\ Ends
    /\ kept' = Without(Without(kept, InFlight("server")), InFlight("reader"))
    /\ excused' = excused \cup (IF \E t \in Threads : Writing(t) THEN {"crash"} ELSE {})
    /\ UNCHANGED <<file, refused, saves>>

(***************************************************************************)
(* SaveSetting() and WriteToFile()                                         *)
(***************************************************************************)
SaveSetting(t) ==
    /\ running /\ ~Starting /\ saves < MaxSaves /\ saves' = saves + 1
    /\ Goes(t, "idle", "open")
    /\ \E c \in IF t = "server" THEN Containers ELSE {"device"}, n \in SettingNames, v \in Values :
           /\ memory' = Insert(memory, c, n, v)
           /\ saving' = [saving EXCEPT ![t] = [container |-> c, name |-> n]]
    /\ UNCHANGED <<running, file, text, level, kept, refused, excused>>

\* Opening fails: the caller gets an error, which ends the program if that is main().
OpenFails(t) ==
    /\ pc[t] = "open"
    /\ IF Starting THEN Ends
       ELSE /\ pc' = [pc EXCEPT ![t] = "idle"] /\ saving' = [saving EXCEPT ![t] = Nothing]
            /\ UNCHANGED <<running, memory, level, text>>
    /\ excused' = excused \cup {"fails"}
    /\ UNCHANGED <<file, kept, refused, saves>>

Opens(t) ==
    /\ Goes(t, "open", "print")
    /\ file' = Text(Empty)
    /\ excused' = IF \E u \in Threads \ {t} : Writing(u) THEN excused \cup {"overlap"} ELSE excused
    /\ UNCHANGED <<running, memory, saving, text, level, kept, refused, saves>>

Prints(t) ==
    /\ Goes(t, "print", "close")
    /\ text' = [text EXCEPT ![t] = memory]
    /\ UNCHANGED <<running, memory, file, saving, level, kept, refused, saves, excused>>

\* The other thread's text may be longer, and its end remain behind this one's.
Closes(t) ==
    /\ Goes(t, "close", "fire")
    /\ file' \in {Text(text[t])} \cup (IF file.table \in {Empty, text[t]} THEN {} ELSE {Torn})
    /\ text' = [text EXCEPT ![t] = Empty]
    /\ UNCHANGED <<running, memory, saving, level, kept, refused, saves, excused>>

CloseLoses(t) ==                       \* the disk is full, and the stream's destructor silent
    /\ Goes(t, "close", "fire")
    /\ excused' = excused \cup {"full"}
    /\ text' = [text EXCEPT ![t] = Empty]
    /\ UNCHANGED <<running, memory, file, saving, level, kept, refused, saves>>

\* GetSettings(), which makes the container it is asked for, in memory only.
GetSettings(c) ==
    /\ running /\ pc["server"] = "idle" /\ ~IsTable(memory, c)
    /\ memory' = With(memory, c, Empty)
    /\ UNCHANGED <<running, file, threadVars, level, kept, refused, saves, excused>>

\* StartListeningLogSettings(): the level at the start and with every notification.
LevelOf(table, otherwise) ==
    IF Holds(table, Program, "logLevel") /\ table[Program]["logLevel"] \in ValidLevels
    THEN table[Program]["logLevel"] ELSE otherwise

FireEvent(t) ==
    /\ Goes(t, "fire", "idle")
    /\ LET s == saving[t]
           isLevel == s = [container |-> Program, name |-> "logLevel"] IN
       /\ kept' = IF s = Nothing THEN kept
                  ELSE Insert(kept, s.container, s.name, memory[s.container][s.name])
       /\ level' = IF s = Nothing \/ isLevel THEN LevelOf(memory, level) ELSE level
    /\ saving' = [saving EXCEPT ![t] = Nothing]
    /\ UNCHANGED <<running, memory, file, text, refused, saves, excused>>

Next ==
    \/ LoadFromFile \/ Crash
    \/ \E c \in Containers : GetSettings(c)
    \/ \E t \in Threads :
           \/ SaveSetting(t) \/ OpenFails(t) \/ Opens(t) \/ Prints(t)
           \/ Closes(t) \/ CloseLoses(t) \/ FireEvent(t)

Spec == Init /\ [][Next]_vars

(***************************************************************************)
(* Properties                                                              *)
(***************************************************************************)
Same(table, other) ==
    \A c \in DOMAIN table : \A n \in DOMAIN Container(table, c) :
        Holds(other, c, n) /\ other[c][n] = table[c][n]

TypeOK ==
    /\ {running, refused} \subseteq BOOLEAN
    /\ DOMAIN memory \subseteq Containers /\ file.kind \in {"text", "missing", "torn"}
    /\ level \in ValidLevels \cup {"debug"}
    /\ excused \subseteq {"crash", "fails", "overlap", "full"}

\* A setting of the user's file, or one clients have been told of, is kept: it is in memory
\* and in the file, in this run of the program and after every restart, whatever is saved
\* after it and wherever the program is killed; the defaults fill in what no file and no
\* client has set, and never replace it; the logger has the last valid level; and the
\* program can always be started again. Excused is what happens once the program is killed
\* between emptying the file and closing it, two threads write it at the same time, it
\* cannot be opened, or the disk is full.
SettingsKept ==
    excused = {} =>
        /\ ~refused /\ file.kind # "torn"
        /\ (running /\ pc = AllIdle) =>
               /\ Same(kept, memory) /\ Same(memory, file.table) /\ Same(file.table, memory)
               /\ \A n \in DOMAIN GetDefaults[Program] : Holds(memory, Program, n)
               /\ memory[Program]["logLevel"] \in ValidLevels
                      => level = memory[Program]["logLevel"]
=============================================================================
