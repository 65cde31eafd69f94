----------------------------- MODULE SessionLog -----------------------------
(***************************************************************************)
(* The event log of a session (src/session: session.go, persist.go,        *)
(* store.go) and the agent that writes to it (runLoop, SwitchSession,      *)
(* SetPlanMode, InjectMessage in src/plugins/agent-react-loop/main.go).    *)
(*                                                                         *)
(* A Session in memory is an object with its log and its surface, the      *)
(* indices of the events the model is shown, in order.  Events are counted *)
(* from 1.  The agent's current session and the one its run writes to are  *)
(* the same object unless the session is switched while a run goes on.     *)
(*                                                                         *)
(* Simplifications.  A turn/start and the user message that opens the turn *)
(* are one event ("turn"); an "answer" is an assistant message or the      *)
(* result of a tool with the advice of the guards on it.  Of the events    *)
(* that are not shown, only those of modes and audits are kept ("note"):   *)
(* the bounds of steps, the calls of tools, the pieces of a stream and the *)
(* ends of turns are left out.  A prompt is never empty.  The only         *)
(* replacement the code asks for covers one event, the prompt.  One run at *)
(* a time.  Save is one step: the session's lock is held, and the file     *)
(* changes when the temporary one is renamed.                              *)
(*                                                                         *)
(* A file is the sequence of its events: that a line of JSON gives back    *)
(* the event it was written from is not examined.  Load refuses a file     *)
(* with a line that is too long, an unknown type or a gap in the numbers;  *)
(* the session is then not opened and nothing changes, so no action stands *)
(* for it, and Save writes no such file short of a line that is too long.  *)
(***************************************************************************)
EXTENDS Integers, Sequences

CONSTANTS Files,    \* session ids, each with its file
          Project,  \* the project's own session
          Objects,  \* identities of Sessions in memory
          None,
          Prompts,  \* renderings of the system prompt
          Limits,   \* history limits: negative none, 0 all, N the last N
          MaxLog,   \* bound: events in a log
          MaxOutside \* bound: steps the run has no part in, failed saves

ASSUME SessionAssumption ==
  /\ Project \in Files
  /\ None \notin Objects
  /\ Prompts \subseteq Nat
  /\ Limits \subseteq Int
  /\ {MaxLog, MaxOutside} \subseteq Nat

VARIABLES file, log, surface,
          restored,  \* restoredThrough: how much of the log was loaded
          current,   \* the agent's session
          held,      \* the session its run writes to
          at,        \* where the run is
          turnNo,    \* its turn
          turnCounter, sysPrompt, needsUpdate,
          rendering, \* what buildSystemPrompt gives now
          disk,      \* the files
          strayed,   \* history: files switched to while a run went on
          outside    \* history: how many steps the run had no part in

heap == <<file, log, surface, restored>>
agent == <<current, turnCounter, sysPrompt, needsUpdate>>
run == <<held, at, turnNo>>
vars == <<heap, agent, run, rendering, disk, strayed, outside>>

Types == {"system", "turn", "user", "answer", "note"}
Event == [type : Types, val : Nat, op : {"none", "append", "replace"}, over : Nat]

\* Logs, surfaces, files and the agent's fields stay within their types.
SessionTypeOK ==
  /\ file \in [Objects -> Files]
  /\ log \in [Objects -> Seq(Event)]
  /\ \A o \in Objects : \A i \in DOMAIN surface[o] : surface[o][i] \in DOMAIN log[o]
  /\ \A o \in Objects : restored[o] \in 0..Len(log[o])
  /\ current \in Objects \cup {None}
  /\ held \in Objects \cup {None}
  /\ at \in {"idle", "opening", "loop", "asking", "answered", "decided",
            "calling", "returned"}
  /\ {turnNo, turnCounter} \subseteq Nat
  /\ sysPrompt \in Prompts \cup {0}
  /\ rendering \in Prompts
  /\ needsUpdate \in BOOLEAN
  /\ disk \in [Files -> Seq(Event)]
  /\ strayed \in SUBSET Files
  /\ outside \in 0..MaxOutside

Init ==
  /\ file = [o \in Objects |-> Project]
  /\ log = [o \in Objects |-> <<>>]
  /\ surface = [o \in Objects |-> <<>>]
  /\ restored = [o \in Objects |-> 0]
  /\ current = None
  /\ held = None
  /\ at = "idle"
  /\ turnNo = 0
  /\ turnCounter = 0
  /\ sysPrompt = 0
  /\ needsUpdate = FALSE
  /\ rendering \in Prompts
  /\ disk = [f \in Files |-> <<>>]
  /\ strayed = {}
  /\ outside = 0

-----------------------------------------------------------------------------
\* Events and the surface.

Message(type, val) == [type |-> type, val |-> val, op |-> "append", over |-> 0]
LogOnly(type, val) == [type |-> type, val |-> val, op |-> "none", over |-> 0]

\* A bug: a replacement goes to the end, as every other event.
AppliedAtEnd(s, i, ev) ==
  IF ev.op = "none" THEN s
  ELSE Append(SelectSeq(s, LAMBDA j : ev.op = "append" \/ j # ev.over), i)

\* applySurfaceLocked: event i, ev, joins the surface s; a replacement takes
\* the place of what it covers.
Applied(s, i, ev) ==
  IF ev.op = "none" THEN s
  ELSE IF ev.op = "append" \/ \A j \in DOMAIN s : s[j] # ev.over THEN Append(s, i)
  ELSE [j \in DOMAIN s |-> IF s[j] = ev.over THEN i ELSE s[j]]

\* A bug: what is read back is appended, the replacements too.
RebuiltInOrder(es) ==
  SelectSeq([i \in 1..Len(es) |-> i], LAMBDA i : es[i].op # "none")

\* The surface of a log that is read back, event by event.
Rebuilt(es) ==
  LET upTo[n \in 0..Len(es)] ==
        IF n = 0 THEN <<>> ELSE Applied(upTo[n - 1], n, es[n])
  IN  upTo[Len(es)]

\* A bug: only the end of the log is looked at.
LastTurnAtEnd(es) ==
  IF es # <<>> /\ es[Len(es)].type = "turn" THEN es[Len(es)].val ELSE 0

\* The number a loaded session goes on from.
LastTurn(es) ==
  LET turns == {es[i].val : i \in {j \in DOMAIN es : es[j].type = "turn"}}
  IN  CHOOSE m \in turns \cup {0} : \A t \in turns : t <= m

\* Append to the session o, which takes part in the step with log es and
\* surface s (they differ from log[o] and surface[o] when o was just loaded).
Put(o, es, s, ev) ==
  /\ Len(es) < MaxLog
  /\ log' = [log EXCEPT ![o] = Append(es, ev)]
  /\ surface' = [surface EXCEPT ![o] = Applied(s, Len(es) + 1, ev)]

AppendEvent(o, ev) == Put(o, log[o], surface[o], ev)

\* ProjectSystemPrompt and the Append of commitSystemPrompt: nothing when the
\* head of the surface is that prompt already.
CommitPrompt(o, es, s) ==
  LET head == IF s = <<>> THEN 0 ELSE s[1]
      isPrompt == head # 0 /\ es[head].type = "system" IN
  IF isPrompt /\ es[head].val = rendering
  THEN /\ log' = [log EXCEPT ![o] = es]
       /\ surface' = [surface EXCEPT ![o] = s]
  ELSE Put(o, es, s, [type |-> "system", val |-> rendering, over |-> head,
                      op |-> IF isPrompt THEN "replace" ELSE "append"])

-----------------------------------------------------------------------------
\* Sessions in memory.

Outside == outside < MaxOutside /\ outside' = outside + 1

\* Tools, plugins and modes change, and the prompt with them.
Rerender ==
  /\ Outside
  /\ rendering' \in Prompts \ {rendering}
  /\ UNCHANGED <<heap, agent, run, disk, strayed>>

\* The object of a session the agent is about to leave is used again.
Free(o) == o # held

\* A bug: the first event of this process counts as restored.
EnsureOneMore(o, f) ==
  /\ Free(o)
  /\ file' = [file EXCEPT ![o] = f]
  /\ restored' = [restored EXCEPT ![o] = Len(disk[f]) + 1]
  /\ current' = o

\* Store.Ensure: what the file holds is history, the rest is this process's.
Ensure(o, f) ==
  /\ Free(o)
  /\ file' = [file EXCEPT ![o] = f]
  /\ restored' = [restored EXCEPT ![o] = Len(disk[f])]
  /\ current' = o

\* SwitchSession.  The comment leaves it to the caller that no run goes on;
\* the terminal's /session does not see to it.
Switch(f) ==
  /\ \E o \in Objects : Free(o)
  /\ LET o == CHOOSE q \in Objects : Free(q) IN
     /\ Ensure(o, f)
     /\ log' = [log EXCEPT ![o] = disk[f]]
     /\ surface' = [surface EXCEPT ![o] = Rebuilt(disk[f])]
  /\ turnCounter' = LastTurn(disk[f])
  /\ needsUpdate' = TRUE
  /\ strayed' = IF at = "idle" THEN strayed ELSE strayed \cup {f}
  /\ Outside
  /\ UNCHANGED <<sysPrompt, run, rendering, disk>>

\* SetPlanMode, SetHistoryInjection, an audit event: appended and saved; when
\* the save fails the event stays in memory.
SetMode ==
  /\ current # None
  /\ AppendEvent(current, LogOnly("note", 0))
  /\ disk' \in {disk, [disk EXCEPT ![file[current]] = log'[current]]}
  /\ needsUpdate' \in {needsUpdate, TRUE}
  /\ Outside
  /\ UNCHANGED <<file, restored, current, turnCounter, sysPrompt, run,
                 rendering, strayed>>

InjectMessage ==
  /\ current # None /\ at # "idle"
  /\ AppendEvent(current, Message("user", 0))
  /\ Outside
  /\ UNCHANGED <<file, restored, agent, run, rendering, disk, strayed>>

-----------------------------------------------------------------------------
\* A run.

\* The prologue of a run without a session: the project's is loaded.
BeginRestored ==
  /\ at = "idle" /\ current = None
  /\ \E o \in Objects : Free(o)
  /\ LET o == CHOOSE q \in Objects : Free(q)
         es == disk[Project] IN
     /\ Ensure(o, Project)
     /\ CommitPrompt(o, es, Rebuilt(es))
     /\ turnCounter' = LastTurn(es) + 1
     /\ turnNo' = LastTurn(es) + 1
     /\ held' = o
  /\ at' = "opening"
  /\ sysPrompt' = rendering
  /\ UNCHANGED <<needsUpdate, rendering, disk, strayed, outside>>

\* With one, the prompt is committed when tools or modes have changed.
Begin ==
  /\ at = "idle" /\ current # None
  /\ \/ /\ CommitPrompt(current, log[current], surface[current])
        /\ sysPrompt' = rendering
        /\ needsUpdate' = FALSE
     \/ /\ ~needsUpdate
        /\ UNCHANGED <<log, surface, sysPrompt, needsUpdate>>
  /\ turnCounter' = turnCounter + 1
  /\ turnNo' = turnCounter + 1
  /\ held' = current
  /\ at' = "opening"
  /\ UNCHANGED <<file, restored, current, rendering, disk, strayed, outside>>

RunAppends(from, to, ev) ==
  /\ at = from
  /\ AppendEvent(held, ev)
  /\ at' = to
  /\ UNCHANGED <<file, restored, held, turnNo, agent, rendering, disk,
                 strayed, outside>>

OpenTurn == RunAppends("opening", "loop", Message("turn", turnNo))

\* Each request is preceded by a commit of the prompt, to the agent's session.
Request ==
  /\ at = "loop"
  /\ CommitPrompt(current, log[current], surface[current])
  /\ sysPrompt' = rendering
  /\ at' = "asking"
  /\ UNCHANGED <<file, restored, current, turnCounter, needsUpdate, held,
                 turnNo, rendering, disk, strayed, outside>>

\* The assistant's message, with the tools it calls.
Answer == RunAppends("asking", "answered", Message("answer", 0))

\* No tool was called, and the run goes on: for a message that was injected
\* meanwhile, or with one of its own (the goal, a truncated answer, open todos).
GoOn ==
  \/ RunAppends("decided", "loop", Message("user", 0))
  \/ /\ at = "decided"
     /\ at' = "loop"
     /\ UNCHANGED <<heap, held, turnNo, agent, rendering, disk, strayed, outside>>

\* What a tool gives back, its error or the advice of the guards included.
ToolResult == RunAppends("calling", "returned", Message("answer", 0))

\* The run's own saves, the last when it ends, in whatever way; an error is
\* logged and the run goes on.
Save(from, to) ==
  /\ at = from
  /\ \/ disk' = [disk EXCEPT ![file[held]] = log[held]] /\ UNCHANGED outside
     \/ Outside /\ UNCHANGED disk
  /\ at' = to
  /\ held' = IF to = "idle" THEN None ELSE held
  /\ turnNo' = IF to = "idle" THEN 0 ELSE turnNo
  /\ UNCHANGED <<heap, agent, rendering, strayed>>

\* After the answer, before each tool, after the last one, at the end.
SaveAnswer == Save("answered", "decided")
SaveCall == \E p \in {"decided", "returned"} : Save(p, "calling")
SaveStep == Save("returned", "loop")
SaveRun == \E p \in {"loop", "asking", "decided", "returned"} : Save(p, "idle")

\* A bug: the file is written in place, and the process ends in between.
CrashInSave ==
  /\ current # None
  /\ current' = None
  /\ held' = None
  /\ at' = "idle"
  /\ log' = [o \in Objects |-> <<>>]
  /\ surface' = [o \in Objects |-> <<>>]
  /\ restored' = [o \in Objects |-> 0]
  /\ turnNo' = 0
  /\ turnCounter' = 0
  /\ sysPrompt' = 0
  /\ needsUpdate' = FALSE
  /\ disk' = [disk EXCEPT ![file[current]] = <<>>]
  /\ Outside
  /\ UNCHANGED <<file, rendering, strayed>>

\* The process ends at any point, also in the middle of a save: what was
\* written so far is in the temporary file, which is not read.
Crash ==
  /\ current # None
  /\ current' = None
  /\ held' = None
  /\ at' = "idle"
  /\ log' = [o \in Objects |-> <<>>]
  /\ surface' = [o \in Objects |-> <<>>]
  /\ restored' = [o \in Objects |-> 0]
  /\ turnNo' = 0
  /\ turnCounter' = 0
  /\ sysPrompt' = 0
  /\ needsUpdate' = FALSE
  /\ Outside
  /\ UNCHANGED <<file, rendering, disk, strayed>>

Next ==
  \/ \E f \in Files : Switch(f)
  \/ SetMode \/ InjectMessage \/ Rerender
  \/ BeginRestored \/ Begin \/ OpenTurn \/ Request \/ Answer \/ GoOn
  \/ ToolResult \/ SaveAnswer \/ SaveCall \/ SaveStep \/ SaveRun
  \/ Crash

Spec == Init /\ [][Next]_vars

-----------------------------------------------------------------------------
\* DeriveMessagesLimited: the positions of the surface a request shows.

\* A bug: everything before the first new event counts as restored.
BoundaryBeforeNew(o) ==
  LET s == surface[o]
      new == {i \in DOMAIN s : s[i] > restored[o]}
  IN  IF new = {} THEN Len(s) ELSE (CHOOSE i \in new : \A j \in new : i <= j) - 1

\* Up to the last place that holds a loaded event.
RestoredBoundary(o) ==
  LET old == {i \in DOMAIN surface[o] : surface[o][i] <= restored[o]}
  IN  CHOOSE b \in old \cup {0} : \A i \in old : i <= b

\* Back to a message of the user, unless nothing follows.
FromUser(o, start) ==
  LET s == surface[o]
      ok == {j \in 0..start : j = 0 \/ j = Len(s) \/ log[o][s[j + 1]].type \in {"turn", "user"}}
  IN  CHOOSE j \in ok : \A i \in ok : i <= j

Shown(o, limit) ==
  LET b == RestoredBoundary(o)
      start == IF limit < 0 THEN b ELSE IF limit > 0 /\ b > limit THEN b - limit ELSE 0
  IN  {i \in DOMAIN surface[o] :
         i > FromUser(o, start) \/ (i = 1 /\ log[o][surface[o][1]].type = "system")}

-----------------------------------------------------------------------------
\* Properties.  A session to which the agent was switched while a run went on
\* is out of their reach: two objects may then write to one file.

Live(o) == o \in {current, held} \ {None} /\ file[o] \notin strayed

\* The surface is the latest system prompt, in the first place, and then every
\* message in the order of the log, however often the prompt was replaced and
\* the log loaded; and a request is made with the prompt of its step.
HeadIsPrompt ==
  \A o \in Objects : Live(o) =>
    LET s == surface[o]
        kinds(T) == {i \in DOMAIN log[o] : log[o][i].type \in T} IN
    /\ \A i \in DOMAIN s : (i = 1) <=> (log[o][s[i]].type = "system")
    /\ s # <<>> => \A i \in kinds({"system"}) : i <= s[1]
    /\ \A i \in 2..Len(s) - 1 : s[i] < s[i + 1]
    /\ {s[i] : i \in 2..Len(s)} = kinds({"turn", "user", "answer"})
    /\ at = "asking" /\ o = held /\ o = current => log[o][s[1]].val = sysPrompt

\* A file never loses an event: what a save has written is there after every
\* later save, crash and restart.
FileOnlyGrows ==
  [][\A f \in Files \ strayed' :
       /\ Len(disk[f]) <= Len(disk'[f])
       /\ SubSeq(disk'[f], 1, Len(disk[f])) = disk[f]]_vars

\* Turns are numbered upwards in every log, across restarts and switches.
TurnNumbersIncrease ==
  \A o \in Objects : Live(o) =>
    \A i, j \in DOMAIN log[o] :
      i < j /\ log[o][i].type = "turn" /\ log[o][j].type = "turn"
        => log[o][i].val < log[o][j].val

\* Whatever the limit, a request shows all of this process's messages and begins
\* with a message of the user; a negative limit shows no restored message.
LimitHolds ==
  at = "asking" /\ Live(held) =>
    \A limit \in Limits :
      LET s == surface[held]
          shown == Shown(held, limit) \ {1}
          new == {i \in 2..Len(s) : s[i] > restored[held]} IN
      /\ new \subseteq shown
      /\ \E i \in shown : /\ \A j \in shown : i <= j
                          /\ log[held][s[i]].type \in {"turn", "user"}
      /\ limit < 0 => shown = new

-----------------------------------------------------------------------------
\* DeriveMessages: the lines that each surface of a log gives.
Line(ev) == [type |-> ev.type, val |-> ev.val]
View(es) == [s \in Seq(DOMAIN es) |-> [i \in DOMAIN s |-> Line(es[s[i]])]]

Talk == INSTANCE Conversation WITH
          of <- file,
          shown <- [o \in Objects |-> View(log[o])[surface[o]]],
          saved <- [f \in Files |-> View(disk[f])[Rebuilt(disk[f])]]

\* Events, surface and replay are not seen: a session is a conversation whose
\* prompt alone is rewritten, in its place, and what is read back from a file is
\* what was shown when it was saved, also when the session is switched in a run.
ImplementsConversation == Talk!Spec
=============================================================================
