---------------------------- MODULE Conversation -----------------------------
(***************************************************************************)
(* What the agent and the model see of a session (src/session and its use   *)
(* in src/plugins/agent-react-loop/main.go): a conversation, a sequence of  *)
(* lines of which only a prompt at its head is ever rewritten, and a file   *)
(* that holds the conversation of the last save.  There are no events, no   *)
(* surface and no replay here: what is loaded is what was shown when the    *)
(* file was written, a record of modes is not a line, and what was said     *)
(* since the last save is lost with the process.                            *)
(*                                                                         *)
(* SessionLog implements this specification.                                *)
(***************************************************************************)
EXTENDS Naturals, Sequences

CONSTANTS Files, Objects

VARIABLES of,    \* the file an object belongs to
          shown, \* the conversation of each object
          saved  \* the conversation in each file

vars == <<of, shown, saved>>

Init == /\ of \in [Objects -> Files]
        /\ shown = [o \in Objects |-> <<>>]
        /\ saved = [f \in Files |-> <<>>]

-----------------------------------------------------------------------------
\* d is the conversation c and one line more, at the end.
Longer(c, d) == Len(d) = Len(c) + 1 /\ \A i \in 1..Len(c) : d[i] = c[i]

\* d is c and a message of the user or of the model.
Answered(c, d) == Longer(c, d) /\ d[Len(d)].type # "system"

HasPrompt(c) == c # <<>> /\ c[1].type = "system"

\* d is c with another line at its head.
HeadRewritten(c, d) == Len(d) = Len(c) /\ \A i \in 2..Len(c) : d[i] = c[i]

\* d is c with the prompt renewed, or given for the first time.
Prompted(c, d) == \/ HasPrompt(c) /\ HeadRewritten(c, d) /\ HasPrompt(d)
                  \/ ~ HasPrompt(c) /\ Longer(c, d) /\ d[Len(d)].type = "system"

-----------------------------------------------------------------------------
\* Only the conversation of o changes, if any.
Others(o) == \A q \in Objects \ {o} : shown'[q] = shown[q]

Say(o) == /\ UNCHANGED of
          /\ Answered(shown[o], shown'[o])
          /\ Others(o)
          /\ UNCHANGED saved

Prompt(o) == /\ UNCHANGED of
             /\ Prompted(shown[o], shown'[o])
             /\ Others(o)
             /\ UNCHANGED saved

\* A file is loaded; a run that begins with it renews the prompt at once.
Open(o, f) == /\ of' = [of EXCEPT ![o] = f]
              /\ Others(o)
              /\ shown'[o] = saved[f] \/ Prompted(saved[f], shown'[o])
              /\ UNCHANGED saved

Save(o) == UNCHANGED <<of, shown>> /\ saved' = [saved EXCEPT ![of[o]] = shown[o]]

Crash == shown' = [o \in Objects |-> <<>>] /\ UNCHANGED <<of, saved>>

Next == \/ \E o \in Objects : Say(o) \/ Prompt(o) \/ Save(o) \/ \E f \in Files : Open(o, f)
        \/ Crash

Spec == Init /\ [][Next]_vars
=============================================================================
