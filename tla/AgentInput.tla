----------------------------- MODULE AgentInput -----------------------------
(***************************************************************************)
(* Typing into an agent that runs in a tmux pane.  Requests paste a message *)
(* and press Enter, again when the message seems stuck (send_to_session in  *)
(* terminal/session.py), type or paste without Enter, or interrupt the      *)
(* agent and give a command (api/routes/sessions.py, api/routes/brain.py);  *)
(* the start of an agent answers the trust prompt (terminal/manager.py);    *)
(* users type themselves.  All of them share the agent's one input line.    *)
(* An agent behind a daemon gets its input by RwsClient, which sends a      *)
(* command again when the connection was lost before the reply.             *)
(***************************************************************************)
EXTENDS Naturals, Sequences

CONSTANTS
  Senders,      \* requests; each has one text to bring
  MaxEnters     \* max_enter_retries

VARIABLES
  line,         \* the texts in the input line
  submitted,    \* the lines the agent was given
  sender,       \* what each request does next, and the Enters it pressed
  answer        \* what it told its caller

inputVars == <<line, submitted, sender, answer>>

NewSend == [at |-> "new", enters |-> 0]

InputInit ==
  /\ line = <<>> /\ submitted = <<>>
  /\ sender = [r \in Senders |-> NewSend]
  /\ answer = [r \in Senders |-> "none"]

Does(r, at) == sender' = [sender EXCEPT ![r].at = at]
AtStep(r, at) == sender[r].at = at
Replies(r, reply) ==
  /\ answer' = [answer EXCEPT ![r] = reply]
  /\ Does(r, "done")

\* An Enter on an empty line gives the agent nothing.
PressEnter ==
  /\ line' = <<>>
  /\ submitted' = IF line = <<>> THEN submitted ELSE Append(submitted, line)

-----------------------------------------------------------------------------
\* A tmux command that types the text.  tmux types it; or refuses with a return
\* code, having typed nothing, and the request goes on as `refused` says; or
\* does not answer within 10 s, the text typed or not, and the exception ends
\* the request.
Types(r, refused) ==
  /\ \/ /\ line' = Append(line, r)
        /\ \E then \in {"enter", "typed"} : Does(r, then)
        /\ UNCHANGED answer
     \/ UNCHANGED line /\ refused
     \/ line' \in {line, Append(line, r)} /\ Replies(r, "failed")
  /\ UNCHANGED submitted

\* paste_to_pane: a bracketed paste, a plain one after a refusal.
PasteText(r) ==
  /\ AtStep(r, "new")
  /\ Types(r, UNCHANGED answer /\ \E then \in {"plain", "keys"} : Does(r, then))

\* /paste-to-pane ends with a refused plain paste.
PastePlain(r) ==
  /\ AtStep(r, "plain")
  /\ Types(r, \/ Does(r, "keys") /\ UNCHANGED answer
              \/ Replies(r, "failed"))

\* send_to_session sends the text as literal keys after a refused
\* paste_to_pane, /type does so at once.
TypeLiteral(r) ==
  /\ sender[r].at \in {"new", "keys"}
  /\ Types(r, Replies(r, "failed"))

\* /type and /paste-to-pane press no Enter.
TypedOnly(r) ==
  /\ AtStep(r, "typed")
  /\ Replies(r, "ok")
  /\ UNCHANGED <<line, submitted>>

\* Mutant: a retry pastes the message again.
SendEnterAgain(r) ==
  /\ AtStep(r, "enter")
  /\ PressEnter
  /\ sender' = [sender EXCEPT ![r] =
       [at |-> IF sender[r].enters = 0 THEN "verify" ELSE "new",
        enters |-> sender[r].enters + 1]]
  /\ UNCHANGED answer

SendEnter(r) ==
  /\ AtStep(r, "enter")
  /\ \/ /\ PressEnter
        /\ sender' = [sender EXCEPT ![r].at = "verify", ![r].enters = @ + 1]
        /\ UNCHANGED answer
     \/ /\ PressEnter \/ UNCHANGED <<line, submitted>>
        /\ Replies(r, "failed")

\* An agent that is busy with its screen swallows an Enter.
EnterSwallowed(r) ==
  /\ AtStep(r, "enter")
  /\ sender' = [sender EXCEPT ![r].at = "verify", ![r].enters = @ + 1]
  /\ UNCHANGED <<line, submitted, answer>>

\* _verify_message_sent looks at the last line of the pane: a long text left
\* in the line is seen; a short one may pass for sent, and output that looks
\* like a prompt with text may pass for a stuck message.
VerifySent(r) ==
  /\ AtStep(r, "verify")
  /\ \/ Replies(r, "ok")
     \/ /\ sender[r].enters < MaxEnters
        /\ Does(r, "enter")
        /\ UNCHANGED answer
     \/ /\ sender[r].enters = MaxEnters
        /\ Replies(r, "failed")
  /\ UNCHANGED <<line, submitted>>

-----------------------------------------------------------------------------
\* _interrupt_and_send_command and brain_command: Ctrl-C, Escape and Ctrl-U
\* empty the line, the command is typed, Enter is pressed; each key is a
\* step of its own, and none asks whether the one before was refused.
\* pause_session stops after the first two.
Interrupt(r) ==
  /\ AtStep(r, "new")
  /\ \E then \in {"command", "typed"} : Does(r, then)
  /\ line' \in {line, <<>>}
  /\ UNCHANGED <<submitted, answer>>

TypeCommand(r) ==
  /\ AtStep(r, "command")
  /\ line' \in {line, Append(line, r)}
  /\ \E then \in {"last enter", "typed"} : Does(r, then)
  /\ UNCHANGED <<submitted, answer>>

CommandEnter(r) ==
  /\ AtStep(r, "last enter")
  /\ PressEnter \/ UNCHANGED <<line, submitted>>
  /\ Replies(r, "ok")

\* dismiss_trust_prompt presses Enter at most once, when the prompt shows:
\* an agent that asks has no input line yet.
DismissTrust(r) ==
  /\ AtStep(r, "new") /\ line = <<>>
  /\ Replies(r, "ok")
  /\ UNCHANGED <<line, submitted>>

InputNext ==
  \E r \in Senders :
    \/ PasteText(r) \/ PastePlain(r) \/ TypeLiteral(r) \/ TypedOnly(r)
    \/ SendEnter(r) \/ EnterSwallowed(r) \/ VerifySent(r)
    \/ Interrupt(r) \/ TypeCommand(r) \/ CommandEnter(r) \/ DismissTrust(r)

InputSpec == InputInit /\ [][InputNext]_inputVars

-----------------------------------------------------------------------------
\* However often Enter is pressed for a message, and whoever presses it, the
\* agent is given each text at most once (terminal/session.py,
\* send_to_session retries the Enter; the text it brings again, by other
\* means, only after tmux refused it).
GivenAtMostOnce ==
  LET lines == Append(submitted, line)
  IN \A k, m \in DOMAIN lines :
       \A i \in DOMAIN lines[k], j \in DOMAIN lines[m] :
         lines[k][i] = lines[m][j] => k = m /\ i = j
=============================================================================
