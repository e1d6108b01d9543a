-------------------------------- MODULE UserData --------------------------------
(***************************************************************************)
(* The data a user leaves in the database, and who changes it at the same  *)
(* time: the chats of the user's connections (the database steps of        *)
(* agent_chat around the answer, which AgentChat models), the deletion of  *)
(* a session, the feedback form, and the pruner of inactive users' data.   *)
(* Every step is one database call with the code up to the next one.       *)
(***************************************************************************)
EXTENDS Naturals, FiniteSets

CONSTANTS
    User,
    Session,        \* session ids, chosen by the clients
    Chat,           \* the connections, each with at most one agent_chat at a time
    Owner,          \* the user of each connection and of each session id
    MaxSessions     \* MAX_AGENT_SESSIONS_PER_USER, which is 3

ASSUME DataAssumption ==
    /\ Owner \in [Chat \cup Session -> User]
    /\ IsFiniteSet(Chat)
    /\ MaxSessions \in Nat \ {0}

VARIABLES
    sessions,   \* SESSIONS: the number of documents with this id, all of its owner
    memories,   \* MEMORIES: [session, missed]; missed is auxiliary
    users,      \* USERS: no record, or one with next_eligible_prompt_at_s past or future
    chat,       \* where each chat is, and the prompt state it has read
    form,       \* the users whose submit_feedback has read and will write
    deleting,   \* the sessions whose memories delete_agent_session has yet to delete
    pruner,     \* what the UserDataPruner has yet to delete in this round
    pruning,    \* the users whose data it deletes
    asked,      \* auxiliary: users asked for feedback, the delay not yet over
    lost        \* auxiliary: those of them whose prompt state a chat then overwrote
                \* although it had changed

vars == <<sessions, memories, users, chat, form, deleting, pruner, pruning, asked, lost>>

Record == {"gone", "due", "waiting"}
Place  == {"idle", "count", "insert", "input", "answer", "mark", "trigger", "prompt"}
Idle   == [pc |-> "idle", session |-> {}, again |-> FALSE, missed |-> FALSE, seen |-> "none"]

TypeOK ==
    /\ sessions \in [Session -> Nat]
    /\ memories \subseteq [session : Session, missed : BOOLEAN]
    /\ users \in [User -> Record]
    /\ chat \in [Chat -> [pc : Place, session : SUBSET Session, again : BOOLEAN,
                          missed : BOOLEAN, seen : Record \cup {"none"}]]
    /\ \A c \in Chat : \A s, t \in chat[c].session : s = t
    /\ form \subseteq User
    /\ deleting \subseteq Session
    /\ pruner \subseteq {"sessions", "memories", "users"}
    /\ pruning \subseteq User
    /\ asked \subseteq User
    /\ lost \subseteq asked

\* create_anonymous_user has been called for every user.
Init ==
    /\ sessions = [s \in Session |-> 0]
    /\ memories = {}
    /\ users = [u \in User |-> "due"]
    /\ chat = [c \in Chat |-> Idle]
    /\ form = {}
    /\ deleting = {}
    /\ pruner = {}
    /\ pruning = {}
    /\ asked = {}
    /\ lost = {}

store == <<sessions, memories, users>>
forms == <<form, asked, lost>>
prune == <<deleting, pruner, pruning>>
-------------------------------------------------------------------------------
(***************************************************************************)
(* A chat: its session exists or is created, the input is remembered, the  *)
(* answer is streamed and remembered, and the user may be asked for        *)
(* feedback.  Any of its calls may fail and end it.  What it writes of     *)
(* when session and user were last active only the pruner reads.           *)
(***************************************************************************)
Documents(u) == UNION {{s} \X (1 .. sessions[s]) : s \in {t \in Session : Owner[t] = u}}

Go(c, pc) == chat' = [chat EXCEPT ![c].pc = pc]

\* Faulty variant: the chat before is not waited for.
StartFault(c, s) ==
    /\ Owner[s] = Owner[c]
    /\ chat' = [chat EXCEPT ![c].pc = IF sessions[s] = 0 THEN "count" ELSE "input",
                            ![c].session = @ \cup {s}]
    /\ UNCHANGED <<store, forms, prune>>

\* retrieve_agent_session
Start(c, s) ==
    /\ chat[c].pc = "idle"
    /\ Owner[s] = Owner[c]
    /\ chat' = [chat EXCEPT ![c] = [Idle EXCEPT
                    !.pc = IF sessions[s] = 0 THEN "count" ELSE "input",
                    !.session = {s}]]
    /\ UNCHANGED <<store, forms, prune>>

\* Faulty variant: the limit itself still lets a session in.
CountSessionsFault(c) ==
    /\ chat[c].pc = "count"
    /\ IF Cardinality(Documents(Owner[c])) > MaxSessions
       THEN chat' = [chat EXCEPT ![c] = Idle]
       ELSE Go(c, "insert")
    /\ UNCHANGED <<store, forms, prune>>

\* create_agent_session reads the user's sessions, and then inserts one more.
CountSessions(c) ==
    /\ chat[c].pc = "count"
    /\ IF Cardinality(Documents(Owner[c])) >= MaxSessions
       THEN chat' = [chat EXCEPT ![c] = Idle]
       ELSE Go(c, "insert")
    /\ UNCHANGED <<store, forms, prune>>

InsertSession(c) ==
    /\ chat[c].pc = "insert"
    /\ sessions' = [s \in Session |-> IF s \in chat[c].session
                        THEN sessions[s] + 1 ELSE sessions[s]]
    /\ chat' = [chat EXCEPT ![c].pc = IF chat[c].again THEN "answer" ELSE "input", ![c].again = FALSE]
    /\ UNCHANGED <<memories, users, forms, prune>>

\* The memories a chat inserts.
Memory(c) == {[session |-> s, missed |-> chat[c].missed] : s \in chat[c].session}

InsertInput(c) ==
    /\ chat[c].pc = "input"
    /\ memories' = memories \cup Memory(c)
    /\ Go(c, "answer")
    /\ UNCHANGED <<sessions, users, forms, prune>>

\* After a tool agent_chat calls itself, and looks for the session again.
Recurse(c) ==
    /\ chat[c].pc = "answer"
    /\ \A s \in chat[c].session : sessions[s] = 0
    /\ chat' = [chat EXCEPT ![c].pc = "count", ![c].again = TRUE]
    /\ UNCHANGED <<store, forms, prune>>

InsertAnswer(c) ==
    /\ chat[c].pc = "answer"
    /\ memories' = memories \cup Memory(c)
    /\ chat' = [chat EXCEPT ![c] = [Idle EXCEPT !.pc = "trigger"]]
    /\ UNCHANGED <<sessions, users, forms, prune>>

FailChat(c) ==
    /\ chat[c].pc # "idle"
    /\ chat' = [chat EXCEPT ![c] = Idle]
    /\ UNCHANGED <<store, forms, prune>>
-------------------------------------------------------------------------------
(***************************************************************************)
(* The feedback prompt.  Each of the three operations reads the user's     *)
(* prompt state in one call and writes the whole of it in a later one.     *)
(* The counts and lengths of the delays are left out: a user is due, or is *)
(* waiting for a delay that started with a prompt or a submission.         *)
(***************************************************************************)
\* A delay is over.
BecomeDue(u) ==
    /\ users[u] = "waiting"
    /\ users' = [users EXCEPT ![u] = "due"]
    /\ asked' = asked \ {u}
    /\ lost' = lost \ {u}
    /\ UNCHANGED <<sessions, memories, chat, form, prune>>

Read(c, pc) == chat' = [chat EXCEPT ![c].pc = pc, ![c].seen = users[Owner[c]]]

\* The update of a record that may be gone.
Put(u, state) == users' = [users EXCEPT ![u] = IF @ = "gone" THEN @ ELSE state]

\* Auxiliary: c writes, but what it has read has changed.
Stale(c) ==
    lost' = IF Owner[c] \in asked /\ users[Owner[c]] # chat[c].seen
            THEN lost \cup {Owner[c]} ELSE lost

\* Faulty variant: a user who is not due is made so.
ReadMarkFault(c) ==
    /\ chat[c].pc = "answer"
    /\ users[Owner[c]] # "gone"
    /\ Read(c, "mark")
    /\ UNCHANGED <<store, forms, prune>>

\* mark_user_for_feedback_prompt, after a corpus lookup
ReadMark(c) ==
    /\ chat[c].pc = "answer"
    /\ users[Owner[c]] = "due"
    /\ Read(c, "mark")
    /\ UNCHANGED <<store, forms, prune>>

WriteMark(c) ==
    LET u == Owner[c]
    IN  /\ chat[c].pc = "mark"
        /\ Put(u, "due")
        /\ Stale(c)
        /\ chat' = [chat EXCEPT ![c].pc = "answer", ![c].seen = "none"]
        /\ UNCHANGED <<sessions, memories, form, asked, prune>>

\* trigger_feedback_prompt
ReadPrompt(c) ==
    /\ chat[c].pc = "trigger"
    /\ \/ users[Owner[c]] = "due" /\ Read(c, "prompt")
       \/ users[Owner[c]] # "due" /\ chat' = [chat EXCEPT ![c] = Idle]
    /\ UNCHANGED <<store, forms, prune>>

\* The state is written, and the client is asked for feedback.
WritePrompt(c) ==
    LET u == Owner[c]
    IN  /\ chat[c].pc = "prompt"
        /\ Put(u, "waiting")
        /\ Stale(c)
        /\ asked' = asked \cup {u}
        /\ chat' = [chat EXCEPT ![c] = Idle]
        /\ UNCHANGED <<sessions, memories, form, prune>>

\* submit_feedback: the user is read, the feedback inserted, the state written.
ReadForm(u) ==
    /\ u \notin form
    /\ users[u] # "gone"
    /\ form' = form \cup {u}
    /\ UNCHANGED <<store, chat, asked, lost, prune>>

WriteForm(u) ==
    /\ u \in form
    /\ form' = form \ {u}
    /\ Put(u, "waiting")
    /\ UNCHANGED <<sessions, memories, chat, asked, lost, prune>>
-------------------------------------------------------------------------------
(***************************************************************************)
(* Deletions.  Auxiliary: what they leave behind is marked as missed, that *)
(* is the memories of a call that fails, and those that a chat which runs  *)
(* while its session is deleted inserts later.                             *)
(***************************************************************************)
Writing == {"input", "answer", "mark"}

MissChats(S) ==
    chat' = [c \in Chat |-> IF chat[c].pc \in Writing /\ chat[c].session \subseteq S
                            THEN [chat[c] EXCEPT !.missed = TRUE] ELSE chat[c]]

MissMemories(S) ==
    memories' = {IF m.session \in S THEN [m EXCEPT !.missed = TRUE] ELSE m : m \in memories}

DeleteMemories(S) == memories' = {m \in memories : m.session \notin S}

\* Faulty variant: the session alone is deleted.
DeleteSessionFault(s) ==
    /\ s \notin deleting
    /\ sessions[s] # 0
    /\ sessions' = [sessions EXCEPT ![s] = @ - 1]
    /\ MissChats({s})
    /\ UNCHANGED <<memories, users, forms, prune>>

\* delete_agent_session: delete_one, then delete_many, whatever there is.  Bound:
\* one such call at a time for a session id.
DeleteSession(s) ==
    /\ s \notin deleting
    /\ deleting' = deleting \cup {s}
    /\ sessions' = [sessions EXCEPT ![s] = IF @ = 0 THEN 0 ELSE @ - 1]
    /\ MissChats({s})
    /\ UNCHANGED <<memories, users, forms, pruner, pruning>>

DeleteSessionMemories(s) ==
    /\ s \in deleting
    /\ deleting' = deleting \ {s}
    /\ DeleteMemories({s}) \/ MissMemories({s})
    /\ UNCHANGED <<sessions, users, chat, forms, pruner, pruning>>

\* A round of the pruner begins with those it takes for inactive: by the time of
\* the latest request in the usage statistics or of the latest answer in the
\* record, one of which may be old while the user is here.  So it may be anyone.
FetchInactiveUsers ==
    /\ pruner = {}
    /\ pruning' \in (SUBSET User) \ {{}}
    /\ pruner' = {"sessions", "memories", "users"}
    /\ UNCHANGED <<store, chat, forms, deleting>>

Owned == {s \in Session : Owner[s] \in pruning}

\* The deletions run at the same time, each with its own error handling.
Finished(part) ==
    /\ pruner' = pruner \ {part}
    /\ pruning' = IF pruner' = {} THEN {} ELSE pruning

DeleteUserAgentSessions ==
    /\ "sessions" \in pruner
    /\ Finished("sessions")
    /\ \/ /\ sessions' = [s \in Session |-> IF s \in Owned THEN 0 ELSE sessions[s]]
          /\ MissChats(Owned)
          /\ IF "memories" \in pruner THEN UNCHANGED memories ELSE MissMemories(Owned)
       \/ UNCHANGED <<sessions, memories, chat>>
    /\ UNCHANGED <<users, forms, deleting>>

DeleteUserAgentMemories ==
    /\ "memories" \in pruner
    /\ Finished("memories")
    /\ DeleteMemories(Owned) \/ MissMemories(Owned)
    /\ UNCHANGED <<sessions, users, chat, forms, deleting>>

DeleteUserDataRecord ==
    /\ "users" \in pruner
    /\ Finished("users")
    /\ \/ /\ users' = [u \in User |-> IF u \in pruning THEN "gone" ELSE users[u]]
          /\ asked' = asked \ pruning
          /\ lost' = lost \ pruning
       \/ UNCHANGED <<users, asked, lost>>
    /\ UNCHANGED <<sessions, memories, chat, form, deleting>>

Next ==
    \/ \E u \in User : BecomeDue(u) \/ ReadForm(u) \/ WriteForm(u)
    \/ \E c \in Chat :
        \/ \E s \in Session : Start(c, s)
        \/ CountSessions(c) \/ InsertSession(c) \/ InsertInput(c) \/ Recurse(c)
        \/ InsertAnswer(c)
        \/ ReadMark(c) \/ WriteMark(c) \/ ReadPrompt(c) \/ WritePrompt(c)
        \/ FailChat(c)
    \/ \E s \in Session : DeleteSession(s) \/ DeleteSessionMemories(s)
    \/ FetchInactiveUsers
    \/ DeleteUserAgentSessions \/ DeleteUserAgentMemories \/ DeleteUserDataRecord

Spec == Init /\ [][Next]_vars
-------------------------------------------------------------------------------
ChatsOf(u) == {c \in Chat : Owner[c] = u}

(***************************************************************************)
(* The session limit is read in one call and relied on in a later one, so  *)
(* that concurrent chats exceed it - but never by more than all the user's *)
(* connections but one, however often sessions come and go.                *)
(***************************************************************************)
SessionsBounded ==
    \A u \in User :
        Cardinality(Documents(u)) < MaxSessions + Cardinality(ChatsOf(u))

(***************************************************************************)
(* No memory is left without its session once delete_agent_session or the  *)
(* pruner has finished with it, unless the deletion failed or a chat in    *)
(* this session was running when the session was deleted.                  *)
(***************************************************************************)
NoOrphans ==
    \A m \in memories :
        \/ sessions[m.session] # 0
        \/ m.missed
        \/ m.session \in deleting
        \/ m.session \in Owned /\ "memories" \in pruner

(***************************************************************************)
(* A user who has been asked for feedback is not asked again before the    *)
(* delay is over, whatever chats and submissions come between - unless the *)
(* prompt state was overwritten by someone who had read it before.         *)
(***************************************************************************)
PromptsSpaced ==
    [][\A c \in Chat : WritePrompt(c) /\ Owner[c] \in asked => Owner[c] \in lost']_vars
===============================================================================
