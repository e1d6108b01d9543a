------------------------------ MODULE Agent_proofs ------------------------------
(***************************************************************************)
(* Proofs about the agent.  First its sessions, memories and prompts       *)
(* (UserData), for any users, sessions, connections and limit: each of the *)
(* claims about them relates a read in one database call to a write in a   *)
(* later one, and the invariants say what is still true of the read when   *)
(* the write comes.  Then its answers (AgentChat): what the client is      *)
(* shown and what is remembered, for any text, any deltas and any limits.  *)
(***************************************************************************)
EXTENDS UserData, AgentChat, FiniteSetTheorems, SequenceTheorems, WellFoundedInduction, TLAPS

\* A chat only works on one session, one of its owner's.
OwnSession ==
    \A c \in Chat : \A s \in chat[c].session : s \in Session /\ Owner[s] = Owner[c]

\* What a chat has read of the prompt state when it writes: that the user was due.
SeenDue == \A c \in Chat : chat[c].pc \in {"mark", "prompt"} => chat[c].seen = "due"

ChatType == [pc : Place, session : SUBSET Session, again : BOOLEAN,
             missed : BOOLEAN, seen : Record \cup {"none"}]

\* TypeOK with the chats' own facts.
Sound == TypeOK /\ OwnSession /\ SeenDue

\* Initially no chat runs, so that there is nothing to own or to have seen.
LEMMA SoundInit == Init => Sound
<1> SUFFICES ASSUME Init PROVE Sound
  OBVIOUS
<1>1. TypeOK
  BY DEF Init, TypeOK, Idle, Place, Record
<1>2. OwnSession /\ SeenDue
  BY DEF Init, OwnSession, SeenDue, Idle
<1> QED
  BY <1>1, <1>2 DEF Sound

\* What is sound of one chat: the part of Sound that a step of this chat can disturb.
SoundChat(c, r) ==
    /\ r \in ChatType
    /\ \A s, t \in r.session : s = t
    /\ \A s \in r.session : Owner[s] = Owner[c]
    /\ r.pc \in {"mark", "prompt"} => r.seen = "due"

ChatsSound(f) == f \in [Chat -> ChatType] /\ \A c \in Chat : SoundChat(c, f[c])

\* Sound, chat by chat.
SoundParts ==
    /\ sessions \in [Session -> Nat]
    /\ memories \subseteq [session : Session, missed : BOOLEAN]
    /\ users \in [User -> Record]
    /\ ChatsSound(chat)
    /\ form \subseteq User
    /\ deleting \subseteq Session
    /\ pruner \subseteq {"sessions", "memories", "users"}
    /\ pruning \subseteq User
    /\ asked \subseteq User
    /\ lost \subseteq asked

LEMMA SoundIs == Sound <=> SoundParts
<1>1. ASSUME chat \in [Chat -> ChatType]
      PROVE  (\A c \in Chat : SoundChat(c, chat[c]))
                <=> /\ OwnSession /\ SeenDue
                    /\ \A c \in Chat : \A s, t \in chat[c].session : s = t
  <2>1. \A c \in Chat : chat[c] \in ChatType /\ chat[c].session \subseteq Session
    BY <1>1 DEF ChatType
  <2> QED
    BY <2>1 DEF OwnSession, SeenDue, SoundChat
<1> QED
  BY <1>1 DEF Sound, SoundParts, TypeOK, ChatType, ChatsSound

\* An idle chat is sound.
LEMMA IdleIsSound == ASSUME NEW c \in Chat PROVE SoundChat(c, Idle)
  BY DEF SoundChat, Idle, ChatType, Place, Record
\* A step of one chat to a sound record.
LEMMA ChatMoves ==
    ASSUME Sound, NEW c \in Chat, NEW r, SoundChat(c, r), chat' = [chat EXCEPT ![c] = r]
    PROVE  ChatsSound(chat')
  BY SoundIs DEF SoundParts, ChatsSound, SoundChat

\* What a chat has read, or has forgotten again, at each of its steps.
LEMMA RecordFacts ==
    ASSUME NEW c \in Chat, NEW r, SoundChat(c, r)
    PROVE  /\ \A pc \in Place \ {"mark", "prompt"} : SoundChat(c, [r EXCEPT !.pc = pc])
           /\ \A pc \in Place \ {"mark", "prompt"} :
                SoundChat(c, [r EXCEPT !.pc = pc, !.again = TRUE])
           /\ \A pc \in Place \ {"mark", "prompt"} :
                SoundChat(c, [r EXCEPT !.pc = pc, !.again = FALSE])
           /\ \A pc \in Place : SoundChat(c, [r EXCEPT !.pc = pc, !.seen = "due"])
           /\ SoundChat(c, [r EXCEPT !.pc = "answer", !.seen = "none"])
           /\ SoundChat(c, [r EXCEPT !.missed = TRUE])
<1>1. r \in ChatType
  BY DEF SoundChat
<1> QED
  BY <1>1 DEF SoundChat, ChatType, Record, Place

\* Started and triggered chats have nothing in hand but their session.
LEMMA FreshFacts ==
    ASSUME NEW c \in Chat
    PROVE  /\ \A pc \in {"count", "input"}, s \in Session :
                Owner[s] = Owner[c] => SoundChat(c, [Idle EXCEPT !.pc = pc, !.session = {s}])
           /\ SoundChat(c, [Idle EXCEPT !.pc = "trigger"])
  BY DEF SoundChat, ChatType, Record, Place, Idle

\* The deletions mark chats and memories, and leave the rest of them as it is.
LEMMA MissFacts ==
    ASSUME Sound, NEW S
    PROVE  /\ MissChats(S) => ChatsSound(chat')
           /\ MissMemories(S) => memories' \subseteq [session : Session, missed : BOOLEAN]
           /\ DeleteMemories(S) => memories' \subseteq [session : Session, missed : BOOLEAN]
<1>1. ASSUME MissChats(S)
      PROVE  ChatsSound(chat')
  <2>1. \A c \in Chat : SoundChat(c, chat[c]) /\ SoundChat(c, [chat[c] EXCEPT !.missed = TRUE])
    BY RecordFacts, SoundIs DEF SoundParts, ChatsSound
  <2>2. \A c \in Chat : SoundChat(c, chat'[c])
    BY <1>1, <2>1 DEF MissChats
  <2>3. \A c \in Chat : chat'[c] \in ChatType
    BY <2>2 DEF SoundChat
  <2>4. chat' = [c \in Chat |-> chat'[c]]
    BY <1>1 DEF MissChats
  <2> QED
    BY <2>2, <2>3, <2>4 DEF ChatsSound
<1>2. memories \subseteq [session : Session, missed : BOOLEAN]
  BY SoundIs DEF SoundParts
<1>3. MissMemories(S) => memories' \subseteq [session : Session, missed : BOOLEAN]
  BY <1>2 DEF MissMemories
<1>4. DeleteMemories(S) => memories' \subseteq [session : Session, missed : BOOLEAN]
  BY <1>2 DEF DeleteMemories
<1> QED
  BY <1>1, <1>3, <1>4

\* A chat's memories are of its session.
LEMMA MemoryFacts ==
    ASSUME Sound, NEW c \in Chat
    PROVE  Memory(c) \subseteq [session : Session, missed : BOOLEAN]
<1>1. chat[c] \in ChatType
  BY SoundIs DEF SoundParts, ChatsSound
<1> QED
  BY <1>1 DEF Memory, ChatType

\* The type and the chats' own facts are kept by every step.
LEMMA SoundStep == Sound /\ [Next]_vars => Sound'
<1> SUFFICES ASSUME Sound, [Next]_vars PROVE SoundParts'
  BY SoundIs, PTL
<1> USE DEF store, forms, prune
<1>0. SoundParts
  BY SoundIs
<1>1. \A c \in Chat : SoundChat(c, chat[c])
  BY <1>0 DEF SoundParts, ChatsSound
<1>2. \A c \in Chat : Owner[c] \in User
  BY DataAssumption
<1>3. ASSUME NEW c \in Chat, NEW r, SoundChat(c, r), chat' = [chat EXCEPT ![c] = r],
             sessions' \in [Session -> Nat],
             memories' \subseteq [session : Session, missed : BOOLEAN],
             users' \in [User -> Record], asked' \subseteq User, lost' \subseteq asked',
             UNCHANGED <<form, prune>>
      PROVE  SoundParts'
  <2>1. ChatsSound(chat')
    BY <1>3, ChatMoves
  <2> QED
    BY <1>0, <1>3, <2>1 DEF SoundParts
<1>4. ASSUME NEW u \in User, BecomeDue(u)
      PROVE  SoundParts'
  BY <1>0, <1>4 DEF BecomeDue, SoundParts, Record
<1>5. ASSUME NEW u \in User, ReadForm(u)
      PROVE  SoundParts'
  BY <1>0, <1>5 DEF ReadForm, SoundParts
<1>6. ASSUME NEW u \in User, WriteForm(u)
      PROVE  SoundParts'
  BY <1>0, <1>6 DEF WriteForm, Put, SoundParts, Record
<1>7. ASSUME NEW c \in Chat, NEW s \in Session, Start(c, s)
      PROVE  SoundParts'
  <2> DEFINE pc == IF sessions[s] = 0 THEN "count" ELSE "input"
  <2>1. Owner[s] = Owner[c] /\ pc \in {"count", "input"}
    BY <1>7 DEF Start
  <2>2. SoundChat(c, [Idle EXCEPT !.pc = pc, !.session = {s}])
    <3> HIDE DEF pc
    <3> QED
      BY <2>1, FreshFacts
  <2>3. chat' = [chat EXCEPT ![c] = [Idle EXCEPT !.pc = pc, !.session = {s}]]
    BY <1>7 DEF Start
  <2> HIDE DEF pc
  <2> QED
    BY <1>0, <1>3, <1>7, <2>2, <2>3 DEF Start, SoundParts
<1>8. ASSUME NEW c \in Chat, CountSessions(c)
      PROVE  SoundParts'
  <2>1. SoundChat(c, Idle) /\ SoundChat(c, [chat[c] EXCEPT !.pc = "insert"])
    BY <1>1, IdleIsSound, RecordFacts DEF Place
  <2>2. \/ chat' = [chat EXCEPT ![c] = Idle]
        \/ chat' = [chat EXCEPT ![c] = [chat[c] EXCEPT !.pc = "insert"]]
    BY <1>8 DEF CountSessions, Go
  <2> QED
    BY <1>0, <1>3, <1>8, <2>1, <2>2 DEF CountSessions, SoundParts
<1>9. ASSUME NEW c \in Chat, InsertSession(c)
      PROVE  SoundParts'
  <2>1. /\ SoundChat(c, [chat[c] EXCEPT !.pc = "answer", !.again = FALSE])
        /\ SoundChat(c, [chat[c] EXCEPT !.pc = "input", !.again = FALSE])
    BY <1>1, RecordFacts DEF Place
  <2>2. \/ chat' = [chat EXCEPT ![c] = [chat[c] EXCEPT !.pc = "answer", !.again = FALSE]]
        \/ chat' = [chat EXCEPT ![c] = [chat[c] EXCEPT !.pc = "input", !.again = FALSE]]
    BY <1>9 DEF InsertSession
  <2>3. sessions' \in [Session -> Nat]
    BY <1>0, <1>9 DEF InsertSession, SoundParts
  <2> QED
    BY <1>0, <1>3, <1>9, <2>1, <2>2, <2>3 DEF InsertSession, SoundParts
<1>10. ASSUME NEW c \in Chat, InsertInput(c)
       PROVE  SoundParts'
  <2>1. SoundChat(c, [chat[c] EXCEPT !.pc = "answer"])
    BY <1>1, RecordFacts DEF Place
  <2>2. chat' = [chat EXCEPT ![c] = [chat[c] EXCEPT !.pc = "answer"]]
    BY <1>10 DEF InsertInput, Go
  <2>3. memories' \subseteq [session : Session, missed : BOOLEAN]
    BY <1>0, <1>10, MemoryFacts DEF InsertInput, SoundParts
  <2> QED
    BY <1>0, <1>3, <1>10, <2>1, <2>2, <2>3 DEF InsertInput, SoundParts
<1>11. ASSUME NEW c \in Chat, Recurse(c)
       PROVE  SoundParts'
  <2>1. SoundChat(c, [chat[c] EXCEPT !.pc = "count", !.again = TRUE])
    BY <1>1, RecordFacts DEF Place
  <2>2. chat' = [chat EXCEPT ![c] = [chat[c] EXCEPT !.pc = "count", !.again = TRUE]]
    BY <1>11 DEF Recurse
  <2> QED
    BY <1>0, <1>3, <1>11, <2>1, <2>2 DEF Recurse, SoundParts
<1>12. ASSUME NEW c \in Chat, InsertAnswer(c)
       PROVE  SoundParts'
  <2>1. SoundChat(c, [Idle EXCEPT !.pc = "trigger"])
    BY FreshFacts
  <2>2. memories' \subseteq [session : Session, missed : BOOLEAN]
    BY <1>0, <1>12, MemoryFacts DEF InsertAnswer, SoundParts
  <2> QED
    BY <1>0, <1>3, <1>12, <2>1, <2>2 DEF InsertAnswer, SoundParts
<1>13. ASSUME NEW c \in Chat, ReadMark(c)
       PROVE  SoundParts'
  <2>1. SoundChat(c, [chat[c] EXCEPT !.pc = "mark", !.seen = "due"])
    BY <1>1, RecordFacts DEF Place
  <2>2. chat' = [chat EXCEPT ![c] = [chat[c] EXCEPT !.pc = "mark", !.seen = "due"]]
    BY <1>13 DEF ReadMark, Read
  <2> QED
    BY <1>0, <1>3, <1>13, <2>1, <2>2 DEF ReadMark, SoundParts
<1>14. ASSUME NEW c \in Chat, WriteMark(c)
       PROVE  SoundParts'
  <2>1. SoundChat(c, [chat[c] EXCEPT !.pc = "answer", !.seen = "none"])
    BY <1>1, RecordFacts
  <2>2. chat' = [chat EXCEPT ![c] = [chat[c] EXCEPT !.pc = "answer", !.seen = "none"]]
    BY <1>14 DEF WriteMark
  <2>3. users' \in [User -> Record] /\ lost' \subseteq asked'
    BY <1>0, <1>14 DEF WriteMark, Put, Stale, SoundParts, Record
  <2> QED
    BY <1>0, <1>3, <1>14, <2>1, <2>2, <2>3 DEF WriteMark, SoundParts
<1>15. ASSUME NEW c \in Chat, ReadPrompt(c)
       PROVE  SoundParts'
  <2>1. SoundChat(c, Idle) /\ SoundChat(c, [chat[c] EXCEPT !.pc = "prompt", !.seen = "due"])
    BY <1>1, IdleIsSound, RecordFacts DEF Place
  <2>2. \/ chat' = [chat EXCEPT ![c] = Idle]
        \/ chat' = [chat EXCEPT ![c] = [chat[c] EXCEPT !.pc = "prompt", !.seen = "due"]]
    BY <1>15 DEF ReadPrompt, Read
  <2> QED
    BY <1>0, <1>3, <1>15, <2>1, <2>2 DEF ReadPrompt, SoundParts
<1>16. ASSUME NEW c \in Chat, WritePrompt(c)
       PROVE  SoundParts'
  <2>1. users' \in [User -> Record] /\ lost' \subseteq asked' /\ asked' \subseteq User
    BY <1>0, <1>2, <1>16 DEF WritePrompt, Put, Stale, SoundParts, Record
  <2> QED
    BY <1>0, <1>3, <1>16, <2>1, IdleIsSound DEF WritePrompt, SoundParts
<1>17. ASSUME NEW c \in Chat, FailChat(c)
       PROVE  SoundParts'
  BY <1>0, <1>3, <1>17, IdleIsSound DEF FailChat, SoundParts
<1>18. ASSUME NEW s \in Session, DeleteSession(s)
       PROVE  SoundParts'
  <2>1. ChatsSound(chat')
    BY <1>18, MissFacts DEF DeleteSession
  <2>2. sessions' \in [Session -> Nat]
    BY <1>0, <1>18 DEF DeleteSession, SoundParts
  <2> QED
    BY <1>0, <1>18, <2>1, <2>2 DEF DeleteSession, SoundParts
<1>19. ASSUME NEW s \in Session, DeleteSessionMemories(s)
       PROVE  SoundParts'
  <2>1. memories' \subseteq [session : Session, missed : BOOLEAN]
    BY <1>19, MissFacts DEF DeleteSessionMemories
  <2> QED
    BY <1>0, <1>19, <2>1 DEF DeleteSessionMemories, SoundParts
<1>20. ASSUME FetchInactiveUsers
       PROVE  SoundParts'
  BY <1>0, <1>20 DEF FetchInactiveUsers, SoundParts
<1>21. ASSUME DeleteUserAgentSessions
       PROVE  SoundParts'
  <2>1. ChatsSound(chat')
    BY <1>0, <1>21, MissFacts DEF DeleteUserAgentSessions, SoundParts
  <2>2. memories' \subseteq [session : Session, missed : BOOLEAN]
    BY <1>0, <1>21, MissFacts DEF DeleteUserAgentSessions, SoundParts
  <2>3. sessions' \in [Session -> Nat]
    BY <1>0, <1>21 DEF DeleteUserAgentSessions, SoundParts
  <2>4. pruning' \subseteq User /\ pruner' \subseteq {"sessions", "memories", "users"}
    BY <1>0, <1>21 DEF DeleteUserAgentSessions, Finished, SoundParts
  <2> QED
    BY <1>0, <1>21, <2>1, <2>2, <2>3, <2>4 DEF DeleteUserAgentSessions, SoundParts
<1>22. ASSUME DeleteUserAgentMemories
       PROVE  SoundParts'
  <2>1. memories' \subseteq [session : Session, missed : BOOLEAN]
    BY <1>0, <1>22, MissFacts DEF DeleteUserAgentMemories, SoundParts
  <2>2. pruning' \subseteq User /\ pruner' \subseteq {"sessions", "memories", "users"}
    BY <1>0, <1>22 DEF DeleteUserAgentMemories, Finished, SoundParts
  <2> QED
    BY <1>0, <1>22, <2>1, <2>2 DEF DeleteUserAgentMemories, SoundParts
<1>23. ASSUME DeleteUserDataRecord
       PROVE  SoundParts'
  <2>1. pruning' \subseteq User /\ pruner' \subseteq {"sessions", "memories", "users"}
    BY <1>0, <1>23 DEF DeleteUserDataRecord, Finished, SoundParts
  <2>2. users' \in [User -> Record] /\ asked' \subseteq User /\ lost' \subseteq asked'
    BY <1>0, <1>23 DEF DeleteUserDataRecord, SoundParts, Record
  <2> QED
    BY <1>0, <1>23, <2>1, <2>2 DEF DeleteUserDataRecord, SoundParts
<1>24. CASE UNCHANGED vars
  BY <1>0, <1>24 DEF vars, SoundParts
<1> QED
  BY <1>4, <1>5, <1>6, <1>7, <1>8, <1>9, <1>10, <1>11, <1>12, <1>13, <1>14, <1>15, <1>16,
     <1>17, <1>18, <1>19, <1>20, <1>21, <1>22, <1>23, <1>24 DEF Next

\* Type correctness of sessions, memories, prompt states and who works on them.
THEOREM TypeCorrect == Spec => []TypeOK
<1>1. Sound => TypeOK
  BY DEF Sound
<1> QED
  BY <1>1, SoundInit, SoundStep, PTL DEF Spec

(***************************************************************************)
(* Memories.  A chat that is going to insert memories has a document of    *)
(* its session, or the deletion that took the last one has marked it.      *)
(***************************************************************************)
RunningHasSession ==
    \A c \in Chat : chat[c].pc \in Writing /\ ~chat[c].missed
                        => \A s \in chat[c].session : sessions[s] # 0

Accounted(m) ==
    \/ sessions[m.session] # 0
    \/ m.missed
    \/ m.session \in deleting
    \/ m.session \in Owned /\ "memories" \in pruner

\* What a step may do without leaving anything behind: no session is deleted, or the
\* chats that run in it are marked.
LEMMA RunningStep ==
    ASSUME Sound, RunningHasSession, [Next]_vars
    PROVE  RunningHasSession'
<1> USE DEF store, forms, prune
<1>0. SoundParts /\ chat \in [Chat -> ChatType] /\ sessions \in [Session -> Nat]
  BY SoundIs DEF SoundParts, ChatsSound
<1>1. \A c \in Chat : chat[c].session \subseteq Session /\ \A s, t \in chat[c].session : s = t
  BY <1>0 DEF SoundParts, ChatsSound, SoundChat, ChatType
<1>2. ASSUME UNCHANGED chat, \A s \in Session : sessions[s] # 0 => sessions'[s] # 0
      PROVE  RunningHasSession'
  BY <1>1, <1>2 DEF RunningHasSession
<1>3. ASSUME NEW c \in Chat, NEW r \in ChatType, chat' = [chat EXCEPT ![c] = r],
             \A s \in Session : sessions[s] # 0 => sessions'[s] # 0,
             r.pc \in Writing /\ ~r.missed => \A s \in r.session : sessions'[s] # 0
      PROVE  RunningHasSession'
  BY <1>0, <1>1, <1>3 DEF RunningHasSession
<1>4. ASSUME NEW S, MissChats(S),
             \A s \in Session \ S : sessions'[s] = sessions[s]
      PROVE  RunningHasSession'
  <2> SUFFICES ASSUME NEW c \in Chat, chat'[c].pc \in Writing, ~chat'[c].missed,
                      NEW s \in chat'[c].session
               PROVE  sessions'[s] # 0
    BY DEF RunningHasSession
  <2>1. chat[c] \in ChatType
    BY <1>0
  <2>2. CASE chat[c].pc \in Writing /\ chat[c].session \subseteq S
    <3>1. chat'[c] = [chat[c] EXCEPT !.missed = TRUE]
      BY <1>4, <2>2 DEF MissChats
    <3> QED
      BY <2>1, <3>1 DEF ChatType
  <2>3. CASE ~(chat[c].pc \in Writing /\ chat[c].session \subseteq S)
    <3>1. chat'[c] = chat[c]
      BY <1>4, <2>3 DEF MissChats
    <3>2. s \in Session /\ s \notin S
      BY <1>1, <2>3, <3>1
    <3>3. sessions[s] # 0
      BY <3>1 DEF RunningHasSession
    <3> QED
      BY <1>4, <3>2, <3>3
  <2> QED
    BY <2>2, <2>3
<1>5. ASSUME NEW u \in User, BecomeDue(u) \/ ReadForm(u) \/ WriteForm(u)
      PROVE  RunningHasSession'
  BY <1>2, <1>5 DEF BecomeDue, ReadForm, WriteForm
<1>6. ASSUME NEW c \in Chat, NEW s \in Session, Start(c, s)
      PROVE  RunningHasSession'
  <2> DEFINE pc == IF sessions[s] = 0 THEN "count" ELSE "input"
             r == [Idle EXCEPT !.pc = pc, !.session = {s}]
  <2>1. chat' = [chat EXCEPT ![c] = r] /\ UNCHANGED sessions
    BY <1>6 DEF Start
  <2>2. r \in ChatType /\ r.pc = pc /\ r.session = {s}
    BY DEF ChatType, Place, Idle
  <2>3. pc \in Writing => sessions[s] # 0
    BY DEF Writing
  <2> HIDE DEF r, pc
  <2> QED
    BY <1>3, <2>1, <2>2, <2>3
<1>7. ASSUME NEW c \in Chat, NEW pc \in Place \ Writing, UNCHANGED sessions,
             \/ chat' = [chat EXCEPT ![c] = [chat[c] EXCEPT !.pc = pc]]
             \/ chat' = [chat EXCEPT ![c] = [chat[c] EXCEPT !.pc = pc, !.again = TRUE]]
             \/ chat' = [chat EXCEPT ![c] = [chat[c] EXCEPT !.pc = pc, !.seen = "due"]]
      PROVE  RunningHasSession'
  <2>1. /\ [chat[c] EXCEPT !.pc = pc] \in ChatType
        /\ [chat[c] EXCEPT !.pc = pc, !.again = TRUE] \in ChatType
        /\ [chat[c] EXCEPT !.pc = pc, !.seen = "due"] \in ChatType
    BY <1>0 DEF ChatType, Record
  <2>2. /\ [chat[c] EXCEPT !.pc = pc].pc = pc
        /\ [chat[c] EXCEPT !.pc = pc, !.again = TRUE].pc = pc
        /\ [chat[c] EXCEPT !.pc = pc, !.seen = "due"].pc = pc
    BY <1>0 DEF ChatType
  <2> QED
    BY <1>3, <1>7, <2>1, <2>2
<1>8. ASSUME NEW c \in Chat, UNCHANGED sessions, chat' = [chat EXCEPT ![c] = Idle]
      PROVE  RunningHasSession'
  <2>1. Idle \in ChatType /\ Idle.pc \notin Writing
    BY DEF Idle, ChatType, Place, Record, Writing
  <2> QED
    BY <1>3, <1>8, <2>1
<1>9. ASSUME NEW c \in Chat, CountSessions(c) \/ FailChat(c) \/ Recurse(c) \/ ReadPrompt(c)
                             \/ WritePrompt(c)
      PROVE  RunningHasSession'
  <2>1. \A pc \in {"insert", "count", "prompt"} : pc \in Place \ Writing
    BY DEF Place, Writing
  <2>2. CASE CountSessions(c)
    BY <1>7, <1>8, <2>1, <2>2 DEF CountSessions, Go
  <2>3. CASE FailChat(c)
    BY <1>8, <2>3 DEF FailChat
  <2>4. CASE Recurse(c)
    <3>1. /\ chat' = [chat EXCEPT ![c] = [chat[c] EXCEPT !.pc = "count", !.again = TRUE]]
          /\ UNCHANGED sessions
      BY <2>4 DEF Recurse
    <3> QED
      BY <1>7, <2>1, <3>1
  <2>5. CASE ReadPrompt(c)
    <3>1. \/ chat' = [chat EXCEPT ![c] = Idle]
          \/ chat' = [chat EXCEPT ![c] = [chat[c] EXCEPT !.pc = "prompt", !.seen = "due"]]
      BY <2>5 DEF ReadPrompt, Read
    <3> QED
      BY <1>7, <1>8, <2>1, <2>5, <3>1 DEF ReadPrompt
  <2>6. CASE WritePrompt(c)
    BY <1>8, <2>6 DEF WritePrompt
  <2> QED
    BY <1>9, <2>2, <2>3, <2>4, <2>5, <2>6
<1>10. ASSUME NEW c \in Chat, InsertSession(c)
       PROVE  RunningHasSession'
  <2> DEFINE pc == IF chat[c].again THEN "answer" ELSE "input"
             r == [chat[c] EXCEPT !.pc = pc, !.again = FALSE]
  <2>1. chat' = [chat EXCEPT ![c] = r]
    BY <1>10 DEF InsertSession
  <2>2. pc \in Place
    BY DEF Place
  <2>3. r \in ChatType /\ r.session = chat[c].session
    <3> HIDE DEF pc
    <3> QED
      BY <1>0, <2>2 DEF ChatType
  <2>4. /\ \A s \in Session : sessions[s] # 0 => sessions'[s] # 0
        /\ \A s \in chat[c].session : sessions'[s] # 0
    BY <1>0, <1>1, <1>10 DEF InsertSession
  <2> HIDE DEF r
  <2> QED
    BY <1>3, <2>1, <2>3, <2>4
<1>11. ASSUME NEW c \in Chat, InsertInput(c) \/ ReadMark(c) \/ WriteMark(c)
       PROVE  RunningHasSession'
  <2>1. PICK pc \in {"answer", "mark"}, seen \in Record \cup {"none"} :
            chat' = [chat EXCEPT ![c] = [chat[c] EXCEPT !.pc = pc, !.seen = seen]]
    <3>1. CASE InsertInput(c)
      <4>1. [chat[c] EXCEPT !.pc = "answer"]
                = [chat[c] EXCEPT !.pc = "answer", !.seen = chat[c].seen]
        BY <1>0 DEF ChatType
      <4>2. chat' = [chat EXCEPT ![c] = [chat[c] EXCEPT !.pc = "answer"]]
        BY <3>1 DEF InsertInput, Go
      <4>3. chat[c].seen \in Record \cup {"none"}
        BY <1>0 DEF ChatType
      <4> QED
        BY <4>1, <4>2, <4>3
    <3>2. CASE ReadMark(c)
      BY <3>2 DEF ReadMark, Read, Record
    <3>3. CASE WriteMark(c)
      BY <3>3 DEF WriteMark
    <3> QED
      BY <1>11, <3>1, <3>2, <3>3
  <2>2. UNCHANGED sessions /\ chat[c].pc \in Writing
    BY <1>11 DEF InsertInput, ReadMark, WriteMark, Writing
  <2> DEFINE r == [chat[c] EXCEPT !.pc = pc, !.seen = seen]
  <2>3. r \in ChatType /\ r.session = chat[c].session /\ r.missed = chat[c].missed
    BY <1>0 DEF ChatType, Place
  <2>4. ~r.missed => \A s \in r.session : sessions[s] # 0
    <3> HIDE DEF r
    <3> QED
      BY <2>2, <2>3 DEF RunningHasSession
  <2> HIDE DEF r
  <2>5. chat' = [chat EXCEPT ![c] = r]
    BY <2>1 DEF r
  <2> QED
    BY <1>3, <2>2, <2>3, <2>4, <2>5
<1>12. ASSUME NEW c \in Chat, InsertAnswer(c)
       PROVE  RunningHasSession'
  <2>1. [Idle EXCEPT !.pc = "trigger"] \in ChatType
        /\ [Idle EXCEPT !.pc = "trigger"].pc \notin Writing
    BY DEF Idle, ChatType, Place, Record, Writing
  <2> QED
    BY <1>3, <1>12, <2>1 DEF InsertAnswer
<1>13. ASSUME NEW s \in Session, DeleteSession(s)
       PROVE  RunningHasSession'
  <2>1. \A t \in Session \ {s} : sessions'[t] = sessions[t]
    BY <1>0, <1>13 DEF DeleteSession
  <2> QED
    BY <1>4, <1>13, <2>1 DEF DeleteSession
<1>14. ASSUME DeleteUserAgentSessions
       PROVE  RunningHasSession'
  <2>1. CASE UNCHANGED <<sessions, chat>>
    BY <1>2, <2>1
  <2>2. CASE MissChats(Owned) /\ sessions' = [s \in Session |-> IF s \in Owned THEN 0 ELSE sessions[s]]
    BY <1>4, <2>2
  <2> QED
    BY <1>14, <2>1, <2>2 DEF DeleteUserAgentSessions
<1>15. ASSUME NEW s \in Session, DeleteSessionMemories(s)
       PROVE  RunningHasSession'
  BY <1>2, <1>15 DEF DeleteSessionMemories
<1>16. ASSUME FetchInactiveUsers \/ DeleteUserAgentMemories \/ DeleteUserDataRecord
       PROVE  RunningHasSession'
  BY <1>2, <1>16 DEF FetchInactiveUsers, DeleteUserAgentMemories, DeleteUserDataRecord
<1>17. CASE UNCHANGED vars
  BY <1>2, <1>17 DEF vars
<1> QED
  BY <1>5, <1>6, <1>9, <1>10, <1>11, <1>12, <1>13, <1>14, <1>15, <1>16, <1>17 DEF Next

\* What is inserted is accounted for: its chat has a document, or is marked.
LEMMA InsertedIsAccounted ==
    ASSUME Sound, RunningHasSession, NEW c \in Chat, chat[c].pc \in Writing, NEW m \in Memory(c)
    PROVE  sessions[m.session] # 0 \/ m.missed
<1>1. chat[c] \in ChatType
  BY SoundIs DEF SoundParts, ChatsSound
<1>2. PICK s \in chat[c].session : m = [session |-> s, missed |-> chat[c].missed]
  BY DEF Memory
<1>3. m.session = s /\ m.missed = chat[c].missed
  BY <1>2
<1>4. chat[c].missed => m.missed
  BY <1>3
<1>5. ~chat[c].missed => sessions[m.session] # 0
  BY <1>3 DEF RunningHasSession
<1> QED
  BY <1>4, <1>5

\* Each deletion accounts for what it leaves, and no other step leaves anything.
LEMMA NoOrphansStep ==
    ASSUME Sound, RunningHasSession, NoOrphans, [Next]_vars
    PROVE  NoOrphans'
<1> USE DEF store, forms, prune
<1>0. /\ memories \subseteq [session : Session, missed : BOOLEAN]
      /\ sessions \in [Session -> Nat] /\ deleting \subseteq Session
      /\ pruner \subseteq {"sessions", "memories", "users"}
  BY SoundIs DEF SoundParts
<1>1. \A m \in memories : Accounted(m)
  BY DEF NoOrphans, Accounted
<1>2. ASSUME \A m \in memories' :
                \/ sessions'[m.session] # 0
                \/ m.missed
                \/ m.session \in deleting'
                \/ m.session \in Session /\ Owner[m.session] \in pruning' /\ "memories" \in pruner'
      PROVE  NoOrphans'
  BY <1>2 DEF NoOrphans, Owned
<1>3. ASSUME \A m \in memories' :
                m \in memories \/ m.missed \/ (m.session \in Session /\ sessions[m.session] # 0),
             \A s \in Session : sessions[s] # 0 => sessions'[s] # 0,
             UNCHANGED prune
      PROVE  NoOrphans'
  <2> SUFFICES ASSUME NEW m \in memories', ~m.missed
               PROVE  \/ sessions'[m.session] # 0
                      \/ m.session \in deleting'
                      \/ m.session \in Session /\ Owner[m.session] \in pruning' /\ "memories" \in pruner'
    BY <1>2
  <2>1. CASE m \in memories
    BY <1>0, <1>1, <1>3, <2>1 DEF Accounted, Owned
  <2>2. CASE m \notin memories
    BY <1>3, <2>2
  <2> QED
    BY <2>1, <2>2
<1>4. ASSUME NEW u \in User, BecomeDue(u) \/ ReadForm(u) \/ WriteForm(u)
      PROVE  NoOrphans'
  BY <1>3, <1>4 DEF BecomeDue, ReadForm, WriteForm
<1>5. ASSUME NEW c \in Chat, InsertInput(c) \/ InsertAnswer(c)
      PROVE  NoOrphans'
  <2>1. /\ memories' = memories \cup Memory(c) /\ UNCHANGED <<sessions, prune>>
        /\ chat[c].pc \in Writing
    BY <1>5 DEF InsertInput, InsertAnswer, Writing
  <2>2. \A m \in Memory(c) : m.missed \/ (m.session \in Session /\ sessions[m.session] # 0)
    BY <2>1, InsertedIsAccounted, MemoryFacts
  <2> QED
    BY <1>3, <2>1, <2>2
<1>6. ASSUME NEW c \in Chat, InsertSession(c)
      PROVE  NoOrphans'
  <2>1. \A s \in Session : sessions[s] # 0 => sessions'[s] # 0
    BY <1>0, <1>6 DEF InsertSession
  <2> QED
    BY <1>3, <1>6, <2>1 DEF InsertSession
<1>7. ASSUME NEW c \in Chat,
             \/ \E s \in Session : Start(c, s)
             \/ CountSessions(c) \/ Recurse(c) \/ ReadMark(c) \/ WriteMark(c)
             \/ ReadPrompt(c) \/ WritePrompt(c) \/ FailChat(c)
      PROVE  NoOrphans'
  <2>1. UNCHANGED <<sessions, memories, prune>>
    BY <1>7 DEF Start, CountSessions, Recurse, ReadMark, WriteMark, ReadPrompt, WritePrompt,
                FailChat
  <2> QED
    BY <1>3, <2>1
<1>8. ASSUME NEW s \in Session, DeleteSession(s)
      PROVE  NoOrphans'
  <2> SUFFICES ASSUME NEW m \in memories, ~m.missed
               PROVE  \/ sessions'[m.session] # 0
                      \/ m.session \in deleting'
                      \/ m.session \in Session /\ Owner[m.session] \in pruning' /\ "memories" \in pruner'
    BY <1>2, <1>8 DEF DeleteSession
  <2>1. CASE m.session = s
    BY <1>8, <2>1 DEF DeleteSession
  <2>2. CASE m.session # s
    <3>1. m.session \in Session
      BY <1>0
    <3>2. sessions'[m.session] = sessions[m.session]
      BY <1>0, <1>8, <2>2, <3>1 DEF DeleteSession
    <3>3. deleting \subseteq deleting' /\ UNCHANGED <<pruner, pruning>>
      BY <1>8 DEF DeleteSession
    <3> QED
      BY <1>1, <3>1, <3>2, <3>3 DEF Accounted, Owned
  <2> QED
    BY <2>1, <2>2
<1>9. ASSUME NEW S, MissMemories(S), NEW m \in memories', ~m.missed
      PROVE  m \in memories /\ m.session \notin S
  <2>1. PICK o \in memories : m = IF o.session \in S THEN [o EXCEPT !.missed = TRUE] ELSE o
    BY <1>9 DEF MissMemories
  <2>2. CASE o.session \in S
    <3>1. m.missed
      BY <1>0, <2>1, <2>2
    <3> QED
      BY <1>9, <3>1
  <2>3. CASE o.session \notin S
    BY <2>1, <2>3
  <2> QED
    BY <2>2, <2>3
<1>10. ASSUME NEW S, DeleteMemories(S) \/ MissMemories(S), NEW m \in memories', ~m.missed
       PROVE  m \in memories /\ m.session \notin S
  BY <1>9, <1>10 DEF DeleteMemories
<1>11. ASSUME NEW s \in Session, DeleteSessionMemories(s)
       PROVE  NoOrphans'
  <2> SUFFICES ASSUME NEW m \in memories', ~m.missed
               PROVE  \/ sessions'[m.session] # 0
                      \/ m.session \in deleting'
                      \/ m.session \in Session /\ Owner[m.session] \in pruning' /\ "memories" \in pruner'
    BY <1>2
  <2>1. m \in memories /\ m.session \notin {s}
    BY <1>10, <1>11 DEF DeleteSessionMemories
  <2>2. deleting' = deleting \ {s} /\ UNCHANGED <<sessions, pruner, pruning>>
    BY <1>11 DEF DeleteSessionMemories
  <2> QED
    BY <1>1, <2>1, <2>2 DEF Accounted, Owned
<1>12. ASSUME FetchInactiveUsers
       PROVE  NoOrphans'
  <2>1. UNCHANGED <<sessions, memories, deleting>> /\ pruner = {}
    BY <1>12 DEF FetchInactiveUsers
  <2> QED
    BY <1>1, <1>2, <2>1 DEF Accounted
<1>13. ASSUME NEW part \in {"sessions", "users"}, Finished(part), "memories" \in pruner
       PROVE  pruning' = pruning /\ "memories" \in pruner'
  BY <1>13 DEF Finished
<1>14. ASSUME DeleteUserAgentSessions
       PROVE  NoOrphans'
  <2> SUFFICES ASSUME NEW m \in memories', ~m.missed
               PROVE  \/ sessions'[m.session] # 0
                      \/ m.session \in deleting'
                      \/ m.session \in Session /\ Owner[m.session] \in pruning' /\ "memories" \in pruner'
    BY <1>2
  <2>1. m \in memories /\ ("memories" \in pruner \/ m.session \notin Owned \/ UNCHANGED sessions)
    BY <1>14, <1>10 DEF DeleteUserAgentSessions
  <2>2. m.session \in Session /\ UNCHANGED deleting /\ Finished("sessions")
    BY <1>0, <1>14, <2>1 DEF DeleteUserAgentSessions
  <2>3. CASE m.session \in Owned /\ "memories" \in pruner
    BY <1>13, <2>2, <2>3 DEF Owned
  <2>4. CASE ~(m.session \in Owned /\ "memories" \in pruner)
    <3>1. sessions'[m.session] = sessions[m.session]
      BY <1>0, <1>14, <2>1, <2>2, <2>4 DEF DeleteUserAgentSessions
    <3> QED
      BY <1>1, <2>1, <2>2, <2>4, <3>1 DEF Accounted
  <2> QED
    BY <2>3, <2>4
<1>15. ASSUME DeleteUserAgentMemories
       PROVE  NoOrphans'
  <2> SUFFICES ASSUME NEW m \in memories', ~m.missed
               PROVE  \/ sessions'[m.session] # 0
                      \/ m.session \in deleting'
                      \/ m.session \in Session /\ Owner[m.session] \in pruning' /\ "memories" \in pruner'
    BY <1>2
  <2>1. m \in memories /\ m.session \notin Owned
    BY <1>10, <1>15 DEF DeleteUserAgentMemories
  <2>2. UNCHANGED <<sessions, deleting>>
    BY <1>15 DEF DeleteUserAgentMemories
  <2> QED
    BY <1>1, <2>1, <2>2 DEF Accounted
<1>16. ASSUME DeleteUserDataRecord
       PROVE  NoOrphans'
  <2>1. UNCHANGED <<sessions, memories, deleting>> /\ Finished("users")
    BY <1>16 DEF DeleteUserDataRecord
  <2> QED
    BY <1>0, <1>1, <1>2, <1>13, <2>1 DEF Accounted, Owned
<1>17. CASE UNCHANGED vars
  BY <1>3, <1>17 DEF vars
<1> QED
  BY <1>4, <1>5, <1>6, <1>7, <1>8, <1>11, <1>12, <1>14, <1>15, <1>16, <1>17 DEF Next

(***************************************************************************)
(* No memory is without its session once its deletion is over, unless a    *)
(* call of the deletion failed or a chat in the session was running.       *)
(***************************************************************************)
THEOREM NoOrphansHolds == Spec => []NoOrphans
<1> DEFINE Inv == Sound /\ RunningHasSession /\ NoOrphans
<1>1. Init => Inv
  <2>1. Init => RunningHasSession /\ NoOrphans
    BY DEF Init, RunningHasSession, NoOrphans, Idle, Writing
  <2> QED
    BY <2>1, SoundInit
<1>2. Inv /\ [Next]_vars => Inv'
  BY SoundStep, RunningStep, NoOrphansStep
<1> QED
  BY <1>1, <1>2, PTL DEF Spec

(***************************************************************************)
(* Prompts.  A user who has been asked and is due all the same, is so      *)
(* because a chat wrote a state it had read before.                        *)
(***************************************************************************)
AskedAndDueIsLost == \A u \in asked : users[u] = "due" => u \in lost

\* A chat that makes an asked user due again has written a state it had read before.
LEMMA AskedAndDueStep ==
    ASSUME Sound, AskedAndDueIsLost, [Next]_vars
    PROVE  AskedAndDueIsLost'
<1> USE DEF store, forms, prune
<1>0. /\ users \in [User -> Record] /\ asked \subseteq User
      /\ \A c \in Chat : chat[c].pc = "mark" => chat[c].seen = "due"
  BY SoundIs DEF SoundParts, ChatsSound, SoundChat
<1>1. \A c \in Chat : Owner[c] \in User
  BY DataAssumption
<1>2. ASSUME UNCHANGED <<users, asked, lost>>
      PROVE  AskedAndDueIsLost'
  BY <1>2 DEF AskedAndDueIsLost
<1>3. ASSUME NEW u \in User, BecomeDue(u)
      PROVE  AskedAndDueIsLost'
  BY <1>0, <1>3 DEF AskedAndDueIsLost, BecomeDue
<1>4. ASSUME NEW u \in User, WriteForm(u)
      PROVE  AskedAndDueIsLost'
  <2>1. \A v \in User : users'[v] = "due" => users[v] = "due"
    BY <1>0, <1>4 DEF WriteForm, Put
  <2> QED
    BY <1>0, <1>4, <2>1 DEF WriteForm, AskedAndDueIsLost
<1>5. ASSUME NEW c \in Chat, WriteMark(c)
      PROVE  AskedAndDueIsLost'
  <2>1. \A v \in User : v # Owner[c] => users'[v] = users[v]
    BY <1>0, <1>5 DEF WriteMark, Put
  <2>2. UNCHANGED asked /\ lost \subseteq lost'
    BY <1>5 DEF WriteMark, Stale
  <2>3. Owner[c] \in asked => Owner[c] \in lost'
    BY <1>0, <1>1, <1>5, <2>2 DEF WriteMark, Stale, AskedAndDueIsLost
  <2> QED
    BY <1>0, <2>1, <2>2, <2>3 DEF AskedAndDueIsLost
<1>6. ASSUME NEW c \in Chat, WritePrompt(c)
      PROVE  AskedAndDueIsLost'
  <2>1. /\ \A v \in User : v # Owner[c] => users'[v] = users[v]
        /\ users'[Owner[c]] # "due"
    BY <1>0, <1>1, <1>6 DEF WritePrompt, Put
  <2>2. asked' = asked \cup {Owner[c]} /\ lost \subseteq lost'
    BY <1>6 DEF WritePrompt, Stale
  <2> QED
    BY <1>0, <2>1, <2>2 DEF AskedAndDueIsLost
<1>7. ASSUME DeleteUserDataRecord
      PROVE  AskedAndDueIsLost'
  BY <1>0, <1>7 DEF DeleteUserDataRecord, AskedAndDueIsLost
<1>8. ASSUME NEW c \in Chat,
             \/ \E s \in Session : Start(c, s)
             \/ CountSessions(c) \/ InsertSession(c) \/ InsertInput(c) \/ Recurse(c)
             \/ InsertAnswer(c) \/ ReadMark(c) \/ ReadPrompt(c) \/ FailChat(c)
      PROVE  AskedAndDueIsLost'
  <2>1. UNCHANGED <<users, asked, lost>>
    BY <1>8 DEF Start, CountSessions, InsertSession, InsertInput, Recurse, InsertAnswer,
                ReadMark, ReadPrompt, FailChat
  <2> QED
    BY <1>2, <2>1
<1>9. ASSUME \/ \E u \in User : ReadForm(u)
             \/ \E s \in Session : DeleteSession(s) \/ DeleteSessionMemories(s)
             \/ FetchInactiveUsers \/ DeleteUserAgentSessions \/ DeleteUserAgentMemories
             \/ UNCHANGED vars
      PROVE  AskedAndDueIsLost'
  <2>1. UNCHANGED <<users, asked, lost>>
    BY <1>9 DEF ReadForm, DeleteSession, DeleteSessionMemories, FetchInactiveUsers,
                DeleteUserAgentSessions, DeleteUserAgentMemories, vars
  <2> QED
    BY <1>2, <2>1
<1> QED
  BY <1>3, <1>4, <1>5, <1>6, <1>7, <1>8, <1>9 DEF Next

\* Nobody is asked again before the delay is over, unless the state was overwritten.
THEOREM PromptsSpacedHolds == Spec => PromptsSpaced
<1> DEFINE Inv == Sound /\ AskedAndDueIsLost
<1>1. Init => Inv
  <2>1. Init => AskedAndDueIsLost
    BY DEF Init, AskedAndDueIsLost
  <2> QED
    BY <2>1, SoundInit
<1>2. Inv /\ [Next]_vars => Inv'
  BY SoundStep, AskedAndDueStep
<1>3. ASSUME Inv, NEW c \in Chat, WritePrompt(c), Owner[c] \in asked
      PROVE  Owner[c] \in lost'
  <2>1. chat[c].seen = "due"
    BY <1>3, SoundIs DEF SoundParts, ChatsSound, SoundChat, WritePrompt
  <2> QED
    BY <1>3, <2>1 DEF WritePrompt, Stale, AskedAndDueIsLost
<1>4. Inv => [\A c \in Chat : WritePrompt(c) /\ Owner[c] \in asked => Owner[c] \in lost']_vars
  BY <1>3
<1> QED
  BY <1>1, <1>2, <1>4, PTL DEF Spec, PromptsSpaced

(***************************************************************************)
(* Sessions.  A chat that has counted and not yet inserted takes the room  *)
(* of a session: it is counted with the documents.                         *)
(***************************************************************************)
Inserting(u) == {c \in ChatsOf(u) : chat[c].pc = "insert"}

RoomFor(u) ==
    /\ IsFiniteSet(Documents(u))
    /\ Cardinality(Documents(u)) + Cardinality(Inserting(u))
            < MaxSessions + Cardinality(ChatsOf(u))

Room == \A u \in User : RoomFor(u)

\* A user's connections are finitely many, and so are those of them that insert.
LEMMA ChatsFacts ==
    ASSUME NEW u
    PROVE  /\ IsFiniteSet(ChatsOf(u)) /\ Cardinality(ChatsOf(u)) \in Nat
           /\ IsFiniteSet(Inserting(u)) /\ Cardinality(Inserting(u)) \in Nat
           /\ Cardinality(Inserting(u)) <= Cardinality(ChatsOf(u))
<1>1. IsFiniteSet(Chat)
  BY DataAssumption
<1>2. ChatsOf(u) \in SUBSET Chat
  BY DEF ChatsOf
<1>3. IsFiniteSet(ChatsOf(u))
  BY <1>1, <1>2, FS_Subset
<1>4. Inserting(u) \in SUBSET ChatsOf(u)
  BY DEF Inserting
<1>5. IsFiniteSet(Inserting(u)) /\ Cardinality(Inserting(u)) <= Cardinality(ChatsOf(u))
  BY <1>3, <1>4, FS_Subset
<1> QED
  BY <1>3, <1>5, FS_CardinalityType

\* The documents of a user, one by one.
LEMMA DocumentsAre ==
    ASSUME NEW u, NEW d
    PROVE  d \in Documents(u) <=>
                \E s \in Session : Owner[s] = u /\ \E i \in 1 .. sessions[s] : d = <<s, i>>
  BY DEF Documents

\* Room is left when documents and inserting chats do not grow together.
LEMMA RoomKept ==
    ASSUME NEW u, RoomFor(u), Documents(u)' \subseteq Documents(u),
           Inserting(u)' \subseteq Inserting(u)
    PROVE  RoomFor(u)'
<1>1. /\ IsFiniteSet(Documents(u)') /\ Cardinality(Documents(u)') <= Cardinality(Documents(u))
      /\ Cardinality(Documents(u)) \in Nat /\ Cardinality(Documents(u)') \in Nat
  BY FS_Subset, FS_CardinalityType DEF RoomFor
<1>2. Cardinality(Inserting(u)') <= Cardinality(Inserting(u))
      /\ Cardinality(Inserting(u)) \in Nat /\ Cardinality(Inserting(u)') \in Nat
  BY ChatsFacts, FS_Subset, FS_CardinalityType
<1>3. ChatsOf(u)' = ChatsOf(u) /\ Cardinality(ChatsOf(u)) \in Nat
  BY ChatsFacts DEF ChatsOf
<1>4. MaxSessions \in Nat
  BY DataAssumption
<1> QED
  BY <1>1, <1>2, <1>3, <1>4 DEF RoomFor

\* Of no step but an insertion can there be more documents.
LEMMA FewerDocuments ==
    ASSUME Sound, Sound', NEW u, \A s \in Session : sessions'[s] <= sessions[s]
    PROVE  Documents(u)' \subseteq Documents(u)
<1>0. sessions \in [Session -> Nat] /\ sessions' \in [Session -> Nat]
  BY DEF Sound, TypeOK
<1>1. SUFFICES ASSUME NEW d \in Documents(u)'
               PROVE  d \in Documents(u)
  OBVIOUS
<1>2. PICK s \in Session : Owner[s] = u /\ \E i \in 1 .. sessions'[s] : d = <<s, i>>
  BY <1>1 DEF Documents
<1>3. \A i \in 1 .. sessions'[s] : i \in 1 .. sessions[s]
  BY <1>0
<1> QED
  BY <1>2, <1>3, DocumentsAre

\* A chat that has counted and found room may insert with all the others.
LEMMA CountingKeepsRoom ==
    ASSUME Sound, Sound', NEW c \in Chat, CountSessions(c), NEW u \in User, RoomFor(u)
    PROVE  RoomFor(u)'
<1>0. chat \in [Chat -> ChatType] /\ sessions \in [Session -> Nat] /\ UNCHANGED sessions
  BY SoundIs DEF SoundParts, ChatsSound, CountSessions, store
<1>1. Documents(u)' = Documents(u)
  BY <1>0 DEF Documents
<1>2. CASE Inserting(u)' \subseteq Inserting(u)
  BY <1>1, <1>2, RoomKept
<1>3. CASE ~(Inserting(u)' \subseteq Inserting(u))
  <2>1. PICK b \in Chat : Owner[b] = u /\ chat'[b].pc = "insert" /\ chat[b].pc # "insert"
    BY <1>3 DEF Inserting, ChatsOf
  <2>2. b = c /\ chat' # [chat EXCEPT ![c] = Idle]
    <3>1. Idle.pc # "insert"
      BY DEF Idle
    <3>2. \/ chat' = [chat EXCEPT ![c] = Idle]
          \/ chat' = [chat EXCEPT ![c] = [chat[c] EXCEPT !.pc = "insert"]]
      BY DEF CountSessions, Go
    <3> QED
      BY <1>0, <2>1, <3>1, <3>2
  <2>3. ~(Cardinality(Documents(u)) >= MaxSessions)
    BY <2>1, <2>2 DEF CountSessions
  <2>4. IsFiniteSet(Documents(u)) /\ Cardinality(Documents(u)) \in Nat
    BY FS_CardinalityType DEF RoomFor
  <2>5. ChatsOf(u)' = ChatsOf(u)
    BY DEF ChatsOf
  <2>6. Inserting(u)' \in SUBSET ChatsOf(u)
    BY DEF Inserting, ChatsOf
  <2>7. IsFiniteSet(ChatsOf(u)) /\ Cardinality(ChatsOf(u)) \in Nat
    BY ChatsFacts
  <2>8. IsFiniteSet(Inserting(u)') /\ Cardinality(Inserting(u)') <= Cardinality(ChatsOf(u))
    BY <2>6, <2>7, FS_Subset
  <2>9. Cardinality(Inserting(u)') \in Nat
    BY <2>8, FS_CardinalityType
  <2>10. MaxSessions \in Nat
    BY DataAssumption
  <2> QED
    BY <1>1, <2>3, <2>4, <2>5, <2>7, <2>8, <2>9, <2>10 DEF RoomFor
<1> QED
  BY <1>2, <1>3

\* An insertion is one document more and one inserting chat less.
LEMMA InsertingKeepsRoom ==
    ASSUME Sound, Sound', NEW c \in Chat, InsertSession(c), NEW u \in User, RoomFor(u)
    PROVE  RoomFor(u)'
<1>0. /\ chat \in [Chat -> ChatType] /\ sessions \in [Session -> Nat]
      /\ SoundChat(c, chat[c])
  BY SoundIs DEF SoundParts, ChatsSound
<1>1. chat'[c].pc # "insert" /\ \A b \in Chat \ {c} : chat'[b] = chat[b]
  BY <1>0 DEF InsertSession, ChatType
<1>2. Inserting(u)' \subseteq Inserting(u) \ {c}
  BY <1>1 DEF Inserting, ChatsOf
<1>3. \A s \in Session \ chat[c].session : sessions'[s] = sessions[s]
  BY <1>0 DEF InsertSession
<1>4. CASE chat[c].session = {} \/ Owner[c] # u
  <2>1. \A s \in chat[c].session : Owner[s] = Owner[c]
    BY <1>0 DEF SoundChat
  <2>2. \A s \in Session : Owner[s] = u => sessions'[s] = sessions[s]
    BY <1>3, <1>4, <2>1
  <2>3. Documents(u)' = Documents(u)
    BY <2>2 DEF Documents
  <2> QED
    BY <1>2, <2>3, RoomKept
<1>5. CASE chat[c].session # {} /\ Owner[c] = u
  <2>1. PICK s \in Session : chat[c].session = {s}
    BY <1>0, <1>5 DEF SoundChat, ChatType
  <2> DEFINE new == <<s, sessions[s] + 1>>
             D == Documents(u)
             I == Inserting(u)
  <2>2. sessions'[s] = sessions[s] + 1 /\ sessions[s] \in Nat
    BY <1>0, <2>1 DEF InsertSession
  <2>3. D' \subseteq D \cup {new}
    <3>1. SUFFICES ASSUME NEW d \in D', d # new
                   PROVE  d \in D
      OBVIOUS
    <3>2. PICK t \in Session : Owner[t] = u /\ \E i \in 1 .. sessions'[t] : d = <<t, i>>
      BY <3>1 DEF Documents
    <3>3. PICK i \in 1 .. sessions'[t] : d = <<t, i>>
      BY <3>2
    <3>4. i \in 1 .. sessions[t]
      <4>1. CASE t = s
        BY <2>2, <3>1, <3>3, <4>1
      <4>2. CASE t # s
        BY <1>3, <2>1, <3>3, <4>2
      <4> QED
        BY <4>1, <4>2
    <3> QED
      BY <3>2, <3>3, <3>4, DocumentsAre
  <2>4. IsFiniteSet(D) /\ Cardinality(D) \in Nat
    BY FS_CardinalityType DEF RoomFor
  <2>5. c \in I
    BY <1>5 DEF InsertSession, Inserting, ChatsOf
  <2>6. IsFiniteSet(I) /\ Cardinality(I) \in Nat
    BY ChatsFacts
  <2> HIDE DEF new, D, I
  <2>7. IsFiniteSet(D \cup {new}) /\ Cardinality(D \cup {new}) <= Cardinality(D) + 1
    <3>1. IsFiniteSet(D)
      BY <2>4
    <3>2. /\ IsFiniteSet(D \cup {new})
          /\ Cardinality(D \cup {new}) = IF new \in D THEN Cardinality(D) ELSE Cardinality(D) + 1
      BY <3>1, FS_AddElement
    <3> QED
      BY <2>4, <3>2
  <2>8. IsFiniteSet(D') /\ Cardinality(D') <= Cardinality(D \cup {new})
    <3>1. IsFiniteSet(D \cup {new})
      BY <2>7
    <3>2. Documents(u)' \in SUBSET (D \cup {new})
      BY <2>3 DEF D
    <3> QED
      BY <3>1, <3>2, FS_Subset DEF D
  <2>9. IsFiniteSet(I \ {c}) /\ Cardinality(I \ {c}) = Cardinality(I) - 1
    BY <2>5, <2>6, FS_RemoveElement
  <2>10. IsFiniteSet(I') /\ Cardinality(I') <= Cardinality(I \ {c})
    BY <1>2, <2>9, FS_Subset DEF I
  <2>11. Cardinality(D') \in Nat /\ Cardinality(I') \in Nat
         /\ Cardinality(D \cup {new}) \in Nat
    BY <2>7, <2>8, <2>10, FS_CardinalityType
  <2>12. Cardinality(D') + Cardinality(I') <= Cardinality(D) + Cardinality(I)
    BY <2>4, <2>6, <2>7, <2>8, <2>9, <2>10, <2>11
  <2>13. Cardinality(D) + Cardinality(I) < MaxSessions + Cardinality(ChatsOf(u))
    BY DEF RoomFor, D, I
  <2>14. ChatsOf(u)' = ChatsOf(u) /\ Cardinality(ChatsOf(u)) \in Nat /\ MaxSessions \in Nat
    BY ChatsFacts, DataAssumption DEF ChatsOf
  <2>15. Cardinality(D') + Cardinality(I') < MaxSessions + Cardinality(ChatsOf(u))
    BY <2>4, <2>6, <2>11, <2>12, <2>13, <2>14
  <2> QED
    BY <2>8, <2>14, <2>15 DEF RoomFor, D, I
<1> QED
  BY <1>4, <1>5

\* Every other step neither inserts a session nor finds room for one.
LEMMA RoomStep ==
    ASSUME Sound, Sound', Room, [Next]_vars
    PROVE  Room'
<1> USE DEF store, forms, prune
<1> SUFFICES ASSUME NEW u \in User PROVE RoomFor(u)'
  BY DEF Room
<1>0. /\ RoomFor(u)
      /\ chat \in [Chat -> ChatType] /\ sessions \in [Session -> Nat]
  BY SoundIs DEF SoundParts, ChatsSound, Room
<1>1. ASSUME \A s \in Session : sessions'[s] <= sessions[s],
             \A c \in Chat : chat'[c].pc = "insert" => chat[c].pc = "insert"
      PROVE  RoomFor(u)'
  <2>1. Inserting(u)' \subseteq Inserting(u)
    BY <1>1 DEF Inserting, ChatsOf
  <2>2. Documents(u)' \subseteq Documents(u)
    BY <1>1, FewerDocuments
  <2> QED
    BY <1>0, <2>1, <2>2, RoomKept
<1>2. \A s \in Session : sessions[s] <= sessions[s]
  BY <1>0
<1>3. ASSUME NEW c \in Chat, NEW r, r.pc # "insert", chat' = [chat EXCEPT ![c] = r],
             UNCHANGED sessions
      PROVE  RoomFor(u)'
  BY <1>0, <1>1, <1>2, <1>3
<1>4. Idle.pc # "insert" /\ [Idle EXCEPT !.pc = "trigger"].pc # "insert"
  BY DEF Idle
<1>5. ASSUME NEW c \in Chat, NEW s \in Session, Start(c, s)
      PROVE  RoomFor(u)'
  <2> DEFINE pc == IF sessions[s] = 0 THEN "count" ELSE "input"
  <2>1. [Idle EXCEPT !.pc = pc, !.session = {s}].pc = pc /\ pc # "insert"
    BY DEF Idle
  <2>2. chat' = [chat EXCEPT ![c] = [Idle EXCEPT !.pc = pc, !.session = {s}]]
    BY <1>5 DEF Start
  <2> HIDE DEF pc
  <2> QED
    BY <1>3, <1>5, <2>1, <2>2 DEF Start
<1>6. ASSUME NEW c \in Chat, InsertAnswer(c) \/ WritePrompt(c) \/ FailChat(c)
      PROVE  RoomFor(u)'
  BY <1>3, <1>4, <1>6 DEF InsertAnswer, WritePrompt, FailChat
<1>7. ASSUME NEW c \in Chat,
             InsertInput(c) \/ Recurse(c) \/ ReadMark(c) \/ WriteMark(c) \/ ReadPrompt(c)
      PROVE  RoomFor(u)'
  <2>1. /\ UNCHANGED sessions
        /\ chat'[c].pc # "insert" /\ \A b \in Chat \ {c} : chat'[b] = chat[b]
    <3>1. CASE InsertInput(c)
      BY <1>0, <3>1 DEF InsertInput, Go, ChatType
    <3>2. CASE Recurse(c)
      BY <1>0, <3>2 DEF Recurse, ChatType
    <3>3. CASE ReadMark(c)
      BY <1>0, <3>3 DEF ReadMark, Read, ChatType
    <3>4. CASE WriteMark(c)
      BY <1>0, <3>4 DEF WriteMark, ChatType
    <3>5. CASE ReadPrompt(c)
      BY <1>0, <1>4, <3>5 DEF ReadPrompt, Read, ChatType
    <3> QED
      BY <1>7, <3>1, <3>2, <3>3, <3>4, <3>5
  <2> QED
    BY <1>1, <1>2, <2>1
<1>8. ASSUME NEW S, MissChats(S), NEW c \in Chat
      PROVE  chat'[c].pc = chat[c].pc
  BY <1>0, <1>8 DEF MissChats, ChatType
<1>9. ASSUME NEW s \in Session, DeleteSession(s)
      PROVE  RoomFor(u)'
  <2>1. \A t \in Session : sessions'[t] <= sessions[t]
    BY <1>0, <1>9 DEF DeleteSession
  <2> QED
    BY <1>1, <1>8, <1>9, <2>1 DEF DeleteSession
<1>10. ASSUME DeleteUserAgentSessions
       PROVE  RoomFor(u)'
  <2>1. \A t \in Session : sessions'[t] <= sessions[t]
    BY <1>0, <1>10 DEF DeleteUserAgentSessions
  <2>2. \A c \in Chat : chat'[c].pc = chat[c].pc
    BY <1>8, <1>10 DEF DeleteUserAgentSessions
  <2> QED
    BY <1>1, <2>1, <2>2
<1>11. ASSUME \/ \E v \in User : BecomeDue(v) \/ ReadForm(v) \/ WriteForm(v)
              \/ \E s \in Session : DeleteSessionMemories(s)
              \/ FetchInactiveUsers \/ DeleteUserAgentMemories \/ DeleteUserDataRecord
              \/ UNCHANGED vars
       PROVE  RoomFor(u)'
  <2>1. UNCHANGED <<sessions, chat>>
    BY <1>11 DEF BecomeDue, ReadForm, WriteForm, DeleteSessionMemories, FetchInactiveUsers,
                 DeleteUserAgentMemories, DeleteUserDataRecord, vars
  <2> QED
    BY <1>1, <1>2, <2>1
<1>12. ASSUME NEW c \in Chat, CountSessions(c) \/ InsertSession(c)
       PROVE  RoomFor(u)'
  BY <1>0, <1>12, CountingKeepsRoom, InsertingKeepsRoom
<1> QED
  BY <1>5, <1>6, <1>7, <1>9, <1>10, <1>11, <1>12 DEF Next

(***************************************************************************)
(* However many chats count before any of them inserts, a user never has   *)
(* as many sessions as the limit and the connections together.             *)
(***************************************************************************)
THEOREM SessionsBoundedHolds == Spec => []SessionsBounded
<1> DEFINE Inv == Sound /\ Room
<1>1. Init => Inv
  <2>1. ASSUME Init, NEW u \in User
        PROVE  RoomFor(u)
    <3>1. Documents(u) = {}
      BY <2>1 DEF Init, Documents
    <3>2. Inserting(u) = {}
      BY <2>1 DEF Init, Inserting, ChatsOf, Idle
    <3>3. IsFiniteSet(Documents(u)) /\ Cardinality(Documents(u)) = 0 /\ Cardinality(Inserting(u)) = 0
      BY <3>1, <3>2, FS_EmptySet
    <3> QED
      <4>1. Cardinality(ChatsOf(u)) \in Nat /\ MaxSessions \in Nat \ {0}
        BY ChatsFacts, DataAssumption
      <4>2. 0 + 0 < MaxSessions + Cardinality(ChatsOf(u))
        BY <4>1
      <4> QED
        BY <3>3, <4>2 DEF RoomFor
  <2> QED
    BY <2>1, SoundInit DEF Room
<1>2. Inv /\ [Next]_vars => Inv'
  BY SoundStep, RoomStep
<1>3. Inv => SessionsBounded
  <2>1. ASSUME Inv, NEW u \in User
        PROVE  Cardinality(Documents(u)) < MaxSessions + Cardinality(ChatsOf(u))
    <3>1. RoomFor(u)
      BY <2>1 DEF Room
    <3>2. Cardinality(Documents(u)) \in Nat
      BY <3>1, FS_CardinalityType DEF RoomFor
    <3>3. MaxSessions \in Nat
      BY DataAssumption
    <3> QED
      BY <3>1, <3>2, <3>3, ChatsFacts DEF RoomFor
  <2> QED
    BY <2>1 DEF SessionsBounded
<1> QED
  BY <1>1, <1>2, <1>3, PTL DEF Spec

-------------------------------------------------------------------------------
(***************************************************************************)
(* Sequences: the first of a kind, and a sequence without white space at   *)
(* its ends.                                                               *)
(***************************************************************************)
\* A set of numbers that is not empty has a least one, ...
LEMMA LeastOfSet ==
    ASSUME NEW S \in SUBSET Nat, S # {}
    PROVE  \E m \in S : \A k \in S : m <= k
<1> DEFINE R == OpToRel(<, Nat)
<1>1. IsWellFoundedOn(R, Nat)
  BY NatLessThanWellFounded
<1>2. \A k, m \in Nat : k < m => <<k, m>> \in R
  BY DEF OpToRel
<1> HIDE DEF R
<1>3. \E m \in S : \A k \in S : ~(<<k, m>> \in R)
  BY <1>1, WFMin
<1>4. PICK m \in S : \A k \in S : ~(<<k, m>> \in R)
  BY <1>3
<1>5. \A k \in S : ~(k < m) /\ k \in Nat /\ m \in Nat
  BY <1>2, <1>4
<1>6. \A k \in S : m <= k
  BY <1>5
<1> QED
  BY <1>4, <1>6

\* ... and a greatest one, if it is bounded.
LEMMA GreatestOfSet ==
    ASSUME NEW n \in Nat, NEW S \in SUBSET (0 .. n), S # {}
    PROVE  \E m \in S : \A k \in S : k <= m
<1> DEFINE T == {n - k : k \in S}
<1>1. T \in SUBSET Nat /\ T # {}
  <2>1. \A k \in S : k \in 0 .. n
    OBVIOUS
  <2>2. \A k \in 0 .. n : n - k \in Nat
    OBVIOUS
  <2> QED
    BY <2>1, <2>2
<1>2. PICK t \in T : \A u \in T : t <= u
  BY <1>1, LeastOfSet
<1>3. PICK m \in S : t = n - m
  BY <1>2
<1>4. ASSUME NEW k \in S PROVE k <= m
  <2>1. n - m <= n - k
    BY <1>2, <1>3
  <2> QED
    BY <2>1
<1> QED
  BY <1>3, <1>4

\* Where a text is split.
LEMMA SplitFacts ==
    ASSUME NEW q, NEW n \in Nat, DOMAIN q = 1 .. n, NEW kind, Has(q, kind)
    PROVE  /\ SplitAt(q, kind) \in 1 .. n
           /\ q[SplitAt(q, kind)].kind = kind
           /\ \A j \in 1 .. SplitAt(q, kind) - 1 : q[j].kind # kind
<1> DEFINE S == {i \in 1 .. n : q[i].kind = kind}
<1>1. PICK m \in S : \A k \in S : m <= k
  <2>1. S \in SUBSET Nat /\ S # {}
    BY DEF Has
  <2> QED
    BY <2>1, LeastOfSet
<1>2. m \in DOMAIN q /\ IsAt(q, m, kind)
  BY <1>1 DEF IsAt
<1>3. SplitAt(q, kind) \in DOMAIN q /\ IsAt(q, SplitAt(q, kind), kind)
  BY <1>2 DEF SplitAt
<1> QED
  BY <1>3 DEF IsAt

\* What is before the first of a kind, what is after it, and from where on it is.
LEMMA Parts ==
    ASSUME NEW C, NEW q \in Seq(C), NEW kind, Has(q, kind)
    PROVE  LET i == SplitAt(q, kind)
           IN  /\ i \in 1 .. Len(q) /\ q[i].kind = kind
               /\ \A j \in 1 .. i - 1 : q[j].kind # kind
               /\ /\ Before(q, kind) \in Seq(C) /\ Len(Before(q, kind)) = i - 1
                  /\ \A x \in 1 .. i - 1 : Before(q, kind)[x] = q[x]
               /\ /\ After(q, kind) \in Seq(C) /\ Len(After(q, kind)) = Len(q) - i
                  /\ \A x \in 1 .. Len(q) - i : After(q, kind)[x] = q[i + x]
               /\ /\ From(q, kind) \in Seq(C) /\ Len(From(q, kind)) = Len(q) - i + 1
                  /\ \A x \in 1 .. Len(q) - i + 1 : From(q, kind)[x] = q[i - 1 + x]
<1> DEFINE i == SplitAt(q, kind)
<1>1. i \in 1 .. Len(q) /\ q[i].kind = kind /\ \A j \in 1 .. i - 1 : q[j].kind # kind
  <2>1. DOMAIN q = 1 .. Len(q) /\ Len(q) \in Nat
    OBVIOUS
  <2> QED
    BY <2>1, SplitFacts
<1> HIDE DEF i
<1>2. \A m \in 1 .. Len(q) + 1, n \in 0 .. Len(q) : m <= n + 1 =>
        /\ SubSeq(q, m, n) \in Seq(C) /\ Len(SubSeq(q, m, n)) = n - m + 1
        /\ \A x \in 1 .. n - m + 1 : SubSeq(q, m, n)[x] = q[m - 1 + x]
  OBVIOUS
<1>3. Before(q, kind) = SubSeq(q, 1, i - 1) /\ After(q, kind) = SubSeq(q, i + 1, Len(q))
      /\ From(q, kind) = SubSeq(q, i, Len(q))
  BY DEF Before, After, From, i
<1>4. /\ Before(q, kind) \in Seq(C) /\ Len(Before(q, kind)) = i - 1
      /\ \A x \in 1 .. i - 1 : Before(q, kind)[x] = q[x]
  BY <1>1, <1>2, <1>3
<1>5. /\ After(q, kind) \in Seq(C) /\ Len(After(q, kind)) = Len(q) - i
      /\ \A x \in 1 .. Len(q) - i : After(q, kind)[x] = q[i + x]
  BY <1>1, <1>2, <1>3
<1>6. /\ From(q, kind) \in Seq(C) /\ Len(From(q, kind)) = Len(q) - i + 1
      /\ \A x \in 1 .. Len(q) - i + 1 : From(q, kind)[x] = q[i - 1 + x]
  BY <1>1, <1>2, <1>3
<1> QED
  BY <1>1, <1>4, <1>5, <1>6 DEF i

\* What is stripped is a part of the text, and only white space is stripped.
LEMMA StripFacts ==
    ASSUME NEW q \in Seq(Char)
    PROVE  /\ Strip(q) \in Seq(Char)
           /\ \E i \in Nat : /\ i + Len(Strip(q)) <= Len(q)
                             /\ \A x \in 1 .. Len(Strip(q)) : Strip(q)[x] = q[i + x]
                             /\ \A x \in 1 .. Len(q) :
                                    q[x].kind # "nl" => x \in i + 1 .. i + Len(Strip(q))
<1> DEFINE solid == {i \in DOMAIN q : q[i].kind # "nl"}
<1>1. CASE solid = {}
  <2>1. Strip(q) = <<>>
    BY <1>1 DEF Strip
  <2> QED
    BY <1>1, <2>1
<1>2. CASE solid # {}
  <2>1. solid \in SUBSET Nat /\ solid \in SUBSET (0 .. Len(q))
    OBVIOUS
  <2> DEFINE a == Min(solid)
             b == Max(solid)
  <2>2. a \in solid /\ \A x \in solid : a <= x
    <3>1. \E x \in solid : \A y \in solid : x =< y
      BY <1>2, <2>1, LeastOfSet
    <3> QED
      BY <3>1 DEF Min
  <2>3. b \in solid /\ \A x \in solid : x <= b
    <3>1. \E x \in solid : \A y \in solid : y <= x
      <4>1. Len(q) \in Nat
        OBVIOUS
      <4> HIDE DEF solid
      <4> QED
        BY <1>2, <2>1, <4>1, GreatestOfSet
    <3>2. \E x \in solid : \A y \in solid : x >= y
      BY <2>1, <3>1
    <3>3. b \in solid /\ \A x \in solid : b >= x
      BY <3>2 DEF Max
    <3> QED
      BY <2>1, <3>3
  <2>4. Strip(q) = SubSeq(q, a, b)
    BY <1>2 DEF Strip
  <2>5. a \in 1 .. Len(q) /\ b \in 1 .. Len(q) /\ a <= b
    BY <2>2, <2>3
  <2> HIDE DEF a, b
  <2>6. /\ SubSeq(q, a, b) \in Seq(Char) /\ Len(SubSeq(q, a, b)) = b - a + 1
        /\ \A x \in 1 .. b - a + 1 : SubSeq(q, a, b)[x] = q[a - 1 + x]
    BY <2>5
  <2>7. \A x \in 1 .. Len(q) : q[x].kind # "nl" => x \in a .. b
    BY <2>2, <2>3, <2>5
  <2>8. a - 1 \in Nat /\ a - 1 + (b - a + 1) = b /\ a - 1 + 1 = a
    BY <2>5
  <2> DEFINE r == Strip(q)
             i == a - 1
  <2>9. r \in Seq(Char) /\ Len(r) = b - a + 1
    BY <2>4, <2>6
  <2>10. i + Len(r) <= Len(q) /\ \A x \in 1 .. Len(r) : r[x] = q[i + x]
    BY <2>4, <2>5, <2>6, <2>9
  <2>11. \A x \in 1 .. Len(q) : q[x].kind # "nl" => x \in i + 1 .. i + Len(r)
    BY <2>5, <2>7, <2>9
  <2> QED
    BY <2>8, <2>9, <2>10, <2>11
<1> QED
  BY <1>1, <1>2

(***************************************************************************)
(* Pieces of text in the order of the text: a piece within a range of      *)
(* places, and a chain of pieces.                                          *)
(***************************************************************************)
Rising(q) == \A x, y \in DOMAIN q : x < y => q[x].at < q[y].at

Within(q, a, b) == Rising(q) /\ \A x \in DOMAIN q : a < q[x].at /\ q[x].at <= b

Chain(pieces, a, b) ==
    /\ \A i \in DOMAIN pieces : Within(pieces[i], a, b)
    /\ \A i, j \in DOMAIN pieces : i < j =>
            \A x \in DOMAIN pieces[i], y \in DOMAIN pieces[j] : pieces[i][x].at < pieces[j][y].at

\* A chain is in the order of the text.
LEMMA ChainInOrder ==
    ASSUME NEW pieces, NEW a, NEW b, Chain(pieces, a, b)
    PROVE  InTextOrder(pieces)
  BY DEF Chain, Within, Rising, InTextOrder

\* A stretch of the text lies where it lies.
LEMMA WithinStretch ==
    ASSUME NEW t \in Seq(Char), \A i \in DOMAIN t : t[i].at = i,
           NEW q \in Seq(Char), NEW n \in Nat, n + Len(q) <= Len(t),
           \A x \in 1 .. Len(q) : q[x] = t[n + x]
    PROVE  Within(q, n, n + Len(q))
<1>1. \A x \in 1 .. Len(q) : q[x].at = n + x
  <2>1. DOMAIN t = 1 .. Len(t) /\ Len(t) \in Nat /\ Len(q) \in Nat
    OBVIOUS
  <2>2. \A x \in 1 .. Len(q) : n + x \in DOMAIN t
    BY <2>1
  <2> QED
    BY <2>2
<1>2. DOMAIN q = 1 .. Len(q) /\ Len(q) \in Nat
  OBVIOUS
<1> QED
  BY <1>1, <1>2 DEF Within, Rising

\* The places of a sequence are numbers.
LEMMA PlaceType ==
    ASSUME NEW q \in Seq(Char), NEW x \in DOMAIN q
    PROVE  q[x].at \in Nat
<1>1. q[x] \in Char
  OBVIOUS
<1> QED
  BY <1>1, ChatAssumption DEF Char

\* A part of what lies in a range lies in it.
LEMMA WithinPart ==
    ASSUME NEW q \in Seq(Char), NEW r \in Seq(Char), NEW i \in Nat, i + Len(r) <= Len(q),
           \A x \in 1 .. Len(r) : r[x] = q[i + x],
           NEW a, NEW b, Within(q, a, b)
    PROVE  Within(r, a, b)
<1>1. DOMAIN q = 1 .. Len(q) /\ DOMAIN r = 1 .. Len(r) /\ Len(q) \in Nat /\ Len(r) \in Nat
  OBVIOUS
<1>2. \A x \in 1 .. Len(r) : i + x \in 1 .. Len(q)
  BY <1>1
<1>3. \A x, y \in 1 .. Len(r) : x < y => i + x < i + y
  OBVIOUS
<1> QED
  BY <1>1, <1>2, <1>3 DEF Within, Rising

\* A range may be widened, ...
LEMMA WithinWiden ==
    ASSUME NEW q \in Seq(Char), NEW a \in Nat, NEW b \in Nat, NEW c \in Nat, NEW d \in Nat,
           c <= a, b <= d, Within(q, a, b)
    PROVE  Within(q, c, d)
  BY PlaceType DEF Within

\* ... and of two ranges that follow each other, what lies in one precedes what lies in the other.
LEMMA WithinConcat ==
    ASSUME NEW p \in Seq(Char), NEW q \in Seq(Char),
           NEW a \in Nat, NEW b \in Nat, NEW c \in Nat, a <= b, b <= c,
           Within(p, a, b), Within(q, b, c)
    PROVE  Within(p \o q, a, c)
<1> DEFINE r == p \o q
<1>1. /\ r \in Seq(Char) /\ DOMAIN r = 1 .. Len(p) + Len(q)
      /\ \A x \in 1 .. Len(p) : r[x] = p[x]
      /\ \A x \in Len(p) + 1 .. Len(p) + Len(q) : r[x] = q[x - Len(p)]
  OBVIOUS
<1>2. /\ DOMAIN p = 1 .. Len(p) /\ DOMAIN q = 1 .. Len(q) /\ Len(p) \in Nat /\ Len(q) \in Nat
  OBVIOUS
<1> HIDE DEF r
<1>3. ASSUME NEW x \in 1 .. Len(p)
      PROVE  x \in DOMAIN r /\ r[x] = p[x] /\ r[x].at \in Nat /\ a < r[x].at /\ r[x].at <= b
  BY <1>1, <1>2, PlaceType DEF Within
<1>4. ASSUME NEW x \in Len(p) + 1 .. Len(p) + Len(q)
      PROVE  /\ x - Len(p) \in DOMAIN q /\ r[x] = q[x - Len(p)] /\ r[x].at \in Nat
             /\ b < r[x].at /\ r[x].at <= c
  <2>1. x - Len(p) \in DOMAIN q /\ r[x] = q[x - Len(p)]
    BY <1>1, <1>2
  <2> QED
    BY <2>1, PlaceType DEF Within
<1>5. \A x \in DOMAIN r : x \in 1 .. Len(p) \/ x \in Len(p) + 1 .. Len(p) + Len(q)
  BY <1>1, <1>2
<1>6. ASSUME NEW x \in DOMAIN r PROVE a < r[x].at /\ r[x].at <= c
  <2>1. CASE x \in 1 .. Len(p)
    BY <1>3, <2>1
  <2>2. CASE x \in Len(p) + 1 .. Len(p) + Len(q)
    BY <1>4, <2>2
  <2> QED
    BY <1>5, <2>1, <2>2
<1>7. ASSUME NEW x \in DOMAIN r, NEW y \in DOMAIN r, x < y
      PROVE  r[x].at < r[y].at
  <2>1. CASE x \in 1 .. Len(p) /\ y \in 1 .. Len(p)
    BY <1>2, <1>3, <1>7, <2>1 DEF Within, Rising
  <2>2. CASE x \in 1 .. Len(p) /\ y \in Len(p) + 1 .. Len(p) + Len(q)
    BY <1>3, <1>4, <2>2
  <2>3. CASE x \in Len(p) + 1 .. Len(p) + Len(q) /\ y \in Len(p) + 1 .. Len(p) + Len(q)
    <3>1. x - Len(p) < y - Len(p)
      BY <1>2, <1>7, <2>3
    <3> QED
      BY <1>4, <2>3, <3>1 DEF Within, Rising
  <2>4. ~(x \in Len(p) + 1 .. Len(p) + Len(q) /\ y \in 1 .. Len(p))
    BY <1>2, <1>7
  <2> QED
    BY <1>5, <2>1, <2>2, <2>3, <2>4
<1> QED
  BY <1>6, <1>7 DEF Within, Rising, r

\* The range of a chain may be widened at its end.
LEMMA ChainWiden ==
    ASSUME NEW pieces, \A i \in DOMAIN pieces : pieces[i] \in Seq(Char),
           NEW a \in Nat, NEW b \in Nat, NEW d \in Nat, b <= d, Chain(pieces, a, b)
    PROVE  Chain(pieces, a, d)
<1>1. \A i \in DOMAIN pieces : Within(pieces[i], a, d)
  BY WithinWiden DEF Chain
<1> QED
  BY <1>1 DEF Chain

\* A piece that lies behind a chain extends it, ...
LEMMA ChainAppend ==
    ASSUME NEW c \in Seq(Seq(Char)), NEW q \in Seq(Char),
           NEW a \in Nat, NEW b \in Nat, NEW d \in Nat, a <= b, b <= d,
           Chain(c, a, b), Within(q, b, d)
    PROVE  Chain(Append(c, q), a, d)
<1> DEFINE e == Append(c, q)
<1>1. /\ DOMAIN e = 1 .. Len(c) + 1 /\ DOMAIN c = 1 .. Len(c) /\ Len(c) \in Nat
      /\ \A i \in 1 .. Len(c) : e[i] = c[i] /\ c[i] \in Seq(Char)
      /\ e[Len(c) + 1] = q
  OBVIOUS
<1> HIDE DEF e
<1>2. Chain(c, a, d) /\ Within(q, a, d)
  <2>1. \A i \in DOMAIN c : c[i] \in Seq(Char)
    BY <1>1
  <2>2. Chain(c, a, d)
    BY <2>1, ChainWiden
  <2>3. d <= d
    OBVIOUS
  <2> QED
    BY <2>2, <2>3, WithinWiden
<1>3. ASSUME NEW i \in DOMAIN e PROVE Within(e[i], a, d)
  BY <1>1, <1>2 DEF Chain
<1>4. ASSUME NEW i \in DOMAIN e, NEW j \in DOMAIN e, i < j,
             NEW x \in DOMAIN e[i], NEW y \in DOMAIN e[j]
      PROVE  e[i][x].at < e[j][y].at
  <2>1. i \in 1 .. Len(c)
    BY <1>1, <1>4
  <2>2. CASE j \in 1 .. Len(c)
    BY <1>1, <1>2, <1>4, <2>1, <2>2 DEF Chain
  <2>3. CASE j = Len(c) + 1
    <3>1. e[i][x].at \in Nat /\ e[i][x].at <= b
      BY <1>1, <2>1, PlaceType DEF Chain, Within
    <3>2. e[j][y].at \in Nat /\ b < e[j][y].at
      BY <1>1, <2>3, PlaceType DEF Within
    <3> QED
      BY <3>1, <3>2
  <2> QED
    BY <1>1, <2>2, <2>3
<1> QED
  BY <1>3, <1>4 DEF Chain, e

\* ... and the last piece of one may be left out, or lose its ends.
LEMMA ChainShorten ==
    ASSUME NEW c \in Seq(Seq(Char)), NEW q \in Seq(Char), NEW r \in Seq(Char),
           NEW i \in Nat, i + Len(r) <= Len(q), \A x \in 1 .. Len(r) : r[x] = q[i + x],
           NEW a, NEW b, Chain(Append(c, q), a, b)
    PROVE  Chain(c, a, b) /\ Chain(Append(c, r), a, b) /\ Within(q, a, b)
<1> DEFINE e == Append(c, q)
           f == Append(c, r)
           n == Len(c)
<1>1. /\ DOMAIN e = 1 .. n + 1 /\ DOMAIN f = 1 .. n + 1 /\ DOMAIN c = 1 .. n /\ n \in Nat
      /\ \A k \in 1 .. n : e[k] = c[k] /\ f[k] = c[k] /\ k \in DOMAIN e
      /\ e[n + 1] = q /\ f[n + 1] = r /\ n + 1 \in DOMAIN e
  OBVIOUS
<1>2. Chain(e, a, b)
  OBVIOUS
<1> HIDE DEF e, f, n
<1>3. Chain(c, a, b)
  <2>1. \A k \in DOMAIN c : k \in DOMAIN e /\ e[k] = c[k]
    BY <1>1
  <2> QED
    BY <1>2, <2>1 DEF Chain
<1>4. Within(q, a, b)
  BY <1>1, <1>2 DEF Chain
<1>5. Within(r, a, b)
  BY <1>4, WithinPart
<1>6. \A x \in DOMAIN r : i + x \in DOMAIN q /\ r[x] = q[i + x]
  <2>1. DOMAIN q = 1 .. Len(q) /\ DOMAIN r = 1 .. Len(r) /\ Len(q) \in Nat /\ Len(r) \in Nat
    OBVIOUS
  <2> QED
    BY <2>1
<1>7. ASSUME NEW k \in DOMAIN f, NEW j \in DOMAIN f, k < j,
             NEW x \in DOMAIN f[k], NEW y \in DOMAIN f[j]
      PROVE  f[k][x].at < f[j][y].at
  <2>1. k \in 1 .. n /\ f[k] = e[k] /\ k \in DOMAIN e /\ j \in DOMAIN e
    BY <1>1, <1>7
  <2>2. CASE j \in 1 .. n
    BY <1>1, <1>2, <1>7, <2>1, <2>2 DEF Chain
  <2>3. CASE j = n + 1
    <3>1. i + y \in DOMAIN e[j] /\ f[j][y] = e[j][i + y]
      BY <1>1, <1>6, <2>3
    <3> QED
      BY <1>2, <1>7, <2>1, <3>1 DEF Chain
  <2> QED
    BY <1>1, <2>2, <2>3
<1>8. \A k \in DOMAIN f : Within(f[k], a, b)
  BY <1>1, <1>3, <1>5 DEF Chain
<1> QED
  BY <1>3, <1>4, <1>7, <1>8 DEF Chain, f

\* What Save does to the content items.
Saved(c, q) == IF q = <<>> THEN c ELSE Append(c, q)

\* The last piece of a chain may be left out if it is empty.
LEMMA ChainSaved ==
    ASSUME NEW c \in Seq(Seq(Char)), NEW q \in Seq(Char), NEW a, NEW b, Chain(Append(c, q), a, b)
    PROVE  Saved(c, q) \in Seq(Seq(Char)) /\ Chain(Saved(c, q), a, b)
<1>1. 0 + Len(q) <= Len(q) /\ 0 \in Nat /\ \A x \in 1 .. Len(q) : q[x] = q[0 + x]
  OBVIOUS
<1>2. Chain(c, a, b)
  BY <1>1, ChainShorten
<1> QED
  BY <1>2 DEF Saved

\* An empty piece may be added.
LEMMA ChainEmpty ==
    ASSUME NEW c \in Seq(Seq(Char)), NEW a \in Nat, NEW b \in Nat, a <= b, Chain(c, a, b)
    PROVE  Chain(Append(c, <<>>), a, b)
<1>1. <<>> \in Seq(Char) /\ Within(<<>>, b, b) /\ b <= b
  BY DEF Within, Rising
<1> QED
  BY <1>1, ChainAppend

\* The last piece of a chain may grow.
LEMMA ChainGrow ==
    ASSUME NEW c \in Seq(Seq(Char)), NEW q \in Seq(Char), NEW p \in Seq(Char),
           NEW a \in Nat, NEW b \in Nat, NEW d \in Nat, a <= b, b <= d,
           Chain(Append(c, q), a, b), Within(p, b, d)
    PROVE  Chain(Append(c, q \o p), a, d)
<1> DEFINE e == Append(c, q)
           f == Append(c, q \o p)
           n == Len(c)
<1>1. /\ DOMAIN e = 1 .. n + 1 /\ DOMAIN f = 1 .. n + 1 /\ n \in Nat
      /\ \A k \in 1 .. n : e[k] = c[k] /\ f[k] = c[k] /\ k \in DOMAIN e /\ e[k] \in Seq(Char)
      /\ e[n + 1] = q /\ f[n + 1] = q \o p /\ n + 1 \in DOMAIN e
  OBVIOUS
<1>2. Chain(e, a, b)
  OBVIOUS
<1> HIDE DEF e, f, n
<1>3. Within(q, a, b) /\ Within(q \o p, a, d)
  <2>1. Within(q, a, b)
    BY <1>1, <1>2 DEF Chain
  <2> QED
    BY <2>1, WithinConcat
<1>4. \A k \in DOMAIN f : Within(f[k], a, d)
  <2>1. ASSUME NEW k \in 1 .. n PROVE Within(f[k], a, d)
    <3>1. k \in DOMAIN e /\ e[k] \in Seq(Char) /\ f[k] = e[k]
      BY <1>1
    <3>2. Within(e[k], a, b)
      BY <1>2, <3>1 DEF Chain
    <3>3. a <= a
      OBVIOUS
    <3> QED
      BY <3>1, <3>2, <3>3, WithinWiden
  <2>2. \A k \in 1 .. n + 1 : k \in 1 .. n \/ k = n + 1
    BY <1>1
  <2>3. Within(f[n + 1], a, d) /\ DOMAIN f = 1 .. n + 1
    BY <1>1, <1>3
  <2> QED
    BY <2>1, <2>2, <2>3
<1>5. ASSUME NEW k \in DOMAIN f, NEW j \in DOMAIN f, k < j,
             NEW x \in DOMAIN f[k], NEW y \in DOMAIN f[j]
      PROVE  f[k][x].at < f[j][y].at
  <2>1. k \in 1 .. n /\ f[k] = e[k] /\ k \in DOMAIN e /\ j \in DOMAIN e
    BY <1>1, <1>5
  <2>2. CASE j \in 1 .. n
    <3>1. f[j] = e[j]
      BY <1>1, <2>2
    <3> QED
      BY <1>2, <1>5, <2>1, <3>1 DEF Chain
  <2>3. CASE j = n + 1 /\ y \in 1 .. Len(q)
    <3>1. y \in DOMAIN e[j] /\ f[j][y] = e[j][y]
      BY <1>1, <2>3
    <3> QED
      BY <1>2, <1>5, <2>1, <3>1 DEF Chain
  <2>4. CASE j = n + 1 /\ y \in Len(q) + 1 .. Len(q) + Len(p)
    <3>1. y - Len(q) \in DOMAIN p /\ f[j][y] = p[y - Len(q)]
      BY <1>1, <2>4
    <3>2. f[j][y].at \in Nat /\ b < f[j][y].at
      BY <3>1, PlaceType DEF Within
    <3>3. f[k][x].at \in Nat /\ f[k][x].at <= b
      BY <1>1, <1>2, <2>1, PlaceType DEF Chain, Within
    <3> QED
      BY <3>2, <3>3
  <2>5. y \in 1 .. Len(q) \/ y \in Len(q) + 1 .. Len(q) + Len(p) \/ j # n + 1
    BY <1>1
  <2> QED
    BY <1>1, <2>2, <2>3, <2>4, <2>5
<1> QED
  BY <1>4, <1>5 DEF Chain, f

(***************************************************************************)
(* The manager: what a delta does to its content items, its buffer and its *)
(* current message, and what is sent (at most one piece).                  *)
(***************************************************************************)
Effect(s, a, content, buffer, parsing, current, shown) ==
    /\ a.manager \in Manager
    /\ a.manager.state = s.state /\ a.manager.tool = s.tool
    /\ a.manager.content_items = content
    /\ a.manager.buffer = buffer
    /\ a.manager.parsing_block = parsing
    /\ a.manager.current_message = current
    /\ a.manager.sequence_counter = s.sequence_counter + Len(shown)
    /\ \/ shown = <<>> /\ a.block = <<>>
       \/ /\ Len(shown) = 1
          /\ a.block = <<[sequence_number |-> s.sequence_counter, payload |-> shown[1]]>>

\* The block q goes on, or its line ends.
BlockEffect(s, a, content, current, q) ==
    \/ /\ ~Has(q, "nl")
       /\ Effect(s, a, content, q, TRUE, current, <<>>)
    \/ /\ Has(q, "nl") /\ Parses(Before(q, "nl"))
       /\ Effect(s, a, Saved(content, Before(q, "nl")), <<>>, FALSE, current \o After(q, "nl"),
                 <<Before(q, "nl")>>)
    \/ /\ Has(q, "nl") /\ ~Parses(Before(q, "nl"))
       /\ Effect(s, a, content, <<>>, FALSE, current \o After(q, "nl"), <<>>)

\* Saving keeps all but the content items.
LEMMA SaveFacts ==
    ASSUME NEW s \in Manager, NEW q \in Seq(Char)
    PROVE  /\ Save(s, q) \in Manager
           /\ Save(s, q).content_items = Saved(s.content_items, q)
           /\ Save(s, q).state = s.state /\ Save(s, q).tool = s.tool
           /\ Save(s, q).buffer = s.buffer
           /\ Save(s, q).parsing_block = s.parsing_block
           /\ Save(s, q).current_message = s.current_message
           /\ Save(s, q).sequence_counter = s.sequence_counter
<1> DEFINE c == Saved(s.content_items, q)
<1>1. c \in Seq(Seq(Char))
  BY DEF Saved, Manager
<1>2. Save(s, q) = [s EXCEPT !.content_items = c]
  BY DEF Save, Saved
<1> HIDE DEF c
<1>3. [s EXCEPT !.content_items = c] \in Manager
  BY <1>1 DEF Manager
<1>4. /\ [s EXCEPT !.content_items = c].content_items = c
      /\ [s EXCEPT !.content_items = c].state = s.state
      /\ [s EXCEPT !.content_items = c].tool = s.tool
      /\ [s EXCEPT !.content_items = c].buffer = s.buffer
      /\ [s EXCEPT !.content_items = c].parsing_block = s.parsing_block
      /\ [s EXCEPT !.content_items = c].current_message = s.current_message
      /\ [s EXCEPT !.content_items = c].sequence_counter = s.sequence_counter
  BY DEF Manager
<1> QED
  BY <1>2, <1>3, <1>4 DEF c

\* An answer sends its payload under the next number.
LEMMA AnswerFacts ==
    ASSUME NEW s \in Manager, NEW q
    PROVE  LET a == Answer(s, q)
           IN  Effect(s, a, s.content_items, s.buffer, s.parsing_block, s.current_message, <<q>>)
<1> DEFINE a == Answer(s, q)
           n == s.sequence_counter
<1>1. n \in Nat /\ n + 1 \in Nat
  BY DEF Manager
<1>2. Len(<<q>>) = 1 /\ <<q>>[1] = q
  OBVIOUS
<1>3. /\ a.manager = [s EXCEPT !.sequence_counter = n + 1]
      /\ a.block = <<[sequence_number |-> n, payload |-> q]>>
  BY DEF Answer
<1>4. [s EXCEPT !.sequence_counter = n + 1] \in Manager
  BY <1>1 DEF Manager
<1>5. /\ [s EXCEPT !.sequence_counter = n + 1].content_items = s.content_items
      /\ [s EXCEPT !.sequence_counter = n + 1].state = s.state
      /\ [s EXCEPT !.sequence_counter = n + 1].tool = s.tool
      /\ [s EXCEPT !.sequence_counter = n + 1].buffer = s.buffer
      /\ [s EXCEPT !.sequence_counter = n + 1].parsing_block = s.parsing_block
      /\ [s EXCEPT !.sequence_counter = n + 1].current_message = s.current_message
      /\ [s EXCEPT !.sequence_counter = n + 1].sequence_counter = n + 1
  BY DEF Manager
<1> HIDE DEF a
<1> QED
  BY <1>1, <1>2, <1>3, <1>4, <1>5 DEF Effect, a

\* Another buffer, another mode and another current message change nothing else.
Reset(s, buffer, parsing, current) ==
    [s EXCEPT !.buffer = buffer, !.parsing_block = parsing, !.current_message = current]

IsReset(s, u, buffer, parsing, current) ==
    /\ u \in Manager
    /\ u.buffer = buffer /\ u.parsing_block = parsing /\ u.current_message = current
    /\ u.state = s.state /\ u.tool = s.tool /\ u.content_items = s.content_items
    /\ u.sequence_counter = s.sequence_counter

\* So it is a manager again, and the rest is as it was.
LEMMA ResetFacts ==
    ASSUME NEW s \in Manager, NEW buffer \in Seq(Char), NEW parsing, parsing \in BOOLEAN,
           NEW current \in Seq(Char), NEW u, u = Reset(s, buffer, parsing, current)
    PROVE  IsReset(s, u, buffer, parsing, current)
  BY DEF Manager, Reset, IsReset

\* What an effect is, depends on the number, the state and the tool alone.
LEMMA EffectOf ==
    ASSUME NEW s, NEW t, NEW a, NEW content, NEW buffer, NEW parsing, NEW current, NEW shown,
           s.state = t.state, s.tool = t.tool, s.sequence_counter = t.sequence_counter,
           Effect(t, a, content, buffer, parsing, current, shown)
    PROVE  Effect(s, a, content, buffer, parsing, current, shown)
  BY DEF Effect

\* Nothing is sent.
LEMMA EmptyFacts ==
    ASSUME NEW s \in Manager
    PROVE  LET a == Empty(s)
           IN  Effect(s, a, s.content_items, s.buffer, s.parsing_block, s.current_message, <<>>)
<1>1. Len(<<>>) = 0 /\ s.sequence_counter + 0 = s.sequence_counter
  BY DEF Manager
<1> QED
  BY <1>1 DEF Effect, Empty

\* A block that goes on, from a manager that agrees with s but for what is given.
LEMMA BufferEffect ==
    ASSUME NEW s \in Manager, NEW q \in Seq(Char), NEW t \in Manager,
           t.state = s.state, t.tool = s.tool, t.sequence_counter = s.sequence_counter,
           t.parsing_block = TRUE
    PROVE  BlockEffect(s, Buffer(t, q), t.content_items, t.current_message, q)
<1> DEFINE line == Before(q, "nl")
           rest == After(q, "nl")
           a == Buffer(t, q)
           c == t.content_items
           m == t.current_message
<1>1. TRUE \in BOOLEAN /\ FALSE \in BOOLEAN /\ <<>> \in Seq(Char) /\ m \in Seq(Char)
  BY DEF Manager
<1>2. CASE ~Has(q, "nl")
  <2> DEFINE u == [t EXCEPT !.buffer = q]
  <2>1. u \in Manager /\ u.content_items = c /\ u.buffer = q /\ u.parsing_block = TRUE
        /\ u.current_message = m /\ u.state = s.state /\ u.tool = s.tool
        /\ u.sequence_counter = s.sequence_counter
    BY DEF Manager
  <2>2. a = Empty(u)
    BY <1>2 DEF Buffer
  <2> HIDE DEF u
  <2>3. Effect(u, a, c, q, TRUE, m, <<>>)
    BY <2>1, <2>2, EmptyFacts
  <2>4. Effect(s, a, c, q, TRUE, m, <<>>)
    BY <2>1, <2>3, EffectOf
  <2> QED
    BY <1>2, <2>4 DEF BlockEffect
<1>3. CASE Has(q, "nl")
  <2> DEFINE u == [t EXCEPT !.buffer = <<>>, !.parsing_block = FALSE,
                            !.current_message = m \o rest]
  <2>1. line \in Seq(Char) /\ rest \in Seq(Char) /\ m \o rest \in Seq(Char)
    BY <1>1, <1>3, Parts
  <2>2. a = IF Parses(line) THEN Answer(Save(u, line), line) ELSE Empty(u)
    BY <1>3 DEF Buffer, EndBlock
  <2>6. u = Reset(t, <<>>, FALSE, m \o rest)
    BY DEF Reset
  <2> HIDE DEF line, rest, a, m, c, u
  <2>7. IsReset(t, u, <<>>, FALSE, m \o rest)
    BY <1>1, <2>1, <2>6, ResetFacts
  <2>3. /\ u \in Manager /\ u.state = s.state /\ u.tool = s.tool /\ u.content_items = c
        /\ u.buffer = <<>> /\ u.parsing_block = FALSE /\ u.current_message = m \o rest
        /\ u.sequence_counter = s.sequence_counter
    BY <2>7 DEF IsReset, c
  <2>4. CASE ~Parses(line)
    <3>1. a = Empty(u)
      BY <2>2, <2>4
    <3>2. Effect(u, a, c, <<>>, FALSE, m \o rest, <<>>)
      BY <2>3, <3>1, EmptyFacts
    <3>3. Effect(s, a, c, <<>>, FALSE, m \o rest, <<>>)
      BY <2>3, <3>2, EffectOf
    <3> QED
      BY <1>3, <2>4, <3>3 DEF BlockEffect, line, rest, a, c, m
  <2>5. CASE Parses(line)
    <3> DEFINE v == Save(u, line)
    <3>1. /\ v \in Manager /\ v.content_items = Saved(c, line)
          /\ v.state = s.state /\ v.tool = s.tool /\ v.buffer = <<>> /\ v.parsing_block = FALSE
          /\ v.current_message = m \o rest /\ v.sequence_counter = s.sequence_counter
      BY <2>1, <2>3, SaveFacts
    <3>2. a = Answer(v, line)
      BY <2>2, <2>5
    <3> HIDE DEF v
    <3>3. Effect(v, a, Saved(c, line), <<>>, FALSE, m \o rest, <<line>>)
      BY <3>1, <3>2, AnswerFacts
    <3>4. Effect(s, a, Saved(c, line), <<>>, FALSE, m \o rest, <<line>>)
      BY <3>1, <3>3, EffectOf
    <3> QED
      BY <1>3, <2>5, <3>4 DEF BlockEffect, line, rest, a, c, m
  <2> QED
    BY <2>4, <2>5
<1> QED
  BY <1>2, <1>3

\* add_delta, branch by branch.
LEMMA AddDeltaEffect ==
    ASSUME NEW s \in Manager, NEW delta \in Seq(Char)
    PROVE  LET a == AddDelta(s, delta)
               c == s.content_items
               m == s.current_message
           IN  \/ /\ Len(s.buffer) > MaxBuffer
                  /\ Effect(s, a, Saved(c, s.buffer), <<>>, FALSE, m, <<s.buffer>>)
               \/ /\ ~(Len(s.buffer) > MaxBuffer) /\ s.parsing_block
                  /\ BlockEffect(s, a, c, m, s.buffer \o delta)
               \/ /\ ~(Len(s.buffer) > MaxBuffer) /\ ~s.parsing_block
                  /\ Has(delta, "open") /\ Before(delta, "open") = <<>>
                  /\ BlockEffect(s, a, Saved(c, m), <<>>, From(delta, "open"))
               \/ /\ ~(Len(s.buffer) > MaxBuffer) /\ ~s.parsing_block
                  /\ Has(delta, "open") /\ Before(delta, "open") # <<>>
                  /\ Effect(s, a, Saved(c, Before(delta, "open")), From(delta, "open"), TRUE, <<>>,
                            <<Before(delta, "open")>>)
               \/ /\ ~(Len(s.buffer) > MaxBuffer) /\ ~s.parsing_block
                  /\ ~Has(delta, "open")
                  /\ Effect(s, a, c, s.buffer, FALSE, m \o delta, <<delta>>)
<1> DEFINE a == AddDelta(s, delta)
           c == s.content_items
           m == s.current_message
           b == s.buffer
           prefix == Before(delta, "open")
           post == From(delta, "open")
<1>1. /\ c \in Seq(Seq(Char)) /\ m \in Seq(Char) /\ b \in Seq(Char) /\ s.parsing_block \in BOOLEAN
      /\ TRUE \in BOOLEAN /\ FALSE \in BOOLEAN /\ <<>> \in Seq(Char)
  BY DEF Manager
<1>2. CASE Len(b) > MaxBuffer
  <2> DEFINE v == Save(s, b)
             u == [v EXCEPT !.buffer = <<>>, !.parsing_block = FALSE]
  <2>1. a = Answer(u, b)
    BY <1>2 DEF AddDelta, FlushBuffer
  <2>2. /\ v \in Manager /\ v.content_items = Saved(c, b) /\ v.current_message = m
        /\ v.state = s.state /\ v.tool = s.tool /\ v.sequence_counter = s.sequence_counter
    BY <1>1, SaveFacts
  <2> HIDE DEF v
  <2>3. /\ u \in Manager /\ u.content_items = Saved(c, b) /\ u.current_message = m
        /\ u.state = s.state /\ u.tool = s.tool /\ u.sequence_counter = s.sequence_counter
        /\ u.buffer = <<>> /\ u.parsing_block = FALSE
    <3>1. u = Reset(v, <<>>, FALSE, m)
      BY <2>2 DEF Manager, Reset
    <3> HIDE DEF u, b, m, c
    <3>2. IsReset(v, u, <<>>, FALSE, m)
      BY <1>1, <2>2, <3>1, ResetFacts
    <3> QED
      BY <2>2, <3>2 DEF IsReset
  <2> HIDE DEF u
  <2>4. Effect(u, a, Saved(c, b), <<>>, FALSE, m, <<b>>)
    BY <2>1, <2>3, AnswerFacts
  <2>5. Effect(s, a, Saved(c, b), <<>>, FALSE, m, <<b>>)
    BY <2>3, <2>4, EffectOf
  <2> QED
    BY <1>2, <2>5
<1>3. CASE ~(Len(b) > MaxBuffer) /\ s.parsing_block
  <2>1. a = Buffer(s, b \o delta)
    BY <1>3 DEF AddDelta
  <2>2. b \o delta \in Seq(Char) /\ s.parsing_block = TRUE
    BY <1>1, <1>3
  <2>3. BlockEffect(s, a, c, m, b \o delta)
    BY <2>1, <2>2, BufferEffect
  <2> QED
    BY <1>3, <2>3
<1>4. CASE ~(Len(b) > MaxBuffer) /\ ~s.parsing_block /\ Has(delta, "open")
  <2> DEFINE t == [s EXCEPT !.parsing_block = TRUE]
  <2>1. a = IF prefix = <<>> THEN Buffer(KeepMessage(t), post)
            ELSE Answer([Save(t, prefix) EXCEPT !.buffer = post, !.current_message = <<>>], prefix)
    BY <1>4 DEF AddDelta, BeginBlock
  <2>2. prefix \in Seq(Char) /\ post \in Seq(Char)
    BY <1>4, Parts
  <2>3. /\ t \in Manager /\ t.content_items = c /\ t.current_message = m /\ t.buffer = b
        /\ t.state = s.state /\ t.tool = s.tool /\ t.sequence_counter = s.sequence_counter
        /\ t.parsing_block = TRUE
    BY <1>1 DEF Manager
  <2> HIDE DEF t, a, c, m, b, prefix, post
  <2>4. CASE prefix = <<>>
    <3> DEFINE v == Save(t, m)
               u == KeepMessage(t)
    <3>1. /\ v \in Manager /\ v.content_items = Saved(c, m) /\ v.buffer = b
          /\ v.state = s.state /\ v.tool = s.tool /\ v.sequence_counter = s.sequence_counter
          /\ v.parsing_block = TRUE
      BY <1>1, <2>3, SaveFacts
    <3>2. u = [v EXCEPT !.current_message = <<>>]
      BY <2>3 DEF KeepMessage
    <3> HIDE DEF v, u
    <3>3. u = Reset(v, b, TRUE, <<>>)
      BY <3>1, <3>2 DEF Manager, Reset
    <3>7. IsReset(v, u, b, TRUE, <<>>)
      BY <1>1, <3>1, <3>3, ResetFacts
    <3>4. /\ u \in Manager /\ u.content_items = Saved(c, m) /\ u.current_message = <<>>
          /\ u.state = s.state /\ u.tool = s.tool /\ u.sequence_counter = s.sequence_counter
          /\ u.parsing_block = TRUE
      BY <3>1, <3>7 DEF IsReset
    <3>5. a = Buffer(u, post)
      BY <2>1, <2>4 DEF u
    <3>6. BlockEffect(s, a, Saved(c, m), <<>>, post)
      BY <2>2, <3>4, <3>5, BufferEffect
    <3> QED
      BY <1>4, <2>4, <3>6 DEF a, c, m, b, prefix, post
  <2>5. CASE prefix # <<>>
    <3> DEFINE v == Save(t, prefix)
               u == [v EXCEPT !.buffer = post, !.current_message = <<>>]
    <3>1. /\ v \in Manager /\ v.content_items = Saved(c, prefix)
          /\ v.state = s.state /\ v.tool = s.tool /\ v.sequence_counter = s.sequence_counter
          /\ v.parsing_block = TRUE
      BY <2>2, <2>3, SaveFacts
    <3>2. a = Answer(u, prefix)
      BY <2>1, <2>5
    <3> HIDE DEF v
    <3>3. u = Reset(v, post, TRUE, <<>>)
      BY <3>1 DEF Manager, Reset
    <3>4. /\ u \in Manager /\ u.content_items = Saved(c, prefix) /\ u.current_message = <<>>
          /\ u.state = s.state /\ u.tool = s.tool /\ u.sequence_counter = s.sequence_counter
          /\ u.parsing_block = TRUE /\ u.buffer = post
      <4> HIDE DEF u
      <4>1. IsReset(v, u, post, TRUE, <<>>)
        BY <1>1, <2>2, <3>1, <3>3, ResetFacts
      <4> QED
        BY <3>1, <4>1 DEF IsReset
    <3> HIDE DEF u
    <3>5. Effect(u, a, Saved(c, prefix), post, TRUE, <<>>, <<prefix>>)
      BY <3>2, <3>4, AnswerFacts
    <3>6. Effect(s, a, Saved(c, prefix), post, TRUE, <<>>, <<prefix>>)
      BY <3>4, <3>5, EffectOf
    <3> QED
      BY <1>4, <2>5, <3>6 DEF a, c, m, b, prefix, post
  <2> QED
    BY <2>4, <2>5
<1>5. CASE ~(Len(b) > MaxBuffer) /\ ~s.parsing_block /\ ~Has(delta, "open")
  <2> DEFINE u == [s EXCEPT !.current_message = m \o delta]
  <2>1. a = Answer(u, delta)
    BY <1>5 DEF AddDelta, PassThrough
  <2>2. m \o delta \in Seq(Char) /\ s.parsing_block = FALSE
    BY <1>1, <1>5
  <2>3. u = Reset(s, b, FALSE, m \o delta)
    BY <2>2 DEF Manager, Reset
  <2>4. /\ u \in Manager /\ u.content_items = c /\ u.current_message = m \o delta
        /\ u.state = s.state /\ u.tool = s.tool /\ u.sequence_counter = s.sequence_counter
        /\ u.parsing_block = FALSE /\ u.buffer = b
    <3> HIDE DEF u, b, m
    <3>1. IsReset(s, u, b, FALSE, m \o delta)
      BY <1>1, <2>2, <2>3, ResetFacts
    <3> QED
      BY <3>1 DEF IsReset
  <2> HIDE DEF u
  <2>5. Effect(u, a, c, b, FALSE, m \o delta, <<delta>>)
    BY <2>1, <2>4, AnswerFacts
  <2>6. Effect(s, a, c, b, FALSE, m \o delta, <<delta>>)
    BY <2>4, <2>5, EffectOf
  <2> QED
    BY <1>5, <2>6
<1> QED
  BY <1>2, <1>3, <1>4, <1>5

(***************************************************************************)
(* The text: what is a stretch of it, how far it is settled (neither       *)
(* pending in the buffer nor to come), and what the manager holds.         *)
(***************************************************************************)
Numbered(t) == \A i \in DOMAIN t : t[i].at = i

Stretch(t, n, q) ==
    /\ q \in Seq(Char) /\ n \in Nat /\ n + Len(q) <= Len(t)
    /\ \A x \in 1 .. Len(q) : q[x] = t[n + x]

Settled(t, s) == Len(t) - Len(s.buffer)

\* The buffer is the end of the text, and the rest of this depth is kept in its order.
Standing(t, b, s) ==
    /\ Stretch(t, Settled(t, s), s.buffer)
    /\ b <= Settled(t, s)
    /\ \/ /\ s.parsing_block /\ s.current_message = <<>>
          /\ s.buffer # <<>> /\ s.buffer[1].kind = "open"
       \/ ~s.parsing_block /\ s.buffer = <<>>
    /\ Chain(Append(s.content_items, s.current_message), b, Settled(t, s))

\* What an answer sends lies where the text was not settled before and is now.
Answered(s, p, u, b, a) ==
    /\ a.manager \in Manager
    /\ a.manager.state = s.state /\ a.manager.tool = s.tool
    /\ Standing(u, b, a.manager)
    /\ p <= Settled(u, a.manager)
    /\ \/ a.block = <<>> /\ a.manager.sequence_counter = s.sequence_counter
       \/ /\ a.manager.sequence_counter = s.sequence_counter + 1
          /\ \E q \in Seq(Char) :
                /\ a.block = <<[sequence_number |-> s.sequence_counter, payload |-> q]>>
                /\ Within(q, p, Settled(u, a.manager))

\* A stretch lies where it lies, ...
LEMMA StretchWithin ==
    ASSUME NEW t \in Seq(Char), Numbered(t), NEW n, NEW q, Stretch(t, n, q)
    PROVE  Within(q, n, n + Len(q))
  BY WithinStretch DEF Numbered, Stretch

\* ... and so do its parts.
LEMMA StretchParts ==
    ASSUME NEW t \in Seq(Char), NEW n, NEW q, Stretch(t, n, q), NEW kind, Has(q, kind)
    PROVE  \E i \in 1 .. Len(q) :
              /\ q[i].kind = kind /\ \A j \in 1 .. i - 1 : q[j].kind # kind
              /\ Stretch(t, n, Before(q, kind)) /\ Len(Before(q, kind)) = i - 1
              /\ Stretch(t, n + i, After(q, kind)) /\ Len(After(q, kind)) = Len(q) - i
              /\ Stretch(t, n + (i - 1), From(q, kind)) /\ Len(From(q, kind)) = Len(q) - i + 1
              /\ From(q, kind)[1] = q[i]
<1> DEFINE i == SplitAt(q, kind)
           r == Before(q, kind)
           v == After(q, kind)
           w == From(q, kind)
<1>1. q \in Seq(Char) /\ n \in Nat /\ n + Len(q) <= Len(t) /\ Len(q) \in Nat /\ Len(t) \in Nat
      /\ \A x \in 1 .. Len(q) : q[x] = t[n + x]
  BY DEF Stretch
<1>2. /\ i \in 1 .. Len(q) /\ q[i].kind = kind
      /\ \A j \in 1 .. i - 1 : q[j].kind # kind
      /\ r \in Seq(Char) /\ Len(r) = i - 1 /\ \A x \in 1 .. i - 1 : r[x] = q[x]
      /\ v \in Seq(Char) /\ Len(v) = Len(q) - i /\ \A x \in 1 .. Len(q) - i : v[x] = q[i + x]
      /\ w \in Seq(Char) /\ Len(w) = Len(q) - i + 1
      /\ \A x \in 1 .. Len(q) - i + 1 : w[x] = q[i - 1 + x]
  BY <1>1, Parts, SMTT(30)
<1> HIDE DEF i, r, v, w
<1>3. Stretch(t, n, r)
  BY <1>1, <1>2 DEF Stretch
<1>4. Stretch(t, n + i, v)
  <2>1. n + i \in Nat /\ n + i + Len(v) <= Len(t)
    BY <1>1, <1>2
  <2>2. ASSUME NEW x \in 1 .. Len(v) PROVE v[x] = t[n + i + x]
    <3>1. i + x \in 1 .. Len(q) /\ n + (i + x) = n + i + x
      <4>1. x \in Nat /\ 1 <= x /\ x <= Len(q) - i
        BY <1>1, <1>2
      <4>2. i \in Nat /\ Len(q) \in Nat /\ n \in Nat
        BY <1>1, <1>2
      <4> QED
        BY <4>1, <4>2
    <3> QED
      BY <1>1, <1>2, <3>1
  <2> QED
    BY <1>2, <2>1, <2>2 DEF Stretch
<1>5. Stretch(t, n + (i - 1), w)
  <2>1. n + (i - 1) \in Nat /\ n + (i - 1) + Len(w) <= Len(t)
    BY <1>1, <1>2
  <2>2. ASSUME NEW x \in 1 .. Len(w) PROVE w[x] = t[n + (i - 1) + x]
    <3>1. i - 1 + x \in 1 .. Len(q) /\ n + (i - 1 + x) = n + (i - 1) + x
      BY <1>1, <1>2
    <3> QED
      BY <1>1, <1>2, <3>1
  <2> QED
    BY <1>2, <2>1, <2>2 DEF Stretch
<1>6. w[1] = q[i]
  <2>1. 1 \in 1 .. Len(q) - i + 1 /\ i - 1 + 1 = i
    BY <1>1, <1>2
  <2> QED
    BY <1>2, <2>1
<1> QED
  BY <1>2, <1>3, <1>4, <1>5, <1>6 DEF r, v, w

\* A stretch of a text is one of the longer text, and the end of the old with the new one is one.
LEMMA StretchLonger ==
    ASSUME NEW t \in Seq(Char), NEW d \in Seq(Char), NEW n, NEW q, Stretch(t, n, q)
    PROVE  /\ Stretch(t \o d, n, q)
           /\ Stretch(t \o d, Len(t), d)
           /\ n + Len(q) = Len(t) => Stretch(t \o d, n, q \o d)
<1> DEFINE u == t \o d
           r == q \o d
<1>1. q \in Seq(Char) /\ n \in Nat /\ n + Len(q) <= Len(t) /\ Len(q) \in Nat
      /\ \A x \in 1 .. Len(q) : q[x] = t[n + x]
  BY DEF Stretch
<1>2. /\ u \in Seq(Char) /\ Len(u) = Len(t) + Len(d) /\ Len(t) \in Nat /\ Len(d) \in Nat
      /\ \A x \in 1 .. Len(t) : u[x] = t[x]
      /\ \A x \in 1 .. Len(d) : u[Len(t) + x] = d[x]
  OBVIOUS
<1>3. /\ r \in Seq(Char) /\ Len(r) = Len(q) + Len(d)
      /\ \A x \in 1 .. Len(q) : r[x] = q[x]
      /\ \A x \in Len(q) + 1 .. Len(q) + Len(d) : r[x] = d[x - Len(q)]
  BY <1>1
<1> HIDE DEF u, r
<1>4. Stretch(u, n, q)
  <2>1. \A x \in 1 .. Len(q) : n + x \in 1 .. Len(t)
    BY <1>1, <1>2
  <2>2. n + Len(q) <= Len(u)
    BY <1>1, <1>2
  <2> QED
    BY <1>1, <1>2, <2>1, <2>2 DEF Stretch
<1>5. Stretch(u, Len(t), d)
  BY <1>2 DEF Stretch
<1>6. ASSUME n + Len(q) = Len(t) PROVE Stretch(u, n, r)
  <2>1. ASSUME NEW x \in 1 .. Len(r) PROVE r[x] = u[n + x]
    <3>1. CASE x \in 1 .. Len(q)
      <4>1. n + x \in 1 .. Len(t)
        BY <1>1, <1>2, <3>1
      <4> QED
        BY <1>1, <1>2, <1>3, <3>1, <4>1
    <3>2. CASE x \in Len(q) + 1 .. Len(q) + Len(d)
      <4>1. x - Len(q) \in 1 .. Len(d) /\ Len(t) + (x - Len(q)) = n + x
        <5>1. x \in Int /\ Len(q) < x /\ x <= Len(q) + Len(d)
          BY <1>1, <1>2, <3>2
        <5>2. Len(q) \in Nat /\ n \in Nat /\ Len(d) \in Nat /\ Len(t) \in Nat
          BY <1>1, <1>2
        <5> QED
          BY <1>6, <5>1, <5>2
      <4> QED
        BY <1>2, <1>3, <3>2, <4>1
    <3> QED
      BY <1>1, <1>2, <1>3, <3>1, <3>2
  <2> QED
    BY <1>1, <1>2, <1>3, <1>6, <2>1 DEF Stretch
<1> QED
  BY <1>4, <1>5, <1>6 DEF u, r

\* A block that goes on or ends keeps the order.
LEMMA BlockOrder ==
    ASSUME NEW u \in Seq(Char), Numbered(u), NEW b \in Nat, NEW s \in Manager, NEW a,
           NEW p \in Nat, NEW n \in Nat, b <= p, p <= n,
           NEW q, Stretch(u, n, q), n + Len(q) = Len(u), q # <<>>, q[1].kind = "open",
           NEW c \in Seq(Seq(Char)), Chain(c, b, n), BlockEffect(s, a, c, <<>>, q)
    PROVE  Answered(s, p, u, b, a)
<1>1. Len(u) \in Nat /\ Len(q) \in Nat /\ b <= n /\ q \in Seq(Char) /\ <<>> \in Seq(Char)
      /\ Len(<<>>) = 0 /\ s.sequence_counter \in Nat
  BY DEF Stretch, Manager
<1>2. CASE ~Has(q, "nl")
  <2>1. Effect(s, a, c, q, TRUE, <<>>, <<>>)
    BY <1>2 DEF BlockEffect
  <2>2. Settled(u, a.manager) = n
    BY <1>1, <2>1 DEF Settled, Effect
  <2>3. Chain(Append(c, <<>>), b, n)
    BY <1>1, ChainEmpty
  <2>4. Standing(u, b, a.manager)
    BY <1>1, <2>1, <2>2, <2>3 DEF Standing, Effect
  <2>5. a.block = <<>> /\ a.manager.sequence_counter = s.sequence_counter
    BY <1>1, <2>1 DEF Effect
  <2> QED
    BY <1>1, <2>1, <2>2, <2>4, <2>5 DEF Answered, Effect
<1>3. CASE Has(q, "nl")
  <2> DEFINE line == Before(q, "nl")
             rest == After(q, "nl")
  <2>1. PICK i \in 1 .. Len(q) :
            /\ Stretch(u, n, line) /\ Len(line) = i - 1
            /\ Stretch(u, n + i, rest) /\ Len(rest) = Len(q) - i
    BY <1>3, StretchParts
  <2> DEFINE e == n + (i - 1)
             f == n + i
  <2>2. e \in Nat /\ f \in Nat /\ n <= e /\ e <= f /\ f <= Len(u) /\ f + Len(rest) = Len(u)
        /\ e = n + Len(line) /\ line \in Seq(Char) /\ rest \in Seq(Char) /\ b <= e /\ b <= f
        /\ Len(u) <= Len(u) /\ b <= Len(u) /\ p <= Len(u) /\ e <= Len(u)
    <3>1. line \in Seq(Char) /\ rest \in Seq(Char)
      BY <2>1 DEF Stretch
    <3>2. i \in Nat /\ 1 <= i /\ i <= Len(q) /\ Len(q) \in Nat /\ Len(u) \in Nat
      BY <1>1
    <3> HIDE DEF line, rest
    <3>3. Len(line) = i - 1 /\ Len(rest) = Len(q) - i
      BY <2>1
    <3>4. e \in Nat /\ f \in Nat /\ n <= e /\ e <= f /\ f <= Len(u)
      BY <3>2
    <3>5. f + Len(rest) = Len(u) /\ e = n + Len(line)
      <4>1. n + i + (Len(q) - i) = Len(u)
        <5>1. \A k, l \in Nat, j \in Nat : k + j + (l - j) = k + l
          OBVIOUS
        <5>2. n \in Nat /\ n + Len(q) = Len(u)
          OBVIOUS
        <5> QED
          BY <3>2, <5>1, <5>2
      <4> QED
        BY <3>3, <4>1
    <3> HIDE DEF e, f
    <3>6. b <= e /\ b <= f /\ b <= Len(u) /\ p <= Len(u) /\ e <= Len(u) /\ Len(u) <= Len(u)
      BY <3>2, <3>4
    <3> QED
      BY <3>1, <3>4, <3>5, <3>6
  <2> HIDE DEF line, rest, e
  <2>3. Within(line, n, e) /\ Within(rest, f, Len(u))
    BY <2>1, <2>2, StretchWithin
  <2> HIDE DEF f
  <2>4. Chain(Append(Saved(c, line), rest), b, Len(u)) /\ Chain(Append(c, rest), b, Len(u))
        /\ Saved(c, line) \in Seq(Seq(Char))
    <3>1. Chain(Append(c, line), b, e)
      BY <1>1, <2>2, <2>3, ChainAppend
    <3>2. Saved(c, line) \in Seq(Seq(Char)) /\ Chain(Saved(c, line), b, e)
      BY <2>2, <3>1, ChainSaved
    <3>3. Chain(Saved(c, line), b, f) /\ Chain(c, b, f)
      <4>1. \A k \in DOMAIN c : c[k] \in Seq(Char)
        OBVIOUS
      <4>2. \A k \in DOMAIN Saved(c, line) : Saved(c, line)[k] \in Seq(Char)
        BY <3>2
      <4>3. n <= f
        BY <2>2
      <4> QED
        BY <2>2, <3>2, <4>1, <4>2, <4>3, ChainWiden
    <3>4. rest \in Seq(Char) /\ f \in Nat /\ Len(u) \in Nat /\ b <= f /\ f <= Len(u)
          /\ Within(rest, f, Len(u))
      BY <2>1, <2>2, <2>3 DEF Stretch
    <3> QED
      BY <3>2, <3>3, <3>4, ChainAppend
  <2>5. Within(line, p, Len(u))
    <3>1. p <= n /\ e <= Len(u)
      BY <2>2
    <3> QED
      BY <1>1, <2>2, <2>3, <3>1, WithinWiden
  <2>6. ASSUME NEW k \in Seq(Seq(Char)), NEW shown, Effect(s, a, k, <<>>, FALSE, rest, shown),
               Chain(Append(k, rest), b, Len(u))
        PROVE  Settled(u, a.manager) = Len(u) /\ Standing(u, b, a.manager)
    <3>1. Settled(u, a.manager) = Len(u)
      BY <1>1, <2>6 DEF Settled, Effect
    <3>2. Stretch(u, Len(u), <<>>)
      BY <1>1 DEF Stretch
    <3> QED
      BY <2>2, <2>6, <3>1, <3>2 DEF Standing, Effect
  <2>7. <<>> \o rest = rest
    BY <2>2
  <2>8. CASE Parses(line)
    <3>1. Effect(s, a, Saved(c, line), <<>>, FALSE, rest, <<line>>)
      BY <1>3, <2>7, <2>8 DEF BlockEffect, line, rest
    <3>2. Settled(u, a.manager) = Len(u) /\ Standing(u, b, a.manager)
      BY <2>4, <2>6, <3>1
    <3>3. Len(<<line>>) = 1 /\ <<line>>[1] = line /\ <<line>> # <<>>
      OBVIOUS
    <3>4. /\ a.block = <<[sequence_number |-> s.sequence_counter, payload |-> line]>>
          /\ a.manager.sequence_counter = s.sequence_counter + 1
          /\ a.manager \in Manager /\ a.manager.state = s.state /\ a.manager.tool = s.tool
      BY <3>1, <3>3 DEF Effect
    <3> QED
      BY <2>2, <2>5, <3>2, <3>4 DEF Answered
  <2>9. CASE ~Parses(line)
    <3>1. Effect(s, a, c, <<>>, FALSE, rest, <<>>)
      BY <1>3, <2>7, <2>9 DEF BlockEffect, line, rest
    <3>2. Settled(u, a.manager) = Len(u) /\ Standing(u, b, a.manager)
      BY <2>4, <2>6, <3>1
    <3>3. /\ a.block = <<>> /\ a.manager.sequence_counter = s.sequence_counter
          /\ a.manager \in Manager /\ a.manager.state = s.state /\ a.manager.tool = s.tool
      BY <1>1, <3>1 DEF Effect
    <3> QED
      BY <2>2, <3>2, <3>3 DEF Answered
  <2> QED
    BY <2>8, <2>9
<1> QED
  BY <1>2, <1>3

\* A piece that is sent and leaves no more than a block begun keeps the order.
LEMMA PieceOrder ==
    ASSUME NEW u \in Seq(Char), NEW b \in Nat, NEW s \in Manager, NEW a,
           NEW p \in Nat, NEW n \in Nat, b <= n, p <= n,
           NEW buffer, Stretch(u, n, buffer), n + Len(buffer) = Len(u),
           NEW content, NEW parsing, NEW current, NEW q \in Seq(Char),
           Effect(s, a, content, buffer, parsing, current, <<q>>),
           \/ parsing /\ current = <<>> /\ buffer # <<>> /\ buffer[1].kind = "open"
           \/ ~parsing /\ buffer = <<>>,
           Chain(Append(content, current), b, n), Within(q, p, n)
    PROVE  Answered(s, p, u, b, a)
<1>1. Len(<<q>>) = 1 /\ <<q>>[1] = q /\ <<q>> # <<>> /\ Len(buffer) \in Nat /\ Len(u) \in Nat
      /\ s.sequence_counter \in Nat
  BY DEF Stretch, Manager
<1>2. /\ a.block = <<[sequence_number |-> s.sequence_counter, payload |-> q]>>
      /\ a.manager.sequence_counter = s.sequence_counter + 1
      /\ a.manager \in Manager /\ a.manager.state = s.state /\ a.manager.tool = s.tool
      /\ a.manager.buffer = buffer /\ a.manager.content_items = content
      /\ a.manager.current_message = current
  BY <1>1 DEF Effect
<1>3. (parsing /\ a.manager.parsing_block) \/ (~parsing /\ ~a.manager.parsing_block)
  BY DEF Effect
<1>4. Settled(u, a.manager) = n
  <2>1. \A k, l \in Nat : k + l - l = k
    OBVIOUS
  <2> QED
    BY <1>1, <1>2, <2>1 DEF Settled
<1>5. Standing(u, b, a.manager)
  BY <1>2, <1>3, <1>4 DEF Standing
<1> QED
  BY <1>2, <1>4, <1>5 DEF Answered

\* A delta keeps the order.
LEMMA DeltaOrder ==
    ASSUME NEW t \in Seq(Char), NEW d \in Seq(Char), Numbered(t \o d),
           NEW b \in Nat, NEW s \in Manager, Standing(t, b, s)
    PROVE  Answered(s, Settled(t, s), t \o d, b, AddDelta(s, d))
<1> DEFINE a == AddDelta(s, d)
           u == t \o d
           q == s.buffer
           c == s.content_items
           m == s.current_message
           p == Settled(t, s)
           L == Len(t)
<1>1. /\ c \in Seq(Seq(Char)) /\ m \in Seq(Char) /\ q \in Seq(Char) /\ s.parsing_block \in BOOLEAN
      /\ <<>> \in Seq(Char) /\ Len(<<>>) = 0
  BY DEF Manager
<1>2. /\ Stretch(t, p, q) /\ b <= p /\ Chain(Append(c, m), b, p)
      /\ \/ s.parsing_block /\ m = <<>> /\ q # <<>> /\ q[1].kind = "open"
         \/ ~s.parsing_block /\ q = <<>>
  BY DEF Standing
<1>3. /\ L \in Nat /\ Len(d) \in Nat /\ Len(q) \in Nat /\ u \in Seq(Char)
      /\ Len(u) = L + Len(d) /\ Len(u) \in Nat
  BY <1>1
<1>4. p \in Nat /\ p + Len(q) = L /\ p = L - Len(q)
  <2>1. p \in Nat
    BY <1>2 DEF Stretch
  <2>2. p = L - Len(q)
    BY DEF Settled
  <2> HIDE DEF p, L
  <2> QED
    BY <1>3, <2>1, <2>2
<1>5. Stretch(u, p, q) /\ Stretch(u, L, d) /\ Stretch(u, p, q \o d)
  BY <1>2, <1>4, StretchLonger
<1>6. Numbered(u)
  BY DEF u
<1> SUFFICES Answered(s, p, u, b, a)
  BY DEF a, u, p
<1> HIDE DEF a, u, p, L, q, c, m
<1>7. /\ p <= L /\ b <= L /\ L <= Len(u) /\ p <= Len(u) /\ b <= Len(u) /\ L + Len(d) = Len(u)
      /\ b <= p /\ Len(u) <= Len(u) /\ p <= p /\ L <= L /\ Len(u) + 0 = Len(u)
  <2>1. b <= p
    BY <1>2
  <2> QED
    BY <1>3, <1>4, <2>1
<1>8. Stretch(u, Len(u), <<>>)
  BY <1>1, <1>3 DEF Stretch
<1>9. Within(q, p, L) /\ Within(d, L, Len(u))
  <2>1. Within(q, p, p + Len(q)) /\ Within(d, L, L + Len(d))
    BY <1>3, <1>5, <1>6, StretchWithin
  <2> QED
    BY <1>4, <1>7, <2>1
<1>10. Chain(c, b, p) /\ Saved(c, m) \in Seq(Seq(Char)) /\ Chain(Saved(c, m), b, p)
  <2>1. 0 + Len(m) <= Len(m) /\ 0 \in Nat /\ \A x \in 1 .. Len(m) : m[x] = m[0 + x]
    BY <1>1
  <2>2. Chain(c, b, p)
    BY <1>1, <1>2, <2>1, ChainShorten
  <2> QED
    BY <1>1, <1>2, <2>2, ChainSaved
<1>11. CASE /\ Len(q) > MaxBuffer
            /\ Effect(s, a, Saved(c, q), <<>>, FALSE, m, <<q>>)
  <2>1. q # <<>> /\ m = <<>>
    BY <1>1, <1>2, <1>11, BufferAssumption
  <2>2. Chain(Append(c, q), b, L)
    BY <1>1, <1>4, <1>3, <1>7, <1>9, <1>10, ChainAppend
  <2>3. Saved(c, q) = Append(c, q) /\ Append(c, q) \in Seq(Seq(Char))
    BY <1>1, <2>1 DEF Saved
  <2>4. Chain(Append(c, q), b, Len(u))
    <3>1. \A k \in DOMAIN Append(c, q) : Append(c, q)[k] \in Seq(Char)
      BY <2>3
    <3> QED
      BY <1>3, <1>7, <2>2, <3>1, ChainWiden
  <2>5. Chain(Append(Saved(c, q), m), b, Len(u))
    BY <1>3, <1>7, <2>1, <2>3, <2>4, ChainEmpty
  <2>6. Within(q, p, Len(u))
    BY <1>1, <1>3, <1>4, <1>7, <1>9, WithinWiden
  <2> QED
    BY <1>1, <1>3, <1>4, <1>7, <1>8, <1>11, <2>5, <2>6, PieceOrder
<1>12. CASE s.parsing_block /\ BlockEffect(s, a, c, m, q \o d)
  <2>1. m = <<>> /\ q # <<>> /\ q[1].kind = "open"
    BY <1>2, <1>12
  <2>2. /\ q \o d # <<>> /\ (q \o d)[1] = q[1] /\ Len(q \o d) = Len(q) + Len(d)
    BY <1>1, <2>1
  <2>3. p + Len(q \o d) = Len(u)
    <3>1. \A j, k, l \in Nat : j + (k + l) = (j + k) + l
      OBVIOUS
    <3> QED
      BY <1>3, <1>4, <2>2, <3>1
  <2> DEFINE r == q \o d
  <2>4. Stretch(u, p, r) /\ p + Len(r) = Len(u) /\ r # <<>> /\ r[1].kind = "open"
        /\ BlockEffect(s, a, c, <<>>, r)
    BY <1>5, <1>12, <2>1, <2>2, <2>3
  <2> HIDE DEF r
  <2>5. /\ u \in Seq(Char) /\ p \in Nat /\ Numbered(u) /\ c \in Seq(Seq(Char))
        /\ b <= p /\ p <= p /\ Chain(c, b, p)
    BY <1>1, <1>3, <1>4, <1>6, <1>7, <1>10
  <2> QED
    BY <2>4, <2>5, BlockOrder
<1>13. CASE /\ ~s.parsing_block /\ Has(d, "open") /\ Before(d, "open") = <<>>
            /\ BlockEffect(s, a, Saved(c, m), <<>>, From(d, "open"))
  <2> DEFINE r == From(d, "open")
  <2>1. q = <<>> /\ p = L
    <3>1. q = <<>>
      BY <1>2, <1>13
    <3> QED
      BY <1>1, <1>3, <1>4, <3>1
  <2>2. PICK i \in 1 .. Len(d) :
            /\ d[i].kind = "open" /\ Len(Before(d, "open")) = i - 1
            /\ Stretch(u, L + (i - 1), r) /\ Len(r) = Len(d) - i + 1 /\ r[1] = d[i]
    <3>1. u \in Seq(Char) /\ Has(d, "open") /\ Stretch(u, L, d)
      BY <1>3, <1>5, <1>13
    <3>2. \E i \in 1 .. Len(d) :
            /\ d[i].kind = "open" /\ \A j \in 1 .. i - 1 : d[j].kind # "open"
            /\ Len(Before(d, "open")) = i - 1
            /\ Stretch(u, L + (i - 1), r) /\ Len(r) = Len(d) - i + 1 /\ r[1] = d[i]
      BY <3>1, StretchParts
    <3> QED
      BY <3>2
  <2>3. i = 1
    BY <1>1, <1>13, <2>2
  <2> HIDE DEF r
  <2>4. Len(r) = Len(d) /\ L + (i - 1) = L /\ Len(d) >= 1
    BY <1>3, <2>2, <2>3
  <2>5. Stretch(u, L, r) /\ L + Len(r) = Len(u) /\ r # <<>> /\ r[1].kind = "open"
    BY <1>1, <1>7, <2>2, <2>3, <2>4
  <2>6. BlockEffect(s, a, Saved(c, m), <<>>, r)
    BY <1>13 DEF r
  <2> QED
    BY <1>3, <1>4, <1>6, <1>7, <1>10, <2>1, <2>5, <2>6, BlockOrder
<1>14. CASE /\ ~s.parsing_block /\ Has(d, "open") /\ Before(d, "open") # <<>>
            /\ Effect(s, a, Saved(c, Before(d, "open")), From(d, "open"), TRUE, <<>>,
                      <<Before(d, "open")>>)
  <2> DEFINE r == From(d, "open")
             w == Before(d, "open")
  <2>1. q = <<>> /\ p = L
    <3>1. q = <<>>
      BY <1>2, <1>14
    <3> QED
      BY <1>1, <1>3, <1>4, <3>1
  <2>2. PICK i \in 1 .. Len(d) :
            /\ d[i].kind = "open" /\ Stretch(u, L, w) /\ Len(w) = i - 1
            /\ Stretch(u, L + (i - 1), r) /\ Len(r) = Len(d) - i + 1 /\ r[1] = d[i]
    <3>1. u \in Seq(Char) /\ Has(d, "open") /\ Stretch(u, L, d)
      BY <1>3, <1>5, <1>14
    <3>2. \E i \in 1 .. Len(d) :
            /\ d[i].kind = "open" /\ \A j \in 1 .. i - 1 : d[j].kind # "open"
            /\ Stretch(u, L, w) /\ Len(w) = i - 1
            /\ Stretch(u, L + (i - 1), r) /\ Len(r) = Len(d) - i + 1 /\ r[1] = d[i]
      BY <3>1, StretchParts
    <3> QED
      BY <3>2
  <2>3. w # <<>> /\ Effect(s, a, Saved(c, w), r, TRUE, <<>>, <<w>>)
    BY <1>14
  <2> HIDE DEF r, w
  <2> DEFINE n == L + (i - 1)
  <2>4. n \in Nat /\ L <= n /\ n + (Len(d) - i + 1) = Len(u) /\ Len(d) - i + 1 >= 1
    <3>1. i \in Nat /\ 1 <= i /\ i <= Len(d) /\ Len(d) \in Nat /\ L \in Nat
      BY <1>3
    <3>2. \A j, k, l \in Nat : 1 <= j /\ j <= k =>
            /\ l + (j - 1) \in Nat /\ l <= l + (j - 1)
            /\ l + (j - 1) + (k - j + 1) = l + k /\ k - j + 1 >= 1
      OBVIOUS
    <3> QED
      BY <1>3, <3>1, <3>2
  <2>5. Stretch(u, n, r) /\ r # <<>> /\ r[1].kind = "open" /\ n + Len(r) = Len(u) /\ n = L + Len(w)
    BY <1>1, <2>2, <2>4
  <2> HIDE DEF n
  <2>6. p <= n /\ b <= n
    BY <1>3, <1>7, <2>1, <2>4
  <2>7. w \in Seq(Char) /\ Within(w, L, n)
    <3>1. Within(w, L, L + Len(w))
      BY <1>3, <1>6, <2>2, StretchWithin
    <3> QED
      BY <2>2, <2>5, <3>1 DEF Stretch
  <2>8. Chain(Append(Saved(c, w), <<>>), b, n)
    <3>1. Chain(Append(c, w), b, n)
      BY <1>1, <1>3, <1>7, <1>10, <2>1, <2>4, <2>7, ChainAppend
    <3>2. Saved(c, w) \in Seq(Seq(Char)) /\ Chain(Saved(c, w), b, n)
      BY <1>1, <2>7, <3>1, ChainSaved
    <3> QED
      BY <2>4, <2>6, <3>2, ChainEmpty
  <2> QED
    BY <1>3, <1>4, <2>1, <2>3, <2>4, <2>5, <2>6, <2>7, <2>8, PieceOrder
<1>15. CASE /\ ~s.parsing_block
            /\ Effect(s, a, c, q, FALSE, m \o d, <<d>>)
  <2>1. q = <<>> /\ p = L
    <3>1. q = <<>>
      BY <1>2, <1>15
    <3> QED
      BY <1>1, <1>3, <1>4, <3>1
  <2>2. Chain(Append(c, m \o d), b, Len(u))
    BY <1>1, <1>2, <1>3, <1>4, <1>7, <1>9, <2>1, ChainGrow
  <2>3. Effect(s, a, c, <<>>, FALSE, m \o d, <<d>>)
    BY <1>15, <2>1
  <2> QED
    BY <1>1, <1>3, <1>4, <1>7, <1>8, <1>9, <2>1, <2>2, <2>3, PieceOrder
<1> QED
  <2>1. \/ /\ Len(q) > MaxBuffer
           /\ Effect(s, a, Saved(c, q), <<>>, FALSE, m, <<q>>)
        \/ s.parsing_block /\ BlockEffect(s, a, c, m, q \o d)
        \/ /\ ~s.parsing_block /\ Has(d, "open") /\ Before(d, "open") = <<>>
           /\ BlockEffect(s, a, Saved(c, m), <<>>, From(d, "open"))
        \/ /\ ~s.parsing_block /\ Has(d, "open") /\ Before(d, "open") # <<>>
           /\ Effect(s, a, Saved(c, Before(d, "open")), From(d, "open"), TRUE, <<>>,
                     <<Before(d, "open")>>)
        \/ /\ ~s.parsing_block
           /\ Effect(s, a, c, q, FALSE, m \o d, <<d>>)
    BY AddDeltaEffect DEF a, q, c, m
  <2> QED
    BY <1>11, <1>12, <1>13, <1>14, <1>15, <2>1

\* What is left of an empty text is empty, ...
LEMMA StripEmpty == Strip(<<>>) = <<>>
<1>1. <<>> \in Seq(Char) /\ Len(<<>>) = 0
  OBVIOUS
<1>2. PICK i \in Nat : i + Len(Strip(<<>>)) <= 0 /\ Strip(<<>>) \in Seq(Char)
  BY <1>1, StripFacts
<1>3. Len(Strip(<<>>)) = 0
  BY <1>2
<1> QED
  BY <1>2, <1>3

\* ... so that the memory takes in the buffer or the current message, whichever there is.
LEMMA AnswerMemory ==
    ASSUME NEW t \in Seq(Char), NEW b \in Nat, NEW s \in Manager, Standing(t, b, s)
    PROVE  \E v \in {s.buffer, s.current_message} :
              /\ v \in Seq(Char)
              /\ {s.buffer, s.current_message} \subseteq {v, <<>>}
              /\ AgentMemory(s) = Saved(s.content_items, Strip(v))
<1>1. s.buffer \in Seq(Char) /\ s.current_message \in Seq(Char)
  BY DEF Manager
<1>2. Strip(s.buffer) \in Seq(Char) /\ Strip(s.current_message) \in Seq(Char)
  BY <1>1, StripFacts
<1> DEFINE r == Strip(s.buffer) \o Strip(s.current_message)
<1>3. r \in Seq(Char)
  BY <1>2
<1>4. AgentMemory(s) = Saved(s.content_items, r)
  BY <1>3, SaveFacts DEF AgentMemory
<1>5. CASE s.current_message = <<>>
  <2>1. r = Strip(s.buffer)
    BY <1>2, <1>5, StripEmpty
  <2> QED
    BY <1>1, <1>4, <1>5, <2>1
<1>6. CASE s.buffer = <<>>
  <2>1. r = Strip(s.current_message)
    BY <1>2, <1>6, StripEmpty
  <2> QED
    BY <1>1, <1>4, <1>6, <2>1
<1> QED
  BY <1>5, <1>6 DEF Standing

\* The content items with whichever there is are in order up to the end of the text.
LEMMA HeldOrder ==
    ASSUME NEW t \in Seq(Char), Numbered(t), NEW b \in Nat, NEW s \in Manager, Standing(t, b, s),
           NEW v \in {s.buffer, s.current_message}, v \in Seq(Char),
           {s.buffer, s.current_message} \subseteq {v, <<>>}
    PROVE  b <= Len(t) /\ Chain(Append(s.content_items, v), b, Len(t))
<1> DEFINE p == Settled(t, s)
           c == s.content_items
           m == s.current_message
           q == s.buffer
<1>1. /\ c \in Seq(Seq(Char)) /\ m \in Seq(Char) /\ q \in Seq(Char) /\ Len(t) \in Nat
      /\ Len(q) \in Nat /\ <<>> \in Seq(Char)
  BY DEF Manager
<1>2. Stretch(t, p, q) /\ b <= p /\ Chain(Append(c, m), b, p)
  BY DEF Standing
<1>3. p \in Nat /\ p + Len(q) <= Len(t)
  BY <1>2 DEF Stretch
<1>4. p + Len(q) = Len(t)
  <2>1. p = Len(t) - Len(q)
    BY DEF Settled
  <2> HIDE DEF p, q
  <2> QED
    BY <1>1, <1>3, <2>1
<1>5. Within(q, p, Len(t))
  BY <1>2, <1>4, StretchWithin
<1> HIDE DEF p, c, m, q
<1>6. p <= Len(t) /\ b <= Len(t)
  <2>1. b <= p
    BY <1>2
  <2> QED
    BY <1>1, <1>3, <1>4, <2>1
<1>7. CASE m = <<>>
  <2>1. 0 + Len(m) <= Len(m) /\ 0 \in Nat /\ \A x \in 1 .. Len(m) : m[x] = m[0 + x]
    BY <1>1
  <2>2. Chain(c, b, p)
    BY <1>1, <1>2, <2>1, ChainShorten
  <2>3. Chain(Append(c, q), b, Len(t))
    BY <1>1, <1>2, <1>3, <1>5, <1>6, <2>2, ChainAppend
  <2>4. q = v \/ (q = <<>> /\ v = m)
    BY <1>7 DEF q, m
  <2> QED
    BY <1>6, <1>7, <2>3, <2>4 DEF c
<1>8. CASE m # <<>>
  <2>1. q = <<>>
    BY <1>8 DEF Standing, m, q
  <2>2. v = m /\ p = Len(t)
    <3>1. v = m
      BY <1>8 DEF q, m
    <3> QED
      BY <1>1, <1>3, <1>4, <2>1, <3>1
  <2> QED
    BY <1>2, <1>6, <2>2 DEF c
<1> QED
  BY <1>7, <1>8

\* The memory is in order.
LEMMA MemoryOrder ==
    ASSUME NEW t \in Seq(Char), Numbered(t), NEW b \in Nat, NEW s \in Manager, Standing(t, b, s)
    PROVE  AgentMemory(s) \in Seq(Seq(Char)) /\ Chain(AgentMemory(s), b, Len(t))
<1> DEFINE c == s.content_items
<1>1. PICK v \in {s.buffer, s.current_message} :
          /\ v \in Seq(Char)
          /\ {s.buffer, s.current_message} \subseteq {v, <<>>}
          /\ AgentMemory(s) = Saved(c, Strip(v))
  BY AnswerMemory
<1>2. Chain(Append(c, v), b, Len(t))
  BY <1>1, HeldOrder
<1>3. c \in Seq(Seq(Char))
  BY DEF Manager
<1> HIDE DEF c
<1>4. PICK i \in Nat : /\ Strip(v) \in Seq(Char) /\ i + Len(Strip(v)) <= Len(v)
                       /\ \A x \in 1 .. Len(Strip(v)) : Strip(v)[x] = v[i + x]
  BY <1>1, StripFacts
<1>5. Chain(Append(c, Strip(v)), b, Len(t))
  BY <1>1, <1>2, <1>3, <1>4, ChainShorten
<1> QED
  BY <1>1, <1>3, <1>4, <1>5, ChainSaved

\* An empty piece may come before the last one of a chain, or after it.
LEMMA ChainPair ==
    ASSUME NEW c \in Seq(Seq(Char)), NEW v \in Seq(Char), NEW a \in Nat, NEW b \in Nat, a <= b,
           NEW q, NEW m, (q = v /\ m = <<>>) \/ (q = <<>> /\ m = v), Chain(Append(c, v), a, b)
    PROVE  Chain(c \o <<q, m>>, a, b)
<1> DEFINE e == Append(c, v)
           f == c \o <<q, m>>
           n == Len(c)
           to(k) == IF k <= n THEN k ELSE n + 1
<1>1. n \in Nat /\ q \in Seq(Char) /\ m \in Seq(Char) /\ <<q, m>> \in Seq(Seq(Char))
      /\ Len(<<q, m>>) = 2 /\ DOMAIN <<>> = {}
  <2>1. n \in Nat /\ <<>> \in Seq(Char) /\ DOMAIN <<>> = {}
    OBVIOUS
  <2>2. q \in Seq(Char) /\ m \in Seq(Char)
    BY <2>1
  <2> QED
    BY <2>1, <2>2
<1>2. /\ DOMAIN e = 1 .. n + 1 /\ \A k \in 1 .. n : e[k] = c[k]
      /\ e[n + 1] = v
  OBVIOUS
<1>3. /\ DOMAIN f = 1 .. n + 2 /\ \A k \in 1 .. n : f[k] = c[k]
      /\ f[n + 1] = q /\ f[n + 2] = m
  BY <1>1
<1>4. Chain(e, a, b)
  OBVIOUS
<1> HIDE DEF e, f, n
<1>5. ASSUME NEW k \in DOMAIN f, NEW x \in DOMAIN f[k]
      PROVE  to(k) \in DOMAIN e /\ f[k] = e[to(k)]
  <2>1. CASE k \in 1 .. n
    <3>1. to(k) = k /\ k \in 1 .. n + 1
      BY <1>1, <2>1
    <3> QED
      BY <1>1, <1>2, <1>3, <2>1, <3>1
  <2>2. CASE k \in {n + 1, n + 2}
    <3>1. f[k] = v
      BY <1>1, <1>3, <1>5, <2>2
    <3> QED
      BY <1>1, <1>2, <2>2, <3>1
  <2>3. k \in 1 .. n \/ k \in {n + 1, n + 2}
    <3>1. k \in 1 .. n + 2
      BY <1>3
    <3>2. \A j \in Nat : \A i \in 1 .. j + 2 : i \in 1 .. j \/ i = j + 1 \/ i = j + 2
      OBVIOUS
    <3> QED
      BY <1>1, <3>1, <3>2
  <2> HIDE DEF to
  <2> QED
    BY <2>1, <2>2, <2>3
<1>6. ASSUME NEW k \in DOMAIN f, NEW j \in DOMAIN f, k < j,
             NEW x \in DOMAIN f[k], NEW y \in DOMAIN f[j]
      PROVE  to(k) < to(j)
  <2>1. ~(k = n + 1 /\ j = n + 2)
    BY <1>1, <1>3, <1>6
  <2> QED
    BY <1>1, <1>3, <1>6, <2>1
<1> HIDE DEF to
<1>7. \A k \in DOMAIN f : Within(f[k], a, b)
  <2>1. ASSUME NEW k \in DOMAIN f, NEW x \in DOMAIN f[k] PROVE Within(f[k], a, b)
    BY <1>4, <1>5, <2>1 DEF Chain
  <2> QED
    BY <2>1 DEF Within, Rising
<1>8. ASSUME NEW k \in DOMAIN f, NEW j \in DOMAIN f, k < j,
             NEW x \in DOMAIN f[k], NEW y \in DOMAIN f[j]
      PROVE  f[k][x].at < f[j][y].at
  <2>1. /\ to(k) \in DOMAIN e /\ f[k] = e[to(k)] /\ to(j) \in DOMAIN e /\ f[j] = e[to(j)]
        /\ to(k) < to(j)
    BY <1>5, <1>6, <1>8
  <2> QED
    BY <1>4, <2>1 DEF Chain
<1> QED
  BY <1>7, <1>8 DEF Chain, f

(***************************************************************************)
(* The inductive invariant.                                                *)
(***************************************************************************)
\* What was sent lies, in its order, where the text is settled.
ShownSettled == Chain(Shown, 0, Settled(text, manager))

\* The responses of this depth.
Here == {i \in Responses : sent[i].depth = depth}

Earlier(i) == {j \in Responses : j < i /\ sent[j].depth = sent[i].depth}

\* The manager's number is that of the responses of its depth.
NumbersFollow ==
    /\ \A i \in Responses : sent[i].block.sequence_number = Cardinality(Earlier(i))
    /\ \A i \in Responses : sent[i].depth <= depth
    /\ phase # "done" => manager.sequence_counter = Cardinality(Here)

MemoryInOrder == phase = "done" => Chain(memory, begin, Len(text))

AnswerInv ==
    /\ AnswerTypeOK
    /\ Numbered(text)
    /\ Standing(text, begin, manager)
    /\ ShownSettled
    /\ NumbersFollow
    /\ MemoryInOrder

\* What a response is.
LEMMA ResponseType ==
    ASSUME sent \in Seq(Message)
    PROVE  /\ Responses \subseteq 1 .. Len(sent)
           /\ \A i \in Responses : /\ sent[i].depth \in 0 .. RecursionLimit
                                   /\ sent[i].block.payload \in Seq(Char)
<1>1. \A i \in DOMAIN sent : sent[i] \in Message
  OBVIOUS
<1>2. DOMAIN sent = 1 .. Len(sent)
  OBVIOUS
<1>3. \A m \in Message : m.type = "response" =>
            m.depth \in 0 .. RecursionLimit /\ m.block.payload \in Seq(Char)
  BY DEF Message
<1> QED
  BY <1>1, <1>2, <1>3 DEF Responses

\* Another message leaves the responses as they are, ...
LEMMA OtherMessage ==
    ASSUME sent \in Seq(Message), NEW m, m.type # "response",
           sent' = sent \/ sent' = Append(sent, m)
    PROVE  Responses' = Responses /\ \A i \in Responses : sent'[i] = sent[i]
<1>1. CASE sent' = sent
  BY <1>1 DEF Responses
<1>2. CASE sent' = Append(sent, m)
  <2>1. DOMAIN sent = 1 .. Len(sent) /\ DOMAIN sent' = 1 .. Len(sent) + 1 /\ Len(sent) \in Nat
    BY <1>2
  <2>2. (\A i \in 1 .. Len(sent) : sent'[i] = sent[i]) /\ sent'[Len(sent) + 1] = m
    BY <1>2
  <2>3. \A i \in DOMAIN sent' : i \in DOMAIN sent \/ i = Len(sent) + 1
    BY <2>1
  <2> QED
    BY <2>1, <2>2, <2>3 DEF Responses
<1> QED
  BY <1>1, <1>2

\* ... and a response is added to them.
LEMMA NextResponse ==
    ASSUME sent \in Seq(Message), NEW m, m.type = "response", sent' = Append(sent, m)
    PROVE  /\ Responses' = Responses \cup {Len(sent) + 1}
           /\ sent'[Len(sent) + 1] = m
           /\ \A i \in Responses : i \in Nat /\ i < Len(sent) + 1 /\ sent'[i] = sent[i]
<1>1. DOMAIN sent = 1 .. Len(sent) /\ DOMAIN sent' = 1 .. Len(sent) + 1 /\ Len(sent) \in Nat
  OBVIOUS
<1>2. (\A i \in 1 .. Len(sent) : sent'[i] = sent[i]) /\ sent'[Len(sent) + 1] = m
  OBVIOUS
<1>3. \A i \in 1 .. Len(sent) + 1 : i \in 1 .. Len(sent) \/ i = Len(sent) + 1
  BY <1>1
<1>4. \A i \in 1 .. Len(sent) : i \in Nat /\ i < Len(sent) + 1 /\ i \in 1 .. Len(sent) + 1
  BY <1>1
<1>5. Len(sent) + 1 \in 1 .. Len(sent) + 1
  BY <1>1
<1> DEFINE n == Len(sent) + 1
<1> HIDE DEF n
<1> QED
  BY <1>1, <1>2, <1>3, <1>4, <1>5 DEF Responses

\* While no response is sent, the depth is the same and the text is no less settled, the
\* client's side of the invariant stays.
LEMMA QuietStep ==
    ASSUME AnswerInv, Responses' = Responses, \A i \in Responses : sent'[i] = sent[i],
           Settled(text, manager) <= Settled(text, manager)', Settled(text, manager)' \in Nat,
           depth' = depth,
           phase' # "done" => phase # "done"
                              /\ manager'.sequence_counter = manager.sequence_counter
    PROVE  ShownSettled' /\ NumbersFollow'
<1> DEFINE p == Settled(text, manager)
<1>1. sent \in Seq(Message) /\ p \in Nat
  BY DEF AnswerInv, AnswerTypeOK, Standing, Stretch
<1>2. \A i \in Responses : Shown[i] \in Seq(Char) /\ Shown[i] = sent[i].block.payload
  BY <1>1, ResponseType DEF Shown
<1>3. DOMAIN Shown = Responses
  BY DEF Shown
<1>4. Shown' = Shown
  BY DEF Shown
<1>5. ShownSettled'
  <2>1. Chain(Shown, 0, p)
    BY DEF AnswerInv, ShownSettled
  <2>2. p <= p'
    OBVIOUS
  <2>3. p' \in Nat
    OBVIOUS
  <2> HIDE DEF p
  <2>4. Chain(Shown, 0, p')
    BY <1>1, <1>2, <1>3, <2>1, <2>2, <2>3, ChainWiden
  <2> QED
    BY <1>4, <2>4 DEF ShownSettled, p
<1>6. NumbersFollow'
  <2>1. Here' = Here
    BY DEF Here
  <2>2. \A i \in Responses : Earlier(i)' = Earlier(i)
    BY DEF Earlier
  <2>3. NumbersFollow
    BY DEF AnswerInv
  <2> QED
    BY <2>1, <2>2, <2>3 DEF NumbersFollow
<1> QED
  BY <1>5, <1>6

\* A response that is sent is the next piece in order, under the next number.
LEMMA ResponseStep ==
    ASSUME AnswerInv, phase = "stream", NEW q \in Seq(Char),
           sent' = Append(sent, [type |-> "response", depth |-> depth,
                                 block |-> [sequence_number |-> manager.sequence_counter,
                                            payload |-> q]]),
           depth' = depth, manager'.sequence_counter = manager.sequence_counter + 1,
           Settled(text, manager) <= Settled(text, manager)', Settled(text, manager)' \in Nat,
           Within(q, Settled(text, manager), Settled(text, manager)')
    PROVE  ShownSettled' /\ NumbersFollow'
<1> DEFINE p == Settled(text, manager)
           m == [type |-> "response", depth |-> depth,
                 block |-> [sequence_number |-> manager.sequence_counter, payload |-> q]]
<1> PICK n \in Nat : n = Len(sent) + 1
  <2>1. sent \in Seq(Message)
    BY DEF AnswerInv, AnswerTypeOK
  <2> QED
    BY <2>1
<1>1. sent \in Seq(Message) /\ p \in Nat /\ n \in Nat /\ depth \in Nat
      /\ manager.sequence_counter \in Nat
  BY DEF AnswerInv, AnswerTypeOK, Standing, Stretch, Manager
<1>2. /\ m.type = "response" /\ m.depth = depth /\ m.block.payload = q
      /\ m.block.sequence_number = manager.sequence_counter
  OBVIOUS
<1> HIDE DEF m
<1>3. /\ Responses' = Responses \cup {n} /\ sent'[n] = m
      /\ \A i \in Responses : i \in Nat /\ i < n /\ sent'[i] = sent[i]
  BY <1>1, <1>2, NextResponse DEF m
<1>4. /\ Responses \subseteq 1 .. Len(sent)
      /\ \A i \in Responses : sent[i].depth \in Nat /\ sent[i].block.payload \in Seq(Char)
  BY <1>1, ResponseType
<1>5. ShownSettled'
  <2>1. DOMAIN Shown = Responses /\ \A i \in Responses : Shown[i] \in Seq(Char)
    BY <1>4 DEF Shown
  <2>2. /\ DOMAIN Shown' = Responses \cup {n} /\ Shown'[n] = q
        /\ \A i \in Responses : Shown'[i] = Shown[i]
    BY <1>2, <1>3 DEF Shown
  <2>3. Chain(Shown, 0, p)
    BY DEF AnswerInv, ShownSettled
  <2>4. 0 \in Nat /\ 0 <= p /\ p <= p' /\ p' \in Nat
    BY <1>1
  <2>5. Within(q, p, p')
    OBVIOUS
  <2> HIDE DEF p
  <2>6. Chain(Shown, 0, p') /\ Within(q, 0, p')
    <3>1. Chain(Shown, 0, p')
      BY <1>1, <2>1, <2>3, <2>4, ChainWiden
    <3>2. p' <= p'
      BY <2>4
    <3> QED
      BY <1>1, <2>4, <2>5, <3>1, <3>2, WithinWiden
  <2>7. ASSUME NEW i \in DOMAIN Shown', NEW j \in DOMAIN Shown', i < j,
               NEW x \in DOMAIN Shown'[i], NEW y \in DOMAIN Shown'[j]
        PROVE  Shown'[i][x].at < Shown'[j][y].at
    <3>1. i \in Responses
      BY <1>1, <1>3, <2>2, <2>7
    <3>2. CASE j \in Responses
      BY <2>1, <2>2, <2>3, <2>7, <3>1, <3>2 DEF Chain
    <3>3. CASE j = n
      <4>1. Shown'[i][x].at \in Nat /\ Shown'[i][x].at <= p
        BY <2>1, <2>2, <2>3, <2>7, <3>1, PlaceType DEF Chain, Within
      <4>2. Shown'[j][y].at \in Nat /\ p < Shown'[j][y].at
        BY <2>2, <2>5, <3>3, PlaceType DEF Within
      <4> QED
        BY <1>1, <4>1, <4>2
    <3> QED
      BY <2>2, <3>2, <3>3
  <2>8. \A i \in DOMAIN Shown' : Within(Shown'[i], 0, p')
    BY <2>1, <2>2, <2>6 DEF Chain
  <2>9. Chain(Shown', 0, p')
    BY <2>7, <2>8 DEF Chain
  <2> QED
    BY <2>9 DEF ShownSettled, p
<1>6. NumbersFollow'
  <2>1. NumbersFollow
    BY DEF AnswerInv
  <2>2. n \notin Responses /\ \A i \in Responses : ~(n < i)
    BY <1>1, <1>3
  <2>3. \A i \in Responses : Earlier(i)' = Earlier(i)
    BY <1>3, <2>2 DEF Earlier
  <2>4. Earlier(n)' = Here
    <3>1. \A i \in Responses : i < n
      BY <1>3
    <3>2. ~(n < n)
      BY <1>1
    <3> QED
      BY <1>2, <1>3, <2>2, <3>1, <3>2 DEF Earlier, Here
  <2>5. Here' = Here \cup {n} /\ n \notin Here
    BY <1>2, <1>3, <2>2 DEF Here
  <2>6. IsFiniteSet(Here)
    <3>1. Here \subseteq 1 .. Len(sent)
      BY <1>4 DEF Here
    <3>2. IsFiniteSet(1 .. Len(sent))
      <4>1. Len(sent) \in Int /\ 1 \in Int
        BY <1>1
      <4> QED
        BY <4>1, FS_Interval
    <3> QED
      BY <3>1, <3>2, FS_Subset
  <2>7. Cardinality(Here') = Cardinality(Here) + 1
    BY <2>5, <2>6, FS_AddElement
  <2>8. manager.sequence_counter = Cardinality(Here)
    BY <2>1 DEF NumbersFollow
  <2>9. \A i \in Responses' : sent'[i].block.sequence_number = Cardinality(Earlier(i)')
    <3>1. sent'[n].block.sequence_number = Cardinality(Earlier(n)')
      BY <1>2, <1>3, <2>4, <2>8
    <3>2. \A i \in Responses : sent'[i].block.sequence_number = Cardinality(Earlier(i)')
      BY <1>3, <2>1, <2>3 DEF NumbersFollow
    <3> QED
      BY <1>3, <3>1, <3>2
  <2>10. \A i \in Responses' : sent'[i].depth <= depth'
    <3>1. \A i \in Responses : sent'[i].depth <= depth'
      BY <1>3, <2>1 DEF NumbersFollow
    <3>2. sent'[n].depth <= depth'
      BY <1>1, <1>2, <1>3
    <3> QED
      BY <1>3, <3>1, <3>2
  <2>11. manager'.sequence_counter = Cardinality(Here')
    BY <2>7, <2>8
  <2> QED
    BY <2>9, <2>10, <2>11 DEF NumbersFollow
<1> QED
  BY <1>5, <1>6

\* A new manager holds nothing.
LEMMA NewManagerFacts ==
    ASSUME NEW t \in Seq(Char), NEW b \in 0 .. Len(t)
    PROVE  /\ NewManager \in Manager /\ NewManager.sequence_counter = 0
           /\ Standing(t, b, NewManager) /\ Settled(t, NewManager) = Len(t)
<1>1. /\ NewManager \in Manager /\ NewManager.sequence_counter = 0
      /\ NewManager.buffer = <<>> /\ NewManager.content_items = <<>>
      /\ NewManager.current_message = <<>> /\ ~NewManager.parsing_block
  BY DEF NewManager, Manager
<1>2. Len(t) \in Nat /\ b \in Nat /\ b <= Len(t) /\ <<>> \in Seq(Char) /\ Len(<<>>) = 0
  OBVIOUS
<1>3. Settled(t, NewManager) = Len(t)
  BY <1>1, <1>2 DEF Settled
<1>4. Stretch(t, Len(t), <<>>)
  BY <1>2 DEF Stretch
<1>5. Chain(Append(<<>>, <<>>), b, Len(t))
  <2>1. <<>> \in Seq(Seq(Char)) /\ Chain(<<>>, b, Len(t))
    BY DEF Chain
  <2> QED
    BY <1>2, <2>1, ChainEmpty
<1> QED
  BY <1>1, <1>2, <1>3, <1>4, <1>5 DEF Standing

\* A manager that differs in its state and its tool at most.
Agrees(s, u) ==
    /\ u.buffer = s.buffer /\ u.content_items = s.content_items
    /\ u.parsing_block = s.parsing_block /\ u.current_message = s.current_message
    /\ u.sequence_counter = s.sequence_counter

\* The state and the tool say nothing of the text.
LEMMA AgreesFacts ==
    ASSUME NEW s \in Manager, NEW u,
           \/ u = s
           \/ \E x \in {None, "message", "tool"} : u = [s EXCEPT !.state = x]
           \/ \E x \in BOOLEAN : u = [s EXCEPT !.tool = x]
    PROVE  u \in Manager /\ Agrees(s, u)
  BY DEF Manager, Agrees

\* Another message is a message.
LEMMA PublishFacts ==
    ASSUME AnswerTypeOK, NEW type \in {"start", "end", "tool"}, Publish(type)
    PROVE  /\ sent' \in Seq(Message)
           /\ \E m : m.type # "response" /\ sent' = Append(sent, m)
<1> DEFINE m == [type |-> type, depth |-> depth]
<1>1. m \in Message /\ m.type # "response"
  BY DEF AnswerTypeOK, Message
<1>2. sent' = Append(sent, m)
  BY DEF Publish
<1> QED
  BY <1>1, <1>2 DEF AnswerTypeOK

\* An item that begins or ends changes neither the text nor what the manager holds of it.
LEMMA ItemQuiet ==
    ASSUME AnswerTypeOK, ItemDone \/ \E type \in ItemType : ItemAdded(type)
    PROVE  /\ phase # "done" /\ phase' # "done"
           /\ UNCHANGED <<phase, depth, text, begin, cuts, memory>>
           /\ manager' \in Manager /\ Agrees(manager, manager') /\ sent' \in Seq(Message)
           /\ Responses' = Responses /\ \A i \in Responses : sent'[i] = sent[i]
<1>1. /\ AnswerTypeOK /\ manager \in Manager /\ sent \in Seq(Message) /\ phase = "stream"
      /\ UNCHANGED <<phase, depth, text, begin, cuts, memory>>
  BY DEF AnswerTypeOK, ItemDone, ItemAdded
<1>2. manager' \in Manager /\ Agrees(manager, manager')
  <2>1. \/ manager' = manager
        \/ \E x \in {None, "message", "tool"} : manager' = [manager EXCEPT !.state = x]
        \/ \E x \in BOOLEAN : manager' = [manager EXCEPT !.tool = x]
    <3>1. CASE ItemDone
      <4>1. ((item = "function_call") \/ manager.tool) \in BOOLEAN
        BY <1>1 DEF Manager
      <4> QED
        BY <3>1, <4>1 DEF ItemDone
    <3>2. CASE \E type \in ItemType : ItemAdded(type)
      BY <3>2 DEF ItemAdded
    <3> QED
      BY <3>1, <3>2
  <2> QED
    BY <1>1, <2>1, AgreesFacts
<1>3. sent' \in Seq(Message) /\ \E m : m.type # "response" /\ (sent' = sent \/ sent' = Append(sent, m))
  <2>1. sent' = sent \/ Publish("start") \/ Publish("end")
    BY DEF ItemDone, ItemAdded
  <2>2. [type |-> "start"].type # "response"
    OBVIOUS
  <2> QED
    BY <1>1, <2>1, <2>2, PublishFacts
<1>4. Responses' = Responses /\ \A i \in Responses : sent'[i] = sent[i]
  BY <1>1, <1>3, OtherMessage
<1> QED
  BY <1>1, <1>2, <1>3, <1>4

\* An item that begins or ends keeps the invariant, ...
LEMMA ItemStep ==
    ASSUME AnswerInv, ItemDone \/ \E type \in ItemType : ItemAdded(type)
    PROVE  AnswerInv'
<1>1. /\ AnswerTypeOK /\ manager \in Manager /\ phase = "stream"
      /\ UNCHANGED <<phase, depth, text, begin, cuts, memory>>
  BY DEF AnswerInv, AnswerTypeOK, ItemDone, ItemAdded
<1>2. manager' \in Manager /\ Agrees(manager, manager')
  BY <1>1, ItemQuiet
<1>3. sent' \in Seq(Message) /\ Responses' = Responses /\ \A i \in Responses : sent'[i] = sent[i]
  BY <1>1, ItemQuiet
<1>4. item' \in ItemType \cup {None} /\ items' \in 0 .. MaxItems
  <2>1. CASE ItemDone
    BY <1>1, <2>1 DEF ItemDone, AnswerTypeOK
  <2>2. CASE \E type \in ItemType : ItemAdded(type)
    BY <1>1, <2>2, ChatAssumption DEF ItemAdded, AnswerTypeOK
  <2> QED
    BY <2>1, <2>2
<1>5. AnswerTypeOK'
  BY <1>1, <1>2, <1>3, <1>4 DEF AnswerTypeOK
<1>6. Settled(text, manager)' = Settled(text, manager) /\ Standing(text, begin, manager)'
  BY <1>1, <1>2 DEF AnswerInv, Settled, Standing, Agrees
<1>7. ShownSettled' /\ NumbersFollow'
  <2>1. Settled(text, manager) \in Nat
    BY DEF AnswerInv, Standing, Stretch
  <2>2. /\ Settled(text, manager) <= Settled(text, manager)' /\ Settled(text, manager)' \in Nat
        /\ depth' = depth /\ phase # "done"
        /\ manager'.sequence_counter = manager.sequence_counter
    BY <1>1, <1>2, <1>6, <2>1 DEF Agrees
  <2> QED
    BY <1>3, <2>2, QuietStep
<1>8. Numbered(text)' /\ MemoryInOrder'
  BY <1>1 DEF AnswerInv, Numbered, MemoryInOrder
<1> QED
  BY <1>5, <1>6, <1>7, <1>8 DEF AnswerInv

\* What a delta is, and the text with it.
LEMMA DeltaFacts ==
    ASSUME AnswerTypeOK, Numbered(text), NEW n \in 1 .. MaxDelta, NEW kinds \in [1 .. n -> Kind],
           Len(text) + Len(kinds) <= MaxText
    PROVE  /\ Delta(kinds) \in Seq(Char) /\ text \o Delta(kinds) \in Seq(Char)
           /\ Numbered(text \o Delta(kinds))
           /\ Len(text \o Delta(kinds)) >= Len(text)
<1> DEFINE d == Delta(kinds)
<1>1. /\ n \in Nat /\ DOMAIN kinds = 1 .. n /\ Len(text) \in Nat /\ text \in Seq(Char)
      /\ MaxText \in Nat
  BY ChatAssumption DEF AnswerTypeOK
<1>2. Len(kinds) = n
  BY <1>1
<1>3. /\ DOMAIN d = 1 .. n
      /\ \A i \in 1 .. n : d[i] = [at |-> Len(text) + i, kind |-> kinds[i]]
  BY <1>1 DEF Delta
<1>4. ASSUME NEW i \in 1 .. n PROVE d[i] \in Char /\ d[i].at = Len(text) + i
  <2>1. Len(text) + i \in 1 .. MaxText
    BY <1>1, <1>2
  <2>2. kinds[i] \in Kind
    BY <1>1
  <2> QED
    BY <1>3, <2>1, <2>2 DEF Char
<1>5. d = [i \in 1 .. n |-> d[i]]
  BY <1>1 DEF Delta
<1> HIDE DEF d
<1>6. d \in Seq(Char) /\ Len(d) = n
  <2>1. d \in [1 .. n -> Char]
    BY <1>4, <1>5
  <2> QED
    BY <1>1, <1>3, <2>1
<1> DEFINE u == text \o d
<1>7. u \in Seq(Char) /\ Len(u) = Len(text) + n
  BY <1>1, <1>6
<1>8. /\ \A x \in 1 .. Len(text) : u[x] = text[x]
      /\ \A x \in Len(text) + 1 .. Len(text) + n : u[x] = d[x - Len(text)]
  BY <1>1, <1>6
<1>9. DOMAIN u = 1 .. Len(text) + n /\ DOMAIN text = 1 .. Len(text)
  BY <1>1, <1>7
<1> HIDE DEF u
<1>10. ASSUME NEW x \in 1 .. Len(text) + n PROVE u[x].at = x
  <2>1. CASE x \in 1 .. Len(text)
    BY <1>8, <1>9, <2>1 DEF Numbered
  <2>2. CASE x \in Len(text) + 1 .. Len(text) + n
    <3>1. x - Len(text) \in 1 .. n /\ Len(text) + (x - Len(text)) = x
      BY <1>1, <2>2
    <3> QED
      BY <1>4, <1>8, <2>2, <3>1
  <2> QED
    BY <1>1, <2>1, <2>2
<1>11. Numbered(u)
  BY <1>9, <1>10 DEF Numbered
<1>12. Len(u) >= Len(text)
  BY <1>1, <1>7
<1> QED
  BY <1>6, <1>7, <1>11, <1>12 DEF u, d

\* What an answer to a delta sends is a response with its piece, if it has one.
LEMMA SentBlock ==
    ASSUME AnswerTypeOK, NEW kinds, TextDelta(kinds)
    PROVE  /\ AddDelta(manager, Delta(kinds)).block = <<>> => sent' = sent
           /\ \A e \in [sequence_number : Nat, payload : Seq(Char)] :
                AddDelta(manager, Delta(kinds)).block = <<e>> =>
                    /\ [type |-> "response", depth |-> depth, block |-> e] \in Message
                    /\ sent' = Append(sent, [type |-> "response", depth |-> depth, block |-> e])
<1> DEFINE block == AddDelta(manager, Delta(kinds)).block
<1>1. /\ sent \in Seq(Message) /\ depth \in 0 .. RecursionLimit
      /\ sent' = sent \o [i \in DOMAIN block |->
                    [type |-> "response", depth |-> depth, block |-> block[i]]]
  BY DEF TextDelta, AnswerTypeOK
<1> HIDE DEF block
<1>2. ASSUME block = <<>> PROVE sent' = sent
  <2>1. [i \in DOMAIN <<>> |-> [type |-> "response", depth |-> depth, block |-> <<>>[i]]] = <<>>
    OBVIOUS
  <2> QED
    BY <1>1, <1>2, <2>1
<1>3. ASSUME NEW e \in [sequence_number : Nat, payload : Seq(Char)], block = <<e>>
      PROVE  /\ [type |-> "response", depth |-> depth, block |-> e] \in Message
             /\ sent' = Append(sent, [type |-> "response", depth |-> depth, block |-> e])
  <2> DEFINE m == [type |-> "response", depth |-> depth, block |-> e]
  <2>1. m \in Message
    BY <1>1 DEF Message
  <2>2. [i \in DOMAIN <<e>> |-> [type |-> "response", depth |-> depth, block |-> <<e>>[i]]]
            = <<m>>
    OBVIOUS
  <2>3. sent' = sent \o <<m>>
    BY <1>1, <1>3, <2>2
  <2>4. sent \o <<m>> = Append(sent, m)
    BY <1>1, <2>1
  <2> QED
    BY <2>1, <2>3, <2>4
<1> QED
  BY <1>2, <1>3 DEF block

\* ... and so does a delta, ...
LEMMA TextDeltaStep ==
    ASSUME AnswerInv, NEW n \in 1 .. MaxDelta, NEW kinds \in [1 .. n -> Kind], TextDelta(kinds)
    PROVE  AnswerInv'
<1> DEFINE d == Delta(kinds)
           a == AddDelta(manager, d)
           s == manager
           p == Settled(text, manager)
           u == text \o d
<1>1. /\ AnswerTypeOK /\ Numbered(text) /\ Standing(text, begin, s) /\ phase = "stream"
      /\ s \in Manager /\ sent \in Seq(Message) /\ text \in Seq(Char) /\ begin \in Nat
      /\ depth \in 0 .. RecursionLimit /\ UNCHANGED <<phase, depth, item, items, begin, memory>>
  BY DEF AnswerInv, AnswerTypeOK, TextDelta
<1>2. manager' = a.manager /\ text' = u
  BY DEF TextDelta
<1>3. d \in Seq(Char) /\ u \in Seq(Char) /\ Numbered(u) /\ Len(u) >= Len(text)
  BY <1>1, DeltaFacts DEF TextDelta
<1> HIDE DEF d, u
<1>4. Answered(s, p, u, begin, a)
  BY <1>1, <1>3, DeltaOrder DEF u
<1> HIDE DEF a
<1>5. /\ Settled(text, manager)' = Settled(u, a.manager) /\ p <= Settled(text, manager)'
      /\ Settled(text, manager)' \in Nat /\ Standing(text, begin, manager)'
      /\ manager' \in Manager
  <2>1. Settled(text, manager)' = Settled(u, a.manager)
    BY <1>2 DEF Settled
  <2>2. Settled(u, a.manager) \in Nat /\ p <= Settled(u, a.manager) /\ a.manager \in Manager
        /\ Standing(u, begin, a.manager)
    BY <1>4 DEF Answered, Standing, Stretch
  <2> QED
    BY <1>1, <1>2, <2>1, <2>2
<1>6. /\ sent' \in Seq(Message)
      /\ ShownSettled' /\ NumbersFollow'
  <2>1. CASE a.block = <<>> /\ a.manager.sequence_counter = s.sequence_counter
    <3>1. sent' = sent
      BY <1>1, <2>1, SentBlock DEF a, d
    <3>2. Responses' = Responses /\ \A i \in Responses : sent'[i] = sent[i]
      BY <3>1 DEF Responses
    <3>3. depth' = depth /\ phase # "done" /\ manager'.sequence_counter = manager.sequence_counter
      BY <1>1, <1>2, <2>1
    <3> QED
      BY <1>1, <1>5, <3>1, <3>2, <3>3, QuietStep
  <2>2. CASE a.block # <<>> \/ a.manager.sequence_counter # s.sequence_counter
    <3>1. PICK q \in Seq(Char) :
              /\ a.block = <<[sequence_number |-> s.sequence_counter, payload |-> q]>>
              /\ Within(q, p, Settled(u, a.manager))
              /\ a.manager.sequence_counter = s.sequence_counter + 1
      BY <1>4, <2>2 DEF Answered
    <3> DEFINE m == [type |-> "response", depth |-> depth,
                     block |-> [sequence_number |-> s.sequence_counter, payload |-> q]]
    <3>2. m \in Message /\ sent' = Append(sent, m)
      <4>1. [sequence_number |-> s.sequence_counter, payload |-> q]
                \in [sequence_number : Nat, payload : Seq(Char)]
        BY <1>1 DEF Manager
      <4> QED
        BY <1>1, <3>1, <4>1, SentBlock DEF a, d
    <3>3. sent' = Append(sent, [type |-> "response", depth |-> depth,
                                block |-> [sequence_number |-> manager.sequence_counter,
                                           payload |-> q]])
      BY <3>2
    <3>4. sent' \in Seq(Message)
      BY <1>1, <3>2
    <3>5. depth' = depth /\ manager'.sequence_counter = manager.sequence_counter + 1
          /\ Within(q, p, Settled(text, manager)')
      BY <1>1, <1>2, <1>5, <3>1
    <3> QED
      BY <1>1, <1>5, <3>3, <3>4, <3>5, ResponseStep
  <2> QED
    BY <2>1, <2>2
<1>7. begin' \in 0 .. Len(text') /\ cuts' \subseteq {"overflow", "tail", "prefix"}
  <2>1. begin \in 0 .. Len(text) /\ Len(text) \in Nat /\ Len(u) \in Nat
    BY <1>1, <1>3 DEF AnswerTypeOK
  <2>2. begin' \in 0 .. Len(text')
    BY <1>1, <1>2, <1>3, <2>1
  <2>3. cuts' = cuts \cup CutsOf(manager, d)
    BY DEF TextDelta, d
  <2>4. CutsOf(manager, d) \subseteq {"overflow", "tail", "prefix"}
    BY DEF CutsOf
  <2> QED
    BY <1>1, <2>2, <2>3, <2>4 DEF AnswerTypeOK
<1>8. AnswerTypeOK'
  BY <1>1, <1>2, <1>3, <1>5, <1>6, <1>7 DEF AnswerTypeOK
<1>9. Numbered(text)' /\ MemoryInOrder'
  BY <1>1, <1>2, <1>3 DEF Numbered, MemoryInOrder
<1> QED
  BY <1>5, <1>6, <1>8, <1>9 DEF AnswerInv

\* ... the end of the stream and a tool's call, ...
LEMMA EndStep ==
    ASSUME AnswerInv, StreamFails \/ CallTool \/ CallAgain \/ Finish
    PROVE  AnswerInv'
<1> DEFINE p == Settled(text, manager)
<1>1. /\ AnswerTypeOK /\ Numbered(text) /\ Standing(text, begin, manager) /\ NumbersFollow
      /\ manager \in Manager /\ sent \in Seq(Message) /\ text \in Seq(Char)
      /\ begin \in 0 .. Len(text) /\ depth \in 0 .. RecursionLimit /\ RecursionLimit \in Nat
      /\ Len(text) \in Nat /\ phase # "done"
  BY ChatAssumption DEF AnswerInv, AnswerTypeOK, StreamFails, CallTool, CallAgain, Finish
<1>2. UNCHANGED <<item, items, text>>
  BY DEF StreamFails, CallTool, CallAgain, Finish
<1>3. p \in Nat /\ p <= Len(text) /\ p <= p
  BY <1>1 DEF Standing, Stretch
<1>4. CASE StreamFails \/ CallTool \/ (CallAgain /\ depth = RecursionLimit)
  <2>1. /\ UNCHANGED <<depth, manager, begin, cuts, memory>> /\ phase' \in {"tool", "raised"}
        /\ sent' = sent \/ Publish("tool")
    BY <1>4 DEF StreamFails, CallTool, CallAgain
  <2>2. sent' \in Seq(Message) /\ \E m : m.type # "response" /\ (sent' = sent \/ sent' = Append(sent, m))
    <3>1. [type |-> "start"].type # "response"
      OBVIOUS
    <3> QED
      BY <1>1, <2>1, <3>1, PublishFacts
  <2>3. AnswerTypeOK'
    BY <1>1, <1>2, <2>1, <2>2 DEF AnswerTypeOK
  <2>4. Settled(text, manager)' = p /\ Standing(text, begin, manager)'
    BY <1>1, <1>2, <2>1
  <2>5. Responses' = Responses /\ \A i \in Responses : sent'[i] = sent[i]
    BY <1>1, <2>2, OtherMessage
  <2>6. depth' = depth /\ manager'.sequence_counter = manager.sequence_counter
    BY <2>1
  <2>7. ShownSettled' /\ NumbersFollow'
    BY <1>1, <1>3, <2>4, <2>5, <2>6, QuietStep
  <2>8. Numbered(text)' /\ MemoryInOrder'
    BY <1>1, <1>2, <2>1 DEF Numbered, MemoryInOrder
  <2> QED
    BY <2>3, <2>4, <2>7, <2>8 DEF AnswerInv
<1>5. CASE CallAgain /\ depth # RecursionLimit
  <2>1. /\ phase' = "stream" /\ depth' = depth + 1 /\ manager' = NewManager
        /\ begin' = Len(text) /\ cuts' = {} /\ UNCHANGED <<sent, memory>>
    BY <1>5 DEF CallAgain
  <2>2. depth' \in 0 .. RecursionLimit
    BY <1>1, <1>5, <2>1
  <2>3. /\ manager' \in Manager /\ manager'.sequence_counter = 0
        /\ Standing(text, begin, manager)' /\ Settled(text, manager)' = Len(text)
    <3>1. Len(text) \in 0 .. Len(text)
      BY <1>1
    <3> QED
      BY <1>1, <1>2, <2>1, <3>1, NewManagerFacts
  <2>4. AnswerTypeOK'
    BY <1>1, <1>2, <2>1, <2>2, <2>3 DEF AnswerTypeOK
  <2>5. ShownSettled'
    <3>1. Responses' = Responses /\ Shown' = Shown
      BY <2>1 DEF Responses, Shown
    <3>2. \A i \in DOMAIN Shown : Shown[i] \in Seq(Char)
      BY <1>1, ResponseType DEF Shown
    <3>3. Chain(Shown, 0, p)
      BY DEF AnswerInv, ShownSettled
    <3> HIDE DEF p
    <3>4. Chain(Shown, 0, Len(text))
      BY <1>1, <1>3, <3>2, <3>3, ChainWiden
    <3> QED
      BY <2>3, <3>1, <3>4 DEF ShownSettled
  <2>6. NumbersFollow'
    <3>1. Responses' = Responses /\ \A i \in Responses : Earlier(i)' = Earlier(i)
      BY <2>1 DEF Responses, Earlier
    <3>2. \A i \in Responses : sent[i].depth \in Nat /\ sent[i].depth <= depth
      BY <1>1, ResponseType DEF NumbersFollow
    <3>3. \A i \in Responses : sent[i].depth <= depth' /\ sent[i].depth # depth'
      BY <1>1, <2>1, <3>2
    <3>4. Here' = {}
      BY <2>1, <3>1, <3>3 DEF Here
    <3>5. manager'.sequence_counter = Cardinality(Here')
      BY <2>3, <3>4, FS_EmptySet
    <3> QED
      BY <1>1, <2>1, <3>1, <3>3, <3>5 DEF NumbersFollow
  <2>7. Numbered(text)' /\ MemoryInOrder'
    BY <1>1, <1>2, <2>1 DEF Numbered, MemoryInOrder
  <2> QED
    BY <2>3, <2>4, <2>5, <2>6, <2>7 DEF AnswerInv
<1>6. CASE Finish
  <2>1. /\ memory' = AgentMemory(manager) /\ phase' = "done" /\ manager' = NewManager
        /\ UNCHANGED <<depth, begin, cuts, sent>>
    BY <1>6 DEF Finish
  <2>2. /\ manager' \in Manager
        /\ Standing(text, begin, manager)' /\ Settled(text, manager)' = Len(text)
    BY <1>1, <1>2, <2>1, NewManagerFacts
  <2>3. memory' \in Seq(Seq(Char)) /\ Chain(memory', begin, Len(text))
    <3>1. begin \in Nat
      BY <1>1
    <3> QED
      BY <1>1, <2>1, <3>1, MemoryOrder
  <2>4. AnswerTypeOK'
    BY <1>1, <1>2, <2>1, <2>2, <2>3 DEF AnswerTypeOK
  <2>5. ShownSettled' /\ NumbersFollow'
    <3>1. Responses' = Responses /\ \A i \in Responses : sent'[i] = sent[i]
      BY <2>1 DEF Responses
    <3> QED
      BY <1>1, <1>3, <2>1, <2>2, <3>1, QuietStep
  <2>6. Numbered(text)' /\ MemoryInOrder'
    BY <1>1, <1>2, <2>1, <2>3 DEF Numbered, MemoryInOrder
  <2> QED
    BY <2>2, <2>4, <2>5, <2>6 DEF AnswerInv
<1> QED
  BY <1>4, <1>5, <1>6

\* ... so that it always holds.
LEMMA AnswerInvariant == AnswerSpec => []AnswerInv
<1>1. AnswerInit => AnswerInv
  <2> SUFFICES ASSUME AnswerInit PROVE AnswerInv
    OBVIOUS
  <2>1. <<>> \in Seq(Char) /\ Len(<<>>) = 0 /\ 0 \in 0 .. Len(<<>>)
    OBVIOUS
  <2>2. /\ manager \in Manager /\ manager.sequence_counter = 0
        /\ Standing(text, begin, manager)
    BY <2>1, NewManagerFacts DEF AnswerInit
  <2>3. AnswerTypeOK
    BY <2>1, <2>2, ChatAssumption DEF AnswerInit, AnswerTypeOK
  <2>4. Responses = {}
    BY DEF AnswerInit, Responses
  <2>5. ShownSettled
    BY <2>4 DEF ShownSettled, Shown, Chain
  <2>6. NumbersFollow
    <3>1. Here = {}
      BY <2>4 DEF Here
    <3> QED
      BY <2>2, <2>4, <3>1, FS_EmptySet DEF NumbersFollow
  <2>7. Numbered(text) /\ MemoryInOrder
    BY DEF AnswerInit, Numbered, MemoryInOrder
  <2> QED
    BY <2>2, <2>3, <2>5, <2>6, <2>7 DEF AnswerInv
<1>2. AnswerInv /\ [AnswerNext]_answerVars => AnswerInv'
  <2> SUFFICES ASSUME AnswerInv, [AnswerNext]_answerVars PROVE AnswerInv'
    OBVIOUS
  <2>1. CASE UNCHANGED answerVars
    <3>1. UNCHANGED <<phase, depth, manager, item, items, text, begin, cuts, sent, memory>>
      BY <2>1 DEF answerVars
    <3>2. Responses' = Responses /\ \A i \in Responses : Earlier(i)' = Earlier(i)
      BY <3>1 DEF Responses, Earlier
    <3>3. Shown' = Shown /\ Here' = Here
      BY <3>1, <3>2 DEF Shown, Here
    <3>4. AnswerTypeOK'
      BY <3>1 DEF AnswerInv, AnswerTypeOK
    <3>5. ShownSettled' /\ NumbersFollow' /\ MemoryInOrder'
      BY <3>1, <3>2, <3>3 DEF AnswerInv, ShownSettled, NumbersFollow, MemoryInOrder
    <3>6. Numbered(text)' /\ Standing(text, begin, manager)'
      BY <3>1 DEF AnswerInv
    <3> QED
      BY <3>4, <3>5, <3>6 DEF AnswerInv
  <2>2. CASE AnswerNext
    BY <2>2, ItemStep, TextDeltaStep, EndStep DEF AnswerNext
  <2> QED
    BY <2>1, <2>2
<1> QED
  BY <1>1, <1>2, PTL DEF AnswerSpec

\* The variables of an answer keep their types: its manager is always one, its depth is never
\* beyond the limit, and what is sent is a message.
THEOREM AnswerTypeCorrect == AnswerSpec => []AnswerTypeOK
<1>1. AnswerInv => AnswerTypeOK
  BY DEF AnswerInv
<1> QED
  BY <1>1, AnswerInvariant, PTL

\* Whatever the deltas are and however often the chat recurses, the client is sent no character
\* twice or out of order, and the pieces of each response are numbered without a gap.
THEOREM ShownOnceInOrderHolds == AnswerSpec => []ShownOnceInOrder
<1>1. AnswerInv => ShownOnceInOrder
  <2> SUFFICES ASSUME AnswerInv PROVE ShownOnceInOrder
    OBVIOUS
  <2>1. InTextOrder(Shown)
    BY ChainInOrder DEF AnswerInv, ShownSettled
  <2>2. \A i \in Responses : sent[i].block.sequence_number =
            Cardinality({j \in Responses : j < i /\ sent[j].depth = sent[i].depth})
    BY DEF AnswerInv, NumbersFollow, Earlier
  <2> QED
    BY <2>1, <2>2 DEF ShownOnceInOrder
<1> QED
  BY <1>1, AnswerInvariant, PTL

\* What is remembered of an answer has no character twice or out of order and none of an earlier
\* depth, although it is put together from the content items and two buffers.
THEOREM RememberedOnceInOrderHolds == AnswerSpec => []RememberedOnceInOrder
<1>1. AnswerInv => RememberedOnceInOrder
  <2> SUFFICES ASSUME AnswerInv PROVE RememberedOnceInOrder
    OBVIOUS
  <2>1. /\ manager \in Manager /\ text \in Seq(Char) /\ begin \in Nat /\ Numbered(text)
        /\ Standing(text, begin, manager) /\ Len(text) \in Nat
    BY DEF AnswerInv, AnswerTypeOK
  <2>2. Chain(Remembered, begin, Len(text))
    <3>1. CASE phase = "done"
      BY <3>1 DEF AnswerInv, MemoryInOrder, Remembered
    <3>2. CASE phase # "done"
      <4> DEFINE c == manager.content_items
                 q == manager.buffer
                 m == manager.current_message
      <4>1. PICK v \in {q, m} : v \in Seq(Char) /\ {q, m} \subseteq {v, <<>>}
        BY <2>1, AnswerMemory
      <4>2. begin <= Len(text) /\ Chain(Append(c, v), begin, Len(text))
        BY <2>1, <4>1, HeldOrder
      <4>3. c \in Seq(Seq(Char)) /\ Remembered = c \o <<q, m>>
        BY <2>1, <3>2 DEF Remembered, Manager
      <4>4. (q = v /\ m = <<>>) \/ (q = <<>> /\ m = v)
        BY <2>1, <4>1 DEF Standing
      <4> HIDE DEF c, q, m
      <4> QED
        BY <2>1, <4>1, <4>2, <4>3, <4>4, ChainPair
    <3> QED
      BY <3>1, <3>2
  <2>3. InTextOrder(Remembered)
    BY <2>2, ChainInOrder
  <2>4. ASSUME NEW i \in DOMAIN Remembered, NEW x \in DOMAIN Remembered[i]
        PROVE  Remembered[i][x].at > begin
    <3>1. begin < Remembered[i][x].at
      BY <2>2, <2>4 DEF Chain, Within
    <3>2. Remembered[i] \in Seq(Char)
      <4>1. Remembered \in Seq(Seq(Char))
        <5>1. CASE phase = "done"
          BY <5>1 DEF AnswerInv, AnswerTypeOK, Remembered
        <5>2. CASE phase # "done"
          <6>1. /\ manager.content_items \in Seq(Seq(Char)) /\ manager.buffer \in Seq(Char)
                /\ manager.current_message \in Seq(Char)
            BY <2>1 DEF Manager
          <6> QED
            BY <5>2, <6>1 DEF Remembered
        <5> QED
          BY <5>1, <5>2
      <4> QED
        BY <4>1
    <3>3. Remembered[i][x].at \in Nat
      BY <3>2, PlaceType
    <3> QED
      BY <2>1, <3>1, <3>3
  <2> QED
    BY <2>3, <2>4 DEF RememberedOnceInOrder
<1> QED
  BY <1>1, AnswerInvariant, PTL

(***************************************************************************)
(* Prose and blocks of a text up to a place of it.                         *)
(***************************************************************************)
ProseTo(t, b, n) == {i \in b + 1 .. n : ~InBlock(t, b, i)}

GoodTo(t, b, n) ==
    {k \in b + 1 .. n : \E i \in b + 1 .. k, j \in k + 1 .. n :
        BlockLine(t, b, i, j) /\ Parses(SubSeq(t, i, j - 1))}

\* No character of a kind is in a range of places.
Without(u, kind, m, n) == \A k \in m .. n : u[k].kind # kind

\* Two texts are alike up to a place.
Alike(t, u, n) == n <= Len(t) /\ n <= Len(u) /\ \A x \in 1 .. n : u[x] = t[x]

\* No block goes on from before a place where none goes on.
LEMMA NoneGoesOn ==
    ASSUME NEW u, NEW b \in Nat, NEW p \in Nat, b <= p, Fresh(u, b, p + 1),
           NEW j \in Nat, b < j, j <= p, u[j].kind = "open",
           \A k \in j .. p : u[k].kind # "nl"
    PROVE  FALSE
<1>1. p + 1 - 1 = p /\ p \in j .. p /\ j \in b + 1 .. p
  OBVIOUS
<1>2. \A k \in j .. p - 1 : u[k].kind # "nl"
  OBVIOUS
<1>3. InBlock(u, b, p)
  BY <1>1, <1>2 DEF InBlock
<1> QED
  BY <1>1, <1>3 DEF Fresh

\* A block begins with a '{'.
LEMMA BlockBegins ==
    ASSUME NEW u, NEW b \in Nat, NEW i \in Nat, InBlock(u, b, i), Fresh(u, b, i)
    PROVE  b < i /\ u[i].kind = "open"
<1>1. PICK j \in b + 1 .. i : u[j].kind = "open" /\ \A k \in j .. i - 1 : u[k].kind # "nl"
  BY DEF InBlock
<1>2. j = i
  <2> SUFFICES ASSUME j # i PROVE FALSE
    OBVIOUS
  <2>1. j \in b + 1 .. i - 1 /\ i - 1 \in j .. i - 1
    BY <1>1
  <2>2. \A k \in j .. i - 1 - 1 : u[k].kind # "nl"
    BY <1>1
  <2>3. InBlock(u, b, i - 1)
    BY <1>1, <2>1, <2>2 DEF InBlock
  <2> QED
    BY <1>1, <2>1, <2>3 DEF Fresh
<1> QED
  BY <1>1, <1>2

\* Where no block goes on and none begins, there is prose.
LEMMA ProseOn ==
    ASSUME NEW u, NEW b \in Nat, NEW p \in Nat, NEW q \in Nat, b <= p, p <= q,
           Fresh(u, b, p + 1), Without(u, "open", p + 1, q)
    PROVE  /\ Fresh(u, b, q + 1)
           /\ ProseTo(u, b, q) = ProseTo(u, b, p) \cup (p + 1 .. q)
           /\ GoodTo(u, b, q) = GoodTo(u, b, p)
<1> USE DEF Without
<1>1. ASSUME NEW i \in p + 1 .. q PROVE ~InBlock(u, b, i)
  <2> SUFFICES ASSUME InBlock(u, b, i) PROVE FALSE
    OBVIOUS
  <2>1. PICK j \in b + 1 .. i : u[j].kind = "open" /\ \A k \in j .. i - 1 : u[k].kind # "nl"
    BY DEF InBlock
  <2>2. j \notin p + 1 .. q
    BY <2>1
  <2>3. j \in Nat /\ b < j /\ j <= p /\ \A k \in j .. p : k \in j .. i - 1
    BY <2>2
  <2> QED
    BY <2>1, <2>3, NoneGoesOn
<1>2. Fresh(u, b, q + 1)
  <2>1. q + 1 - 1 = q
    OBVIOUS
  <2>2. CASE p = q
    BY <2>2
  <2>3. CASE p # q
    <3>1. q \in p + 1 .. q
      BY <2>3
    <3> QED
      BY <1>1, <2>1, <3>1 DEF Fresh
  <2> QED
    BY <2>2, <2>3
<1>3. ProseTo(u, b, q) = ProseTo(u, b, p) \cup (p + 1 .. q)
  <2>1. \A i : i \in b + 1 .. q <=> i \in b + 1 .. p \/ i \in p + 1 .. q
    OBVIOUS
  <2> QED
    BY <1>1, <2>1 DEF ProseTo
<1>4. ASSUME NEW i \in b + 1 .. q, NEW j \in b + 1 .. q, i < j, BlockLine(u, b, i, j)
      PROVE  j \in b + 1 .. p
  <2>1. InBlock(u, b, i) /\ Fresh(u, b, i) /\ \A k \in i .. j - 1 : u[k].kind # "nl"
    BY <1>4 DEF BlockLine
  <2>2. u[i].kind = "open" /\ i \in Nat
    BY <2>1, BlockBegins
  <2>3. i \notin p + 1 .. q
    BY <2>2
  <2>4. i <= p /\ b < i
    BY <2>3
  <2>5. CASE j > p
    <3>1. \A k \in i .. p : k \in i .. j - 1
      BY <1>4, <2>5
    <3> QED
      BY <2>1, <2>2, <2>4, <3>1, NoneGoesOn
  <2> QED
    BY <2>5
<1>5. GoodTo(u, b, q) \subseteq GoodTo(u, b, p)
  <2> SUFFICES ASSUME NEW k \in GoodTo(u, b, q) PROVE k \in GoodTo(u, b, p)
    OBVIOUS
  <2>1. k \in b + 1 .. q
    BY DEF GoodTo
  <2>2. PICK i \in b + 1 .. k, j \in k + 1 .. q :
            BlockLine(u, b, i, j) /\ Parses(SubSeq(u, i, j - 1))
    BY DEF GoodTo
  <2>3. i \in b + 1 .. q /\ j \in b + 1 .. q /\ i < j
    BY <2>1
  <2>4. j \in b + 1 .. p
    BY <1>4, <2>2, <2>3
  <2>5. j \in k + 1 .. p /\ k \in b + 1 .. p
    BY <2>1, <2>4
  <2> QED
    BY <2>2, <2>5 DEF GoodTo
<1>6. GoodTo(u, b, p) \subseteq GoodTo(u, b, q)
  <2>1. \A k \in b + 1 .. p : k \in b + 1 .. q
    OBVIOUS
  <2>2. \A k \in b + 1 .. p : \A j \in k + 1 .. p : j \in k + 1 .. q
    OBVIOUS
  <2> QED
    BY <2>1, <2>2 DEF GoodTo
<1> QED
  BY <1>2, <1>3, <1>5, <1>6

\* A block that has begun is no prose, ...
LEMMA BlockGoesOn ==
    ASSUME NEW u, NEW b \in Nat, NEW p \in Nat, NEW q \in Nat, b <= p, p < q,
           u[p + 1].kind = "open", Without(u, "nl", p + 1, q - 1)
    PROVE  /\ \A i \in p + 1 .. q : InBlock(u, b, i)
           /\ ProseTo(u, b, q) = ProseTo(u, b, p)
<1> USE DEF Without
<1>1. ASSUME NEW i \in p + 1 .. q PROVE InBlock(u, b, i)
  <2>1. p + 1 \in b + 1 .. i /\ \A k \in p + 1 .. i - 1 : k \in p + 1 .. q - 1
    OBVIOUS
  <2> QED
    BY <2>1 DEF InBlock
<1>2. \A i : i \in b + 1 .. q <=> i \in b + 1 .. p \/ i \in p + 1 .. q
  OBVIOUS
<1> QED
  BY <1>1, <1>2 DEF ProseTo

\* One more block between p and q.
Grows(u, b, p, q) == GoodTo(u, b, q) = GoodTo(u, b, p) \cup (p + 1 .. q - 1)

\* ... and its line is the only one that ends in it.
LEMMA BlockEnds ==
    ASSUME NEW u, NEW b \in Nat, NEW p \in Nat, NEW q \in Nat, b <= p, p < q,
           Fresh(u, b, p + 1), u[p + 1].kind = "open", Without(u, "nl", p + 1, q - 1)
    PROVE  /\ u[q].kind # "nl" => GoodTo(u, b, q) = GoodTo(u, b, p)
           /\ u[q].kind = "nl" => Fresh(u, b, q + 1)
           /\ u[q].kind = "nl" /\ Parses(SubSeq(u, p + 1, q - 1)) => Grows(u, b, p, q)
           /\ u[q].kind = "nl" /\ ~Parses(SubSeq(u, p + 1, q - 1)) =>
                GoodTo(u, b, q) = GoodTo(u, b, p)
<1>1. \A i \in p + 1 .. q : InBlock(u, b, i)
  BY BlockGoesOn
<1> USE DEF Without
<1>2. ASSUME NEW i \in b + 1 .. q, NEW j \in b + 1 .. q, i < j, j > p, BlockLine(u, b, i, j)
      PROVE  i = p + 1 /\ j = q
  <2>1. InBlock(u, b, i) /\ Fresh(u, b, i) /\ u[j].kind = "nl"
        /\ \A k \in i .. j - 1 : u[k].kind # "nl"
    BY <1>2 DEF BlockLine
  <2>2. u[i].kind = "open" /\ i \in Nat /\ b < i
    BY <2>1, BlockBegins
  <2>3. j = q
    <3>1. j \notin p + 1 .. q - 1
      BY <2>1
    <3> QED
      BY <1>2, <3>1
  <2>4. ~(i <= p)
    <3> SUFFICES ASSUME i <= p PROVE FALSE
      OBVIOUS
    <3>1. \A k \in i .. p : k \in i .. j - 1
      BY <1>2
    <3> QED
      BY <2>1, <2>2, <3>1, NoneGoesOn
  <2>5. ~(i > p + 1)
    <3> SUFFICES ASSUME i > p + 1 PROVE FALSE
      OBVIOUS
    <3>1. i - 1 \in p + 1 .. q /\ i - 1 \in p + 1 .. q - 1
      BY <1>2
    <3>2. InBlock(u, b, i - 1) /\ u[i - 1].kind # "nl"
      BY <1>1, <3>1
    <3> QED
      BY <2>1, <3>2 DEF Fresh
  <2> QED
    BY <2>2, <2>3, <2>4, <2>5
<1>3. GoodTo(u, b, p) \subseteq GoodTo(u, b, q)
  <2>1. \A k \in b + 1 .. p : k \in b + 1 .. q
    OBVIOUS
  <2>2. \A k \in b + 1 .. p : \A j \in k + 1 .. p : j \in k + 1 .. q
    OBVIOUS
  <2> QED
    BY <2>1, <2>2 DEF GoodTo
<1>4. ASSUME NEW k \in GoodTo(u, b, q), k \notin GoodTo(u, b, p)
      PROVE  /\ k \in p + 1 .. q - 1 /\ u[q].kind = "nl" /\ Parses(SubSeq(u, p + 1, q - 1))
  <2>1. k \in b + 1 .. q
    BY DEF GoodTo
  <2>2. PICK i \in b + 1 .. k, j \in k + 1 .. q :
            BlockLine(u, b, i, j) /\ Parses(SubSeq(u, i, j - 1))
    BY DEF GoodTo
  <2>3. i \in b + 1 .. q /\ j \in b + 1 .. q /\ i < j
    BY <2>1
  <2>4. j > p
    <3> SUFFICES ASSUME ~(j > p) PROVE FALSE
      OBVIOUS
    <3>1. j \in k + 1 .. p /\ k \in b + 1 .. p
      BY <2>1
    <3> QED
      BY <1>4, <2>2, <3>1 DEF GoodTo
  <2>5. i = p + 1 /\ j = q
    BY <1>2, <2>2, <2>3, <2>4
  <2>6. u[q].kind = "nl"
    BY <2>2, <2>5 DEF BlockLine
  <2> QED
    BY <2>1, <2>2, <2>5, <2>6
<1>5. ASSUME u[q].kind = "nl"
      PROVE  /\ Fresh(u, b, q + 1)
             /\ Parses(SubSeq(u, p + 1, q - 1)) => p + 1 .. q - 1 \subseteq GoodTo(u, b, q)
  <2>1. q + 1 - 1 = q
    OBVIOUS
  <2>2. Fresh(u, b, q + 1)
    BY <1>5, <2>1 DEF Fresh
  <2>3. p + 1 \in p + 1 .. q
    OBVIOUS
  <2>4. BlockLine(u, b, p + 1, q)
    BY <1>1, <1>5, <2>3 DEF BlockLine
  <2>5. ASSUME Parses(SubSeq(u, p + 1, q - 1)), NEW k \in p + 1 .. q - 1
        PROVE  k \in GoodTo(u, b, q)
    <3>1. k \in b + 1 .. q /\ p + 1 \in b + 1 .. k /\ q \in k + 1 .. q
      OBVIOUS
    <3> QED
      BY <2>4, <2>5, <3>1 DEF GoodTo
  <2> QED
    BY <2>2, <2>5
<1>6. u[q].kind = "nl" /\ Parses(SubSeq(u, p + 1, q - 1)) => Grows(u, b, p, q)
  BY <1>3, <1>4, <1>5 DEF Grows
<1>7. u[q].kind # "nl" \/ ~Parses(SubSeq(u, p + 1, q - 1)) => GoodTo(u, b, q) = GoodTo(u, b, p)
  BY <1>3, <1>4
<1> QED
  BY <1>5, <1>6, <1>7

\* A piece that has the characters of a stretch is that stretch.
LEMMA SameStretch ==
    ASSUME NEW u \in Seq(Char), NEW i \in Nat, NEW j \in Nat, 0 < i, i <= j + 1, j <= Len(u),
           NEW q \in Seq(Char), Len(q) = j - i + 1, \A x \in 1 .. Len(q) : q[x] = u[i - 1 + x]
    PROVE  SubSeq(u, i, j) = q
<1> DEFINE r == SubSeq(u, i, j)
<1>1. r \in Seq(Char) /\ Len(r) = j - i + 1 /\ \A x \in 1 .. j - i + 1 : r[x] = u[i - 1 + x]
  OBVIOUS
<1> HIDE DEF r
<1>2. Len(r) = Len(q) /\ \A x \in 1 .. Len(r) : r[x] = q[x]
  BY <1>1
<1>3. r = q
  BY <1>1, <1>2, SeqEqual
<1> QED
  BY <1>3 DEF r

\* What is prose and what are blocks is a matter of the text up to there.
LEMMA TextBefore ==
    ASSUME NEW t \in Seq(Char), NEW u \in Seq(Char), NEW n \in Nat, Alike(t, u, n), NEW b \in Nat
    PROVE  /\ ProseTo(u, b, n) = ProseTo(t, b, n)
           /\ GoodTo(u, b, n) = GoodTo(t, b, n)
           /\ \A p \in b .. n : Fresh(u, b, p + 1) <=> Fresh(t, b, p + 1)
<1> USE DEF Alike
<1>1. ASSUME NEW i \in b .. n PROVE InBlock(u, b, i) <=> InBlock(t, b, i)
  <2>1. \A j \in b + 1 .. i : j \in 1 .. n /\ \A k \in j .. i - 1 : k \in 1 .. n
    OBVIOUS
  <2> QED
    BY <2>1 DEF InBlock
<1>2. ASSUME NEW p \in b .. n PROVE Fresh(u, b, p + 1) <=> Fresh(t, b, p + 1)
  <2>1. p + 1 - 1 = p /\ p \in Nat
    OBVIOUS
  <2>2. CASE p = 0
    <3>1. ~InBlock(u, b, p) /\ ~InBlock(t, b, p)
      BY <2>2 DEF InBlock
    <3> QED
      BY <2>1, <3>1 DEF Fresh
  <2>3. CASE p # 0
    <3>1. p \in 1 .. n
      BY <2>3
    <3> QED
      BY <1>1, <2>1, <3>1 DEF Fresh
  <2> QED
    BY <2>2, <2>3
<1>3. ProseTo(u, b, n) = ProseTo(t, b, n)
  <2>1. \A i \in b + 1 .. n : i \in b .. n
    OBVIOUS
  <2> QED
    BY <1>1, <2>1 DEF ProseTo
<1>4. ASSUME NEW i \in b + 1 .. n, NEW j \in b + 1 .. n, i < j
      PROVE  /\ BlockLine(u, b, i, j) <=> BlockLine(t, b, i, j)
             /\ SubSeq(u, i, j - 1) = SubSeq(t, i, j - 1)
  <2>1. i \in b .. n /\ i - 1 \in b .. n /\ i - 1 + 1 = i /\ j \in 1 .. n
        /\ \A k \in i .. j - 1 : k \in 1 .. n
    BY <1>4
  <2>2. Fresh(u, b, i) <=> Fresh(t, b, i)
    BY <1>2, <2>1
  <2>3. BlockLine(u, b, i, j) <=> BlockLine(t, b, i, j)
    BY <1>1, <2>1, <2>2 DEF BlockLine
  <2> DEFINE q == SubSeq(t, i, j - 1)
             m == j - 1
  <2>4. i \in Nat /\ m \in Nat /\ 0 < i /\ i <= m + 1 /\ m <= Len(u) /\ m <= Len(t) /\ m <= n
    BY <1>4
  <2>5. q \in Seq(Char) /\ Len(q) = m - i + 1 /\ \A x \in 1 .. m - i + 1 : q[x] = t[i - 1 + x]
    <3>1. \A k, l \in Nat : 0 < k /\ k <= l + 1 /\ l <= Len(t) =>
            /\ SubSeq(t, k, l) \in Seq(Char) /\ Len(SubSeq(t, k, l)) = l - k + 1
            /\ \A x \in 1 .. l - k + 1 : SubSeq(t, k, l)[x] = t[k - 1 + x]
      OBVIOUS
    <3> HIDE DEF m
    <3>2. q = SubSeq(t, i, m)
      BY DEF m
    <3> HIDE DEF q
    <3>3. /\ SubSeq(t, i, m) \in Seq(Char) /\ Len(SubSeq(t, i, m)) = m - i + 1
          /\ \A x \in 1 .. m - i + 1 : SubSeq(t, i, m)[x] = t[i - 1 + x]
      BY <2>4, <3>1
    <3> QED
      BY <3>2, <3>3
  <2> HIDE DEF m, q
  <2>6. ASSUME NEW x \in 1 .. Len(q) PROVE q[x] = u[i - 1 + x]
    <3>1. i - 1 + x \in 1 .. n
      BY <2>4, <2>5
    <3> QED
      BY <2>5, <3>1
  <2>7. SubSeq(u, i, m) = q
    BY <2>4, <2>5, <2>6, SameStretch
  <2> QED
    BY <2>3, <2>7 DEF m, q
<1>5. ASSUME NEW k \in b + 1 .. n, NEW i \in b + 1 .. k, NEW j \in k + 1 .. n
      PROVE  i \in b + 1 .. n /\ j \in b + 1 .. n /\ i < j
  OBVIOUS
<1>6. GoodTo(u, b, n) = GoodTo(t, b, n)
  BY <1>4, <1>5 DEF GoodTo
<1> QED
  BY <1>2, <1>3, <1>6

\* The places of a piece, and those of the pieces of an answer.
PlacesIn(q) == {q[x].at : x \in DOMAIN q}

SentPlaces(block) == UNION {PlacesIn(block[i].payload) : i \in DOMAIN block}

\* A stretch takes all the places from its first to its last, ...
LEMMA PlacesOfStretch ==
    ASSUME NEW t \in Seq(Char), Numbered(t), NEW n, NEW q, Stretch(t, n, q)
    PROVE  PlacesIn(q) = n + 1 .. n + Len(q)
<1>1. /\ n \in Nat /\ Len(q) \in Nat /\ Len(t) \in Nat /\ n + Len(q) <= Len(t)
      /\ DOMAIN q = 1 .. Len(q) /\ DOMAIN t = 1 .. Len(t)
      /\ \A x \in 1 .. Len(q) : q[x] = t[n + x]
  BY DEF Stretch
<1>2. ASSUME NEW x \in 1 .. Len(q) PROVE q[x].at = n + x /\ n + x \in n + 1 .. n + Len(q)
  <2>1. n + x \in 1 .. Len(t) /\ n + x \in n + 1 .. n + Len(q)
    BY <1>1
  <2> QED
    BY <1>1, <2>1 DEF Numbered
<1>3. ASSUME NEW k \in n + 1 .. n + Len(q) PROVE \E x \in 1 .. Len(q) : n + x = k
  <2>1. k - n \in 1 .. Len(q) /\ n + (k - n) = k
    BY <1>1
  <2> QED
    BY <2>1
<1>4. PlacesIn(q) \subseteq n + 1 .. n + Len(q)
  BY <1>1, <1>2 DEF PlacesIn
<1>5. n + 1 .. n + Len(q) \subseteq PlacesIn(q)
  BY <1>1, <1>2, <1>3 DEF PlacesIn
<1> QED
  BY <1>4, <1>5

\* ... two pieces in a row those of both, ...
LEMMA PlacesConcat ==
    ASSUME NEW p \in Seq(Char), NEW q \in Seq(Char)
    PROVE  PlacesIn(p \o q) = PlacesIn(p) \cup PlacesIn(q)
<1> DEFINE r == p \o q
<1>1. /\ DOMAIN r = 1 .. Len(p) + Len(q) /\ DOMAIN p = 1 .. Len(p) /\ DOMAIN q = 1 .. Len(q)
      /\ Len(p) \in Nat /\ Len(q) \in Nat
      /\ \A x \in 1 .. Len(p) : r[x] = p[x]
      /\ \A x \in Len(p) + 1 .. Len(p) + Len(q) : r[x] = q[x - Len(p)]
  OBVIOUS
<1> HIDE DEF r
<1>2. ASSUME NEW x \in DOMAIN r PROVE r[x].at \in PlacesIn(p) \cup PlacesIn(q)
  <2>1. CASE x \in 1 .. Len(p)
    BY <1>1, <2>1 DEF PlacesIn
  <2>2. CASE x \in Len(p) + 1 .. Len(p) + Len(q)
    <3>1. x - Len(p) \in DOMAIN q
      BY <1>1, <2>2
    <3> QED
      BY <1>1, <2>2, <3>1 DEF PlacesIn
  <2> QED
    BY <1>1, <2>1, <2>2
<1>3. ASSUME NEW x \in DOMAIN p PROVE p[x].at \in PlacesIn(r)
  <2>1. x \in DOMAIN r
    BY <1>1
  <2> QED
    BY <1>1, <2>1 DEF PlacesIn
<1>4. ASSUME NEW x \in DOMAIN q PROVE q[x].at \in PlacesIn(r)
  <2>1. Len(p) + x \in Len(p) + 1 .. Len(p) + Len(q) /\ Len(p) + x - Len(p) = x
        /\ Len(p) + x \in DOMAIN r
    BY <1>1
  <2> QED
    BY <1>1, <2>1 DEF PlacesIn
<1>5. PlacesIn(r) \subseteq PlacesIn(p) \cup PlacesIn(q)
  BY <1>2 DEF PlacesIn
<1>6. PlacesIn(p) \subseteq PlacesIn(r)
  BY <1>3 DEF PlacesIn
<1>7. PlacesIn(q) \subseteq PlacesIn(r)
  BY <1>4 DEF PlacesIn
<1> QED
  BY <1>5, <1>6, <1>7 DEF r

\* ... and a piece that is saved adds its own.
LEMMA PlacesSaved ==
    ASSUME NEW c \in Seq(Seq(Char)), NEW q \in Seq(Char)
    PROVE  Places(Saved(c, q)) = Places(c) \cup PlacesIn(q)
<1>1. CASE q = <<>>
  BY <1>1 DEF Saved, PlacesIn
<1>2. CASE q # <<>>
  <2> DEFINE e == Append(c, q)
  <2>1. /\ DOMAIN e = 1 .. Len(c) + 1 /\ DOMAIN c = 1 .. Len(c) /\ Len(c) \in Nat
        /\ \A i \in 1 .. Len(c) : e[i] = c[i]
        /\ e[Len(c) + 1] = q
    OBVIOUS
  <2>2. \A i : i \in 1 .. Len(c) + 1 <=> i \in 1 .. Len(c) \/ i = Len(c) + 1
    BY <2>1
  <2> HIDE DEF e
  <2>3. Places(e) = UNION {PlacesIn(e[i]) : i \in DOMAIN e}
        /\ Places(c) = UNION {PlacesIn(c[i]) : i \in DOMAIN c}
    BY DEF Places, PlacesIn
  <2>4. Places(e) = Places(c) \cup PlacesIn(q)
    BY <2>1, <2>2, <2>3
  <2> QED
    BY <1>2, <2>4 DEF Saved, e
<1> QED
  BY <1>1, <1>2

\* What an answer sends: nothing, ...
LEMMA SentNothing ==
    ASSUME NEW s, NEW a, NEW content, NEW buffer, NEW parsing, NEW current,
           Effect(s, a, content, buffer, parsing, current, <<>>)
    PROVE  a.manager.buffer = buffer /\ SentPlaces(a.block) = {}
<1>1. a.block = <<>> /\ a.manager.buffer = buffer
  BY DEF Effect
<1> QED
  BY <1>1 DEF SentPlaces

\* ... or one piece.
LEMMA SentPiece ==
    ASSUME NEW s, NEW a, NEW content, NEW buffer, NEW parsing, NEW current, NEW q,
           Effect(s, a, content, buffer, parsing, current, <<q>>)
    PROVE  a.manager.buffer = buffer /\ SentPlaces(a.block) = PlacesIn(q)
<1>1. <<q>> # <<>> /\ <<q>>[1] = q
  OBVIOUS
<1> DEFINE e == [sequence_number |-> s.sequence_counter, payload |-> q]
<1>2. a.block = <<e>> /\ a.manager.buffer = buffer
  BY <1>1 DEF Effect
<1>3. e.payload = q
  OBVIOUS
<1> HIDE DEF e
<1>4. DOMAIN <<e>> = {1} /\ <<e>>[1] = e
  OBVIOUS
<1> QED
  BY <1>2, <1>3, <1>4 DEF SentPlaces

\* What it means for a delta that nothing is cut.
LEMMA CutFacts ==
    ASSUME NEW s \in Manager, NEW d \in Seq(Char)
    PROVE  /\ CutsOf(s, d) \cap {"overflow", "tail"} = {} =>
                /\ ~(Len(s.buffer) > MaxBuffer)
                /\ s.parsing_block /\ Has(s.buffer \o d, "nl") =>
                        After(s.buffer \o d, "nl") = <<>>
                /\ ~s.parsing_block /\ Has(d, "open") /\ Has(s.buffer \o From(d, "open"), "nl") =>
                        /\ Before(d, "open") = <<>>
                        /\ After(s.buffer \o From(d, "open"), "nl") = <<>>
           /\ CutsOf(s, d) = {} /\ ~s.parsing_block /\ Has(d, "open")
                /\ Before(d, "open") # <<>> => s.current_message = <<>>
<1>1. (~(Len(s.buffer) > MaxBuffer)) \/ "overflow" \in CutsOf(s, d)
  BY DEF CutsOf
<1>2. ASSUME ~(Len(s.buffer) > MaxBuffer), s.parsing_block, Has(s.buffer \o d, "nl"),
             After(s.buffer \o d, "nl") # <<>>
      PROVE  "tail" \in CutsOf(s, d)
  BY <1>2 DEF CutsOf
<1>3. ASSUME ~(Len(s.buffer) > MaxBuffer), ~s.parsing_block, Has(d, "open"),
             Has(s.buffer \o From(d, "open"), "nl"),
             \/ Before(d, "open") # <<>>
             \/ After(s.buffer \o From(d, "open"), "nl") # <<>>
      PROVE  "tail" \in CutsOf(s, d)
  BY <1>3 DEF CutsOf
<1>4. ASSUME ~(Len(s.buffer) > MaxBuffer), ~s.parsing_block, Has(d, "open"),
             Before(d, "open") # <<>>, s.current_message # <<>>
      PROVE  "prefix" \in CutsOf(s, d)
  BY <1>4 DEF CutsOf
<1> QED
  BY <1>1, <1>2, <1>3, <1>4

(***************************************************************************)
(* Nothing but what is cut is lost: S is the places that were sent.        *)
(***************************************************************************)
\* What is sent is the prose and the blocks that parse, as far as the text is settled.
Exact(t, b, s, S) ==
    /\ Fresh(t, b, Settled(t, s) + 1)
    /\ ~Has(s.buffer, "nl")
    /\ S = ProseTo(t, b, Settled(t, s)) \cup GoodTo(t, b, Settled(t, s))

\* A block that goes on, or ends with its line, keeps that.
LEMMA BlockExact ==
    ASSUME NEW u \in Seq(Char), Numbered(u), NEW b \in Nat, NEW s \in Manager, NEW a,
           NEW p \in Nat, b <= p, Fresh(u, b, p + 1),
           NEW q, Stretch(u, p, q), p + Len(q) = Len(u), q # <<>>, q[1].kind = "open",
           Has(q, "nl") => After(q, "nl") = <<>>,
           NEW c, BlockEffect(s, a, c, <<>>, q)
    PROVE  Exact(u, b, a.manager, ProseTo(u, b, p) \cup GoodTo(u, b, p) \cup SentPlaces(a.block))
<1> DEFINE n == Len(u)
           S == ProseTo(u, b, p) \cup GoodTo(u, b, p)
<1>1. /\ q \in Seq(Char) /\ n \in Nat /\ Len(q) \in Nat /\ Len(<<>>) = 0 /\ <<>> \in Seq(Char)
      /\ \A x \in 1 .. Len(q) : q[x] = u[p + x]
  BY DEF Stretch
<1>2. CASE ~Has(q, "nl")
  <2>1. Effect(s, a, c, q, TRUE, <<>>, <<>>)
    BY <1>2 DEF BlockEffect
  <2>2. a.manager.buffer = q /\ SentPlaces(a.block) = {}
    BY <2>1, SentNothing
  <2>3. Settled(u, a.manager) = p
    <3>1. \A k, l \in Nat : k + l - l = k
      OBVIOUS
    <3> QED
      BY <1>1, <2>2, <3>1 DEF Settled
  <2> QED
    BY <1>2, <2>2, <2>3 DEF Exact
<1>3. CASE Has(q, "nl")
  <2> DEFINE line == Before(q, "nl")
  <2>1. PICK i \in 1 .. Len(q) :
            /\ q[i].kind = "nl" /\ \A j \in 1 .. i - 1 : q[j].kind # "nl"
            /\ Stretch(u, p, line) /\ Len(line) = i - 1 /\ Len(After(q, "nl")) = Len(q) - i
    <3> HIDE DEF n, S
    <3>1. Has(q, "nl") /\ Stretch(u, p, q)
      BY <1>3
    <3>2. \E i \in 1 .. Len(q) :
              /\ q[i].kind = "nl" /\ \A j \in 1 .. i - 1 : q[j].kind # "nl"
              /\ Stretch(u, p, Before(q, "nl")) /\ Len(Before(q, "nl")) = i - 1
              /\ Stretch(u, p + i, After(q, "nl")) /\ Len(After(q, "nl")) = Len(q) - i
              /\ Stretch(u, p + (i - 1), From(q, "nl")) /\ Len(From(q, "nl")) = Len(q) - i + 1
              /\ From(q, "nl")[1] = q[i]
      BY <3>1, StretchParts
    <3> QED
      BY <3>2
  <2>2. i = Len(q)
    <3>1. Len(q) - i = 0
      BY <1>1, <1>3, <2>1
    <3> QED
      BY <1>1, <3>1
  <2>3. i # 1
    BY <2>1
  <2>4. n = p + i /\ p < n /\ i \in Nat /\ i > 1
    BY <1>1, <2>2, <2>3
  <2> HIDE DEF n, line
  <2>5. u[n].kind = "nl" /\ u[p + 1].kind = "open"
    <3>1. 1 \in 1 .. Len(q) /\ i \in 1 .. Len(q)
      BY <2>2, <2>4
    <3> QED
      BY <1>1, <2>1, <2>4, <3>1
  <2>6. Without(u, "nl", p + 1, n - 1)
    <3> SUFFICES ASSUME NEW k \in p + 1 .. n - 1 PROVE u[k].kind # "nl"
      BY DEF Without
    <3>1. k - p \in 1 .. i - 1 /\ k - p \in 1 .. Len(q) /\ p + (k - p) = k
      BY <1>1, <2>2, <2>4
    <3> QED
      BY <1>1, <2>1, <3>1
  <2>7. ProseTo(u, b, n) = ProseTo(u, b, p)
    BY <1>1, <2>4, <2>5, <2>6, BlockGoesOn
  <2>8. /\ Fresh(u, b, n + 1)
        /\ Parses(SubSeq(u, p + 1, n - 1)) => GoodTo(u, b, n) = GoodTo(u, b, p) \cup (p + 1 .. n - 1)
        /\ ~Parses(SubSeq(u, p + 1, n - 1)) => GoodTo(u, b, n) = GoodTo(u, b, p)
    <3>1. n \in Nat /\ p < n /\ u[p + 1].kind = "open" /\ Without(u, "nl", p + 1, n - 1)
          /\ u[n].kind = "nl"
      <4>1. n \in Nat
        BY <1>1
      <4> QED
        BY <4>1, <2>4, <2>5, <2>6
    <3>2. Fresh(u, b, n + 1)
      BY <3>1, BlockEnds
    <3>3. Parses(SubSeq(u, p + 1, n - 1)) => Grows(u, b, p, n)
      BY <3>1, BlockEnds
    <3>4. ~Parses(SubSeq(u, p + 1, n - 1)) => GoodTo(u, b, n) = GoodTo(u, b, p)
      BY <3>1, BlockEnds
    <3> QED
      BY <3>2, <3>3, <3>4 DEF Grows
  <2>9. SubSeq(u, p + 1, n - 1) = line
    <3>1. line \in Seq(Char) /\ Len(line) = i - 1 /\ \A x \in 1 .. Len(line) : line[x] = u[p + x]
      BY <2>1 DEF Stretch
    <3> PICK k, l : k = p + 1 /\ l = n - 1
      OBVIOUS
    <3>2. k \in Nat /\ l \in Nat /\ 0 < k /\ k <= l + 1 /\ l <= n
          /\ i - 1 = l - k + 1 /\ k - 1 = p
      <4>1. \A v, w, x, y, z \in Nat :
                v = w + x /\ x > 1 /\ y = w + 1 =>
                  /\ v - 1 \in Nat /\ 0 < y /\ y <= v - 1 + 1 /\ v - 1 <= v
                  /\ x - 1 = v - 1 - y + 1 /\ y - 1 = w
        OBVIOUS
      <4> QED
        BY <2>4, <4>1
    <3>3. \A x \in 1 .. Len(line) : line[x] = u[k - 1 + x]
      BY <3>1, <3>2
    <3>4. l <= Len(u) /\ Len(line) = l - k + 1
      BY <3>1, <3>2 DEF n
    <3>5. SubSeq(u, k, l) = line
      BY <3>1, <3>2, <3>3, <3>4, SameStretch
    <3> QED
      BY <3>5
  <2>10. PlacesIn(line) = p + 1 .. n - 1
    <3>1. p + (i - 1) = n - 1
      BY <2>4
    <3> QED
      BY <2>1, <3>1, PlacesOfStretch
  <2>11. ASSUME a.manager.buffer = <<>>,
                SentPlaces(a.block) = IF Parses(line) THEN PlacesIn(line) ELSE {}
         PROVE  Exact(u, b, a.manager, S \cup SentPlaces(a.block))
    <3>1. Settled(u, a.manager) = n
      BY <1>1, <2>11 DEF Settled, n
    <3>2. ~Has(<<>>, "nl")
      BY DEF Has
    <3>3. S \cup SentPlaces(a.block) = ProseTo(u, b, n) \cup GoodTo(u, b, n)
      BY <2>7, <2>8, <2>9, <2>10, <2>11
    <3> HIDE DEF S
    <3> QED
      BY <2>8, <2>11, <3>1, <3>2, <3>3 DEF Exact
  <2>12. CASE Parses(line)
    <3>1. Effect(s, a, Saved(c, line), <<>>, FALSE, <<>> \o After(q, "nl"), <<line>>)
      BY <1>3, <2>12 DEF BlockEffect, line
    <3>2. a.manager.buffer = <<>> /\ SentPlaces(a.block) = PlacesIn(line)
      BY <3>1, SentPiece
    <3> QED
      BY <2>11, <2>12, <3>2
  <2>13. CASE ~Parses(line)
    <3>1. Effect(s, a, c, <<>>, FALSE, <<>> \o After(q, "nl"), <<>>)
      BY <1>3, <2>13 DEF BlockEffect, line
    <3>2. a.manager.buffer = <<>> /\ SentPlaces(a.block) = {}
      BY <3>1, SentNothing
    <3> QED
      BY <2>11, <2>13, <3>2
  <2> QED
    BY <2>12, <2>13
<1> QED
  BY <1>2, <1>3

\* A delta that is not cut keeps that.
LEMMA DeltaExact ==
    ASSUME NEW t \in Seq(Char), NEW d \in Seq(Char), Numbered(t \o d),
           NEW b \in Nat, NEW s \in Manager, Standing(t, b, s), NEW S, Exact(t, b, s, S),
           CutsOf(s, d) \cap {"overflow", "tail"} = {}
    PROVE  Exact(t \o d, b, AddDelta(s, d).manager, S \cup SentPlaces(AddDelta(s, d).block))
<1> DEFINE a == AddDelta(s, d)
           u == t \o d
           q == s.buffer
           c == s.content_items
           m == s.current_message
           p == Settled(t, s)
           L == Len(t)
           W == ProseTo(u, b, p) \cup GoodTo(u, b, p)
<1>1. /\ c \in Seq(Seq(Char)) /\ m \in Seq(Char) /\ q \in Seq(Char) /\ s.parsing_block \in BOOLEAN
      /\ <<>> \in Seq(Char) /\ Len(<<>>) = 0
  BY DEF Manager
<1>2. /\ Stretch(t, p, q) /\ b <= p
      /\ \/ s.parsing_block /\ m = <<>> /\ q # <<>> /\ q[1].kind = "open"
         \/ ~s.parsing_block /\ q = <<>>
  BY DEF Standing
<1>3. /\ L \in Nat /\ Len(d) \in Nat /\ Len(q) \in Nat /\ u \in Seq(Char)
      /\ Len(u) = L + Len(d) /\ Len(u) \in Nat /\ \A x \in 1 .. L : u[x] = t[x]
  BY <1>1
<1>4. p \in Nat /\ p + Len(q) = L /\ p = L - Len(q)
  <2>1. p \in Nat
    BY <1>2 DEF Stretch
  <2>2. p = L - Len(q)
    BY DEF Settled
  <2> HIDE DEF p, L
  <2> QED
    BY <1>3, <2>1, <2>2
<1>5. Stretch(u, L, d) /\ Stretch(u, p, q \o d)
  BY <1>2, <1>4, StretchLonger
<1>6. Numbered(u)
  OBVIOUS
<1>7. /\ ~(Len(q) > MaxBuffer)
      /\ s.parsing_block /\ Has(q \o d, "nl") => After(q \o d, "nl") = <<>>
      /\ ~s.parsing_block /\ Has(d, "open") /\ Has(q \o From(d, "open"), "nl") =>
            Before(d, "open") = <<>> /\ After(q \o From(d, "open"), "nl") = <<>>
  BY CutFacts
<1>8. /\ \/ Len(q) > MaxBuffer
         \/ s.parsing_block /\ BlockEffect(s, a, c, m, q \o d)
         \/ /\ ~s.parsing_block /\ Has(d, "open") /\ Before(d, "open") = <<>>
            /\ BlockEffect(s, a, Saved(c, m), <<>>, From(d, "open"))
         \/ /\ ~s.parsing_block /\ Has(d, "open") /\ Before(d, "open") # <<>>
            /\ Effect(s, a, Saved(c, Before(d, "open")), From(d, "open"), TRUE, <<>>,
                      <<Before(d, "open")>>)
         \/ /\ ~s.parsing_block /\ ~Has(d, "open")
            /\ Effect(s, a, c, q, FALSE, m \o d, <<d>>)
  BY AddDeltaEffect
<1>9. Fresh(t, b, p + 1) /\ S = ProseTo(t, b, p) \cup GoodTo(t, b, p)
  BY DEF Exact
<1> SUFFICES Exact(u, b, a.manager, S \cup SentPlaces(a.block))
  OBVIOUS
<1> HIDE DEF a, u, p, L, q, c, m
<1>10. p <= L /\ p <= Len(u) /\ L <= Len(u) /\ b <= L /\ b <= p
  <2>1. b <= p
    BY <1>2
  <2> QED
    BY <1>3, <1>4, <2>1
<1>11. S = W /\ Fresh(u, b, p + 1)
  <2>1. Alike(t, u, p)
    <3>1. \A x \in 1 .. p : x \in 1 .. L
      BY <1>3, <1>4, <1>10
    <3> QED
      BY <1>3, <1>10, <3>1 DEF L, Alike
  <2>2. p \in b .. p
    BY <1>4, <1>10
  <2>3. /\ ProseTo(u, b, p) = ProseTo(t, b, p) /\ GoodTo(u, b, p) = GoodTo(t, b, p)
        /\ Fresh(u, b, p + 1) <=> Fresh(t, b, p + 1)
    <3>1. /\ ProseTo(u, b, p) = ProseTo(t, b, p) /\ GoodTo(u, b, p) = GoodTo(t, b, p)
          /\ \A k \in b .. p : Fresh(u, b, k + 1) <=> Fresh(t, b, k + 1)
      <4>1. u \in Seq(Char) /\ p \in Nat /\ Alike(t, u, p)
        BY <1>3, <1>4, <2>1
      <4> QED
        BY <4>1, TextBefore
    <3> QED
      BY <2>2, <3>1
  <2> QED
    BY <1>9, <2>3
<1>12. CASE s.parsing_block /\ BlockEffect(s, a, c, m, q \o d)
  <2> DEFINE r == q \o d
  <2>1. m = <<>> /\ q # <<>> /\ q[1].kind = "open"
    BY <1>2, <1>12
  <2>2. r # <<>> /\ r[1] = q[1] /\ Len(r) = Len(q) + Len(d)
    BY <1>1, <2>1
  <2>3. p + Len(r) = Len(u)
    <3>1. \A j, k, l \in Nat : j + (k + l) = (j + k) + l
      OBVIOUS
    <3> QED
      BY <1>3, <1>4, <2>2, <3>1
  <2>4. /\ Stretch(u, p, r) /\ r[1].kind = "open" /\ BlockEffect(s, a, c, <<>>, r)
        /\ Has(r, "nl") => After(r, "nl") = <<>>
    BY <1>5, <1>7, <1>12, <2>1, <2>2
  <2> HIDE DEF r
  <2> QED
    BY <1>3, <1>4, <1>6, <1>10, <1>11, <2>2, <2>3, <2>4, BlockExact
<1>13. ASSUME ~s.parsing_block
       PROVE  /\ q = <<>> /\ p = L
              /\ \A r \in Seq(Char) : q \o r = r
              /\ Has(d, "open") /\ Has(From(d, "open"), "nl") =>
                    Before(d, "open") = <<>> /\ After(From(d, "open"), "nl") = <<>>
  <2>1. q = <<>>
    BY <1>2, <1>13
  <2>2. p = L
    BY <1>1, <1>3, <1>4, <2>1
  <2>3. \A r \in Seq(Char) : q \o r = r
    BY <2>1
  <2>4. Has(d, "open") => From(d, "open") \in Seq(Char)
    BY Parts
  <2>5. Has(d, "open") => q \o From(d, "open") = From(d, "open")
    BY <2>3, <2>4
  <2> QED
    BY <1>7, <1>13, <2>1, <2>2, <2>3, <2>5
<1>14. CASE /\ ~s.parsing_block /\ Has(d, "open") /\ Before(d, "open") = <<>>
            /\ BlockEffect(s, a, Saved(c, m), <<>>, From(d, "open"))
  <2> DEFINE r == From(d, "open")
  <2>1. PICK i \in 1 .. Len(d) :
            /\ d[i].kind = "open" /\ Len(Before(d, "open")) = i - 1
            /\ Stretch(u, L + (i - 1), r) /\ Len(r) = Len(d) - i + 1 /\ r[1] = d[i]
    <3>1. u \in Seq(Char) /\ Has(d, "open") /\ Stretch(u, L, d)
      BY <1>3, <1>5, <1>14
    <3>2. \E i \in 1 .. Len(d) :
            /\ d[i].kind = "open" /\ \A j \in 1 .. i - 1 : d[j].kind # "open"
            /\ Len(Before(d, "open")) = i - 1
            /\ Stretch(u, L + (i - 1), r) /\ Len(r) = Len(d) - i + 1 /\ r[1] = d[i]
      BY <3>1, StretchParts
    <3> QED
      BY <3>2
  <2>2. i = 1
    BY <1>1, <1>14, <2>1
  <2>3. /\ BlockEffect(s, a, Saved(c, m), <<>>, r)
        /\ Has(r, "nl") => After(r, "nl") = <<>>
    BY <1>13, <1>14
  <2> HIDE DEF r
  <2>4. Len(r) = Len(d) /\ L + (i - 1) = L /\ Len(d) >= 1
    BY <1>3, <2>1, <2>2
  <2>5. Stretch(u, p, r) /\ p + Len(r) = Len(u) /\ r # <<>> /\ r[1].kind = "open"
    <3>1. p = L
      BY <1>13, <1>14
    <3> QED
      BY <1>1, <1>3, <2>1, <2>2, <2>4, <3>1
  <2> QED
    BY <1>3, <1>4, <1>6, <1>10, <1>11, <2>3, <2>5, BlockExact
<1>15. CASE /\ ~s.parsing_block /\ Has(d, "open") /\ Before(d, "open") # <<>>
            /\ Effect(s, a, Saved(c, Before(d, "open")), From(d, "open"), TRUE, <<>>,
                      <<Before(d, "open")>>)
  <2> DEFINE r == From(d, "open")
             w == Before(d, "open")
  <2>1. PICK i \in 1 .. Len(d) :
            /\ d[i].kind = "open" /\ \A j \in 1 .. i - 1 : d[j].kind # "open"
            /\ Stretch(u, L, w) /\ Len(w) = i - 1
            /\ Stretch(u, L + (i - 1), r) /\ Len(r) = Len(d) - i + 1 /\ r[1] = d[i]
    <3>1. u \in Seq(Char) /\ Has(d, "open") /\ Stretch(u, L, d)
      BY <1>3, <1>5, <1>15
    <3>2. \E i \in 1 .. Len(d) :
            /\ d[i].kind = "open" /\ \A j \in 1 .. i - 1 : d[j].kind # "open"
            /\ Stretch(u, L, w) /\ Len(w) = i - 1
            /\ Stretch(u, L + (i - 1), r) /\ Len(r) = Len(d) - i + 1 /\ r[1] = d[i]
      BY <3>1, StretchParts
    <3> QED
      BY <3>2
  <2>2. /\ Effect(s, a, Saved(c, w), r, TRUE, <<>>, <<w>>)
        /\ ~Has(r, "nl")
    BY <1>13, <1>15
  <2>3. p = L
    BY <1>13, <1>15
  <2> HIDE DEF r, w
  <2>4. PICK n \in Nat : n = L + (i - 1) /\ L <= n /\ n = L + Len(w) /\ n + Len(r) = Len(u)
    <3>1. L + (i - 1) \in Nat /\ L <= L + (i - 1)
      BY <1>3
    <3>2. L + (i - 1) + (Len(d) - i + 1) = Len(u)
      BY <1>3
    <3> QED
      BY <2>1, <3>1, <3>2
  <2>5. Without(u, "open", L + 1, n)
    <3> SUFFICES ASSUME NEW k \in L + 1 .. n PROVE u[k].kind # "open"
      BY DEF Without
    <3>1. k - L \in 1 .. i - 1 /\ k - L \in 1 .. Len(d) /\ L + (k - L) = k
      <4>1. k \in Int /\ L < k /\ k <= L + (i - 1)
        BY <1>3, <2>4
      <4>2. i \in Nat /\ i <= Len(d) /\ L \in Nat /\ Len(d) \in Nat
        BY <1>3
      <4> QED
        BY <4>1, <4>2
    <3>2. \A x \in 1 .. Len(d) : d[x] = u[L + x]
      BY <1>5 DEF Stretch
    <3> QED
      BY <2>1, <3>1, <3>2
  <2>6. /\ Fresh(u, b, n + 1)
        /\ ProseTo(u, b, n) = ProseTo(u, b, L) \cup (L + 1 .. n)
        /\ GoodTo(u, b, n) = GoodTo(u, b, L)
    <3>1. b <= L /\ L \in Nat /\ L <= n /\ Fresh(u, b, L + 1)
      BY <1>3, <1>10, <1>11, <2>3, <2>4
    <3> QED
      BY <2>5, <3>1, ProseOn
  <2>7. PlacesIn(w) = L + 1 .. n
    <3>1. u \in Seq(Char) /\ Stretch(u, L, w)
      BY <1>3, <2>1
    <3>2. PlacesIn(w) = L + 1 .. L + Len(w)
      BY <1>6, <3>1, PlacesOfStretch
    <3> QED
      BY <2>4, <3>2
  <2>8. a.manager.buffer = r /\ SentPlaces(a.block) = PlacesIn(w)
    BY <2>2, SentPiece
  <2>9. Settled(u, a.manager) = n
    <3>1. Len(r) \in Nat
      BY <2>1 DEF Stretch
    <3>2. \A k, l \in Nat : k + l - l = k
      OBVIOUS
    <3> QED
      BY <2>4, <2>8, <3>1, <3>2 DEF Settled
  <2>10. S \cup SentPlaces(a.block) = ProseTo(u, b, n) \cup GoodTo(u, b, n)
    BY <1>11, <2>3, <2>6, <2>7, <2>8
  <2> QED
    BY <2>2, <2>6, <2>8, <2>9, <2>10 DEF Exact
<1>16. CASE /\ ~s.parsing_block /\ ~Has(d, "open")
            /\ Effect(s, a, c, q, FALSE, m \o d, <<d>>)
  <2>1. p = L /\ q = <<>>
    BY <1>13, <1>16
  <2>2. Without(u, "open", L + 1, Len(u))
    <3> SUFFICES ASSUME NEW k \in L + 1 .. Len(u) PROVE u[k].kind # "open"
      BY DEF Without
    <3>1. k - L \in 1 .. Len(d) /\ L + (k - L) = k
      BY <1>3
    <3>2. (\A x \in 1 .. Len(d) : d[x] = u[L + x]) /\ DOMAIN d = 1 .. Len(d)
      BY <1>5 DEF Stretch
    <3> QED
      BY <1>16, <3>1, <3>2 DEF Has
  <2>3. /\ Fresh(u, b, Len(u) + 1)
        /\ ProseTo(u, b, Len(u)) = ProseTo(u, b, L) \cup (L + 1 .. Len(u))
        /\ GoodTo(u, b, Len(u)) = GoodTo(u, b, L)
    BY <1>3, <1>10, <1>11, <2>1, <2>2, ProseOn
  <2>4. PlacesIn(d) = L + 1 .. Len(u)
    BY <1>3, <1>5, <1>6, PlacesOfStretch
  <2>5. a.manager.buffer = <<>> /\ SentPlaces(a.block) = PlacesIn(d)
    BY <1>16, <2>1, SentPiece
  <2>6. Settled(u, a.manager) = Len(u)
    BY <1>1, <1>3, <2>5 DEF Settled
  <2>7. ~Has(<<>>, "nl")
    BY DEF Has
  <2>8. S \cup SentPlaces(a.block) = ProseTo(u, b, Len(u)) \cup GoodTo(u, b, Len(u))
    BY <1>11, <2>1, <2>3, <2>4, <2>5
  <2> QED
    BY <2>3, <2>5, <2>6, <2>7, <2>8 DEF Exact
<1> QED
  BY <1>7, <1>8, <1>12, <1>14, <1>15, <1>16

\* At the end of the text, only the block that goes on is neither shown nor dropped.
LEMMA OpenFacts ==
    ASSUME NEW t \in Seq(Char), NEW b \in Nat, NEW s \in Manager, Standing(t, b, s),
           Numbered(t), NEW S, Exact(t, b, s, S)
    PROVE  /\ S = Prose(t, b) \cup GoodBlocks(t, b)
           /\ OpenBlock(t, b) = PlacesIn(s.buffer)
<1> DEFINE p == Settled(t, s)
           n == Len(t)
           q == s.buffer
<1>1. /\ p \in Nat /\ n \in Nat /\ b <= p /\ Stretch(t, p, q) /\ ~Has(q, "nl")
      /\ q \in Seq(Char) /\ Len(q) \in Nat /\ p = n - Len(q)
  <2>1. n \in Nat /\ b <= p /\ Stretch(t, p, q) /\ ~Has(q, "nl")
    BY DEF Standing, Exact
  <2>2. p \in Nat /\ q \in Seq(Char)
    BY <2>1 DEF Stretch
  <2> QED
    BY <2>1, <2>2 DEF Settled
<1>2. q = <<>> \/ (q # <<>> /\ q[1].kind = "open")
  BY DEF Standing
<1>3. Fresh(t, b, p + 1) /\ S = ProseTo(t, b, p) \cup GoodTo(t, b, p)
  BY DEF Exact
<1>4. Prose(t, b) = ProseTo(t, b, n) /\ GoodBlocks(t, b) = GoodTo(t, b, n)
  BY DEF Prose, ProseTo, GoodBlocks, GoodTo
<1> HIDE DEF p, n, q
<1>5. p + Len(q) = n /\ p <= n
  BY <1>1
<1>6. PlacesIn(q) = p + 1 .. n
  BY <1>1, <1>5, PlacesOfStretch
<1>7. ASSUME NEW k \in p + 1 .. n PROVE t[k].kind # "nl"
  <2>1. k - p \in 1 .. Len(q) /\ p + (k - p) = k
    BY <1>1, <1>5
  <2>2. DOMAIN q = 1 .. Len(q) /\ \A x \in 1 .. Len(q) : q[x] = t[p + x]
    BY <1>1 DEF Stretch
  <2> QED
    BY <1>1, <2>1, <2>2 DEF Has
<1>8. OpenBlock(t, b) \subseteq p + 1 .. n
  <2> SUFFICES ASSUME NEW i \in OpenBlock(t, b) PROVE i \in p + 1 .. n
    OBVIOUS
  <2>1. i \in b + 1 .. n /\ InBlock(t, b, i) /\ \A k \in i .. n : t[k].kind # "nl"
    BY DEF OpenBlock, n
  <2>2. PICK j \in b + 1 .. i : t[j].kind = "open" /\ \A k \in j .. i - 1 : t[k].kind # "nl"
    BY <2>1 DEF InBlock
  <2>3. ~(i <= p)
    <3> SUFFICES ASSUME i <= p PROVE FALSE
      OBVIOUS
    <3>1. j \in Nat /\ b < j /\ j <= p
      BY <1>1, <2>1
    <3>2. \A k \in j .. p : k \in j .. i - 1 \/ k \in i .. n
      BY <1>1, <1>5, <2>1
    <3>3. \A k \in j .. p : t[k].kind # "nl"
      BY <2>1, <2>2, <3>2
    <3> QED
      BY <1>1, <1>3, <2>2, <3>1, <3>3, NoneGoesOn
  <2> QED
    BY <1>1, <2>1, <2>3
<1>9. CASE q = <<>>
  <2>1. p = n
    BY <1>1, <1>5, <1>9
  <2>2. p + 1 .. n = {}
    BY <1>1, <2>1
  <2> QED
    BY <1>3, <1>4, <1>6, <1>8, <2>1, <2>2 DEF q
<1>10. CASE q # <<>>
  <2>1. p < n /\ t[p + 1].kind = "open" /\ t[n].kind # "nl" /\ Without(t, "nl", p + 1, n - 1)
    <3>1. Len(q) > 0
      BY <1>1, <1>10
    <3>2. p < n /\ n \in p + 1 .. n /\ \A k \in p + 1 .. n - 1 : k \in p + 1 .. n
      BY <1>1, <1>5, <3>1
    <3>3. q[1] = t[p + 1]
      BY <1>1, <3>1 DEF Stretch
    <3> QED
      BY <1>2, <1>7, <1>10, <3>2, <3>3 DEF Without
  <2>2. ProseTo(t, b, n) = ProseTo(t, b, p) /\ \A i \in p + 1 .. n : InBlock(t, b, i)
    BY <1>1, <2>1, BlockGoesOn
  <2>3. GoodTo(t, b, n) = GoodTo(t, b, p)
    BY <1>1, <1>3, <2>1, BlockEnds
  <2>4. ASSUME NEW i \in p + 1 .. n PROVE i \in OpenBlock(t, b)
    <3>1. i \in b + 1 .. n /\ \A k \in i .. n : k \in p + 1 .. n
      BY <1>1
    <3> QED
      BY <1>7, <2>2, <3>1 DEF OpenBlock, n
  <2> QED
    BY <1>3, <1>4, <1>6, <1>8, <2>2, <2>3, <2>4 DEF q
<1> QED
  BY <1>9, <1>10

\* The characters of a piece are those of the text.
OfText(t, q) == \A x \in DOMAIN q : q[x].at \in DOMAIN t /\ t[q[x].at] = q[x]

\* So are those of a stretch of it, ...
LEMMA OfTextStretch ==
    ASSUME NEW t \in Seq(Char), Numbered(t), NEW n, NEW q, Stretch(t, n, q)
    PROVE  OfText(t, q)
<1>1. /\ n \in Nat /\ Len(q) \in Nat /\ Len(t) \in Nat /\ n + Len(q) <= Len(t)
      /\ DOMAIN q = 1 .. Len(q) /\ DOMAIN t = 1 .. Len(t)
      /\ \A x \in 1 .. Len(q) : q[x] = t[n + x]
  BY DEF Stretch
<1>2. ASSUME NEW x \in 1 .. Len(q) PROVE q[x].at \in DOMAIN t /\ t[q[x].at] = q[x]
  <2>1. n + x \in 1 .. Len(t)
    BY <1>1
  <2> QED
    BY <1>1, <2>1 DEF Numbered
<1> QED
  BY <1>1, <1>2 DEF OfText

\* ... when the text goes on, ...
LEMMA OfTextLonger ==
    ASSUME NEW t \in Seq(Char), NEW d \in Seq(Char), NEW q, OfText(t, q)
    PROVE  OfText(t \o d, q)
<1> DEFINE u == t \o d
<1>1. /\ DOMAIN t = 1 .. Len(t) /\ DOMAIN u = 1 .. Len(t) + Len(d)
      /\ Len(t) \in Nat /\ Len(d) \in Nat /\ \A x \in 1 .. Len(t) : u[x] = t[x]
  OBVIOUS
<1> HIDE DEF u
<1>2. \A x \in DOMAIN t : x \in DOMAIN u /\ u[x] = t[x]
  BY <1>1
<1>3. OfText(u, q)
  BY <1>2 DEF OfText
<1> QED
  BY <1>3 DEF u

\* ... and of two pieces in a row.
LEMMA OfTextConcat ==
    ASSUME NEW t, NEW p \in Seq(Char), NEW q \in Seq(Char), OfText(t, p), OfText(t, q)
    PROVE  OfText(t, p \o q)
<1> DEFINE r == p \o q
<1>1. /\ DOMAIN r = 1 .. Len(p) + Len(q) /\ DOMAIN p = 1 .. Len(p) /\ DOMAIN q = 1 .. Len(q)
      /\ Len(p) \in Nat /\ Len(q) \in Nat
      /\ \A x \in 1 .. Len(p) : r[x] = p[x]
      /\ \A x \in Len(p) + 1 .. Len(p) + Len(q) : r[x] = q[x - Len(p)]
  OBVIOUS
<1> HIDE DEF r
<1>2. ASSUME NEW x \in DOMAIN r PROVE r[x].at \in DOMAIN t /\ t[r[x].at] = r[x]
  <2>1. CASE x \in 1 .. Len(p)
    BY <1>1, <2>1 DEF OfText
  <2>2. CASE x \in Len(p) + 1 .. Len(p) + Len(q)
    <3>1. x - Len(p) \in DOMAIN q
      BY <1>1, <2>2
    <3> QED
      BY <1>1, <2>2, <3>1 DEF OfText
  <2> QED
    BY <1>1, <2>1, <2>2
<1> QED
  BY <1>2 DEF OfText, r

(***************************************************************************)
(* Nothing but what is cut is forgotten: S is the places that were sent.   *)
(***************************************************************************)
\* What was sent is kept, in the content items or in the current message.
Kept(t, s, S) ==
    /\ OfText(t, s.current_message)
    /\ S = Places(s.content_items) \cup PlacesIn(s.current_message)

\* What there is after an effect.
LEMMA EffectKept ==
    ASSUME NEW s, NEW a, NEW content, NEW buffer, NEW parsing, NEW current, NEW shown,
           Effect(s, a, content, buffer, parsing, current, shown),
           NEW t, NEW S, OfText(t, current), S = Places(content) \cup PlacesIn(current)
    PROVE  Kept(t, a.manager, S)
  BY DEF Effect, Kept

\* A block that goes on, or ends with its line, keeps that.
LEMMA BlockKept ==
    ASSUME NEW t, NEW s, NEW a, NEW q \in Seq(Char), Has(q, "nl") => After(q, "nl") = <<>>,
           NEW c \in Seq(Seq(Char)), BlockEffect(s, a, c, <<>>, q)
    PROVE  Kept(t, a.manager, Places(c) \cup SentPlaces(a.block))
<1>1. /\ <<>> \o <<>> = <<>> /\ <<>> \in Seq(Char)
      /\ OfText(t, <<>>) /\ PlacesIn(<<>>) = {}
  BY DEF OfText, PlacesIn
<1>2. CASE Effect(s, a, c, q, TRUE, <<>>, <<>>)
  <2>1. SentPlaces(a.block) = {}
    BY <1>2, SentNothing
  <2>2. Places(c) \cup SentPlaces(a.block) = Places(c) \cup PlacesIn(<<>>)
    BY <1>1, <2>1
  <2> QED
    BY <1>1, <1>2, <2>2, EffectKept
<1>3. CASE /\ Has(q, "nl")
           /\ Effect(s, a, Saved(c, Before(q, "nl")), <<>>, FALSE, <<>> \o After(q, "nl"),
                     <<Before(q, "nl")>>)
  <2> DEFINE line == Before(q, "nl")
  <2>1. line \in Seq(Char)
    BY <1>3, Parts
  <2>2. Effect(s, a, Saved(c, line), <<>>, FALSE, <<>>, <<line>>)
    BY <1>1, <1>3
  <2> HIDE DEF line
  <2>3. SentPlaces(a.block) = PlacesIn(line)
    BY <2>2, SentPiece
  <2>4. Places(c) \cup SentPlaces(a.block) = Places(Saved(c, line)) \cup PlacesIn(<<>>)
    BY <1>1, <2>1, <2>3, PlacesSaved
  <2> QED
    BY <1>1, <2>2, <2>4, EffectKept
<1>4. CASE Has(q, "nl") /\ Effect(s, a, c, <<>>, FALSE, <<>> \o After(q, "nl"), <<>>)
  <2>1. Effect(s, a, c, <<>>, FALSE, <<>>, <<>>)
    BY <1>1, <1>4
  <2>2. SentPlaces(a.block) = {}
    BY <2>1, SentNothing
  <2>3. Places(c) \cup SentPlaces(a.block) = Places(c) \cup PlacesIn(<<>>)
    BY <1>1, <2>2
  <2> QED
    BY <1>1, <2>1, <2>3, EffectKept
<1> QED
  BY <1>2, <1>3, <1>4 DEF BlockEffect

\* A delta that is not cut keeps that.
LEMMA DeltaKept ==
    ASSUME NEW t \in Seq(Char), NEW d \in Seq(Char), Numbered(t \o d),
           NEW b \in Nat, NEW s \in Manager, Standing(t, b, s), NEW S, Kept(t, s, S),
           CutsOf(s, d) = {}
    PROVE  Kept(t \o d, AddDelta(s, d).manager, S \cup SentPlaces(AddDelta(s, d).block))
<1> DEFINE a == AddDelta(s, d)
           u == t \o d
           q == s.buffer
           c == s.content_items
           m == s.current_message
<1>1. /\ c \in Seq(Seq(Char)) /\ m \in Seq(Char) /\ q \in Seq(Char) /\ s.parsing_block \in BOOLEAN
      /\ OfText(u, <<>>) /\ PlacesIn(<<>>) = {}
  BY DEF Manager, OfText, PlacesIn
<1>2. \/ s.parsing_block /\ m = <<>>
      \/ ~s.parsing_block /\ q = <<>>
  BY DEF Standing
<1>3. CutsOf(s, d) \cap {"overflow", "tail"} = {}
  OBVIOUS
<1>4. /\ ~(Len(q) > MaxBuffer)
      /\ s.parsing_block /\ Has(q \o d, "nl") => After(q \o d, "nl") = <<>>
      /\ ~s.parsing_block /\ Has(d, "open") /\ Has(q \o From(d, "open"), "nl") =>
            Before(d, "open") = <<>> /\ After(q \o From(d, "open"), "nl") = <<>>
      /\ ~s.parsing_block /\ Has(d, "open") /\ Before(d, "open") # <<>> => m = <<>>
  BY <1>3, CutFacts
<1>5. /\ \/ Len(q) > MaxBuffer
         \/ s.parsing_block /\ BlockEffect(s, a, c, m, q \o d)
         \/ /\ ~s.parsing_block /\ Has(d, "open") /\ Before(d, "open") = <<>>
            /\ BlockEffect(s, a, Saved(c, m), <<>>, From(d, "open"))
         \/ /\ ~s.parsing_block /\ Has(d, "open") /\ Before(d, "open") # <<>>
            /\ Effect(s, a, Saved(c, Before(d, "open")), From(d, "open"), TRUE, <<>>,
                      <<Before(d, "open")>>)
         \/ /\ ~s.parsing_block /\ ~Has(d, "open")
            /\ Effect(s, a, c, q, FALSE, m \o d, <<d>>)
  BY AddDeltaEffect
<1>6. OfText(t, m) /\ S = Places(c) \cup PlacesIn(m)
  BY DEF Kept
<1>7. OfText(u, d) /\ OfText(u, m)
  <2>1. Len(t) \in Nat /\ Len(<<>>) = 0 /\ <<>> \in Seq(Char) /\ Stretch(t, Len(t), <<>>)
    BY DEF Stretch
  <2>2. Stretch(u, Len(t), d)
    BY <2>1, StretchLonger
  <2>3. u \in Seq(Char) /\ Numbered(u)
    OBVIOUS
  <2>4. OfText(u, m)
    BY <1>6, OfTextLonger
  <2> HIDE DEF u
  <2> QED
    BY <2>2, <2>3, <2>4, OfTextStretch
<1> SUFFICES Kept(u, a.manager, S \cup SentPlaces(a.block))
  OBVIOUS
<1> HIDE DEF a, u, q, c, m
<1>8. CASE s.parsing_block /\ BlockEffect(s, a, c, m, q \o d)
  <2>1. m = <<>> /\ S = Places(c)
    BY <1>1, <1>2, <1>6, <1>8
  <2>2. q \o d \in Seq(Char) /\ (Has(q \o d, "nl") => After(q \o d, "nl") = <<>>)
        /\ BlockEffect(s, a, c, <<>>, q \o d)
    BY <1>1, <1>4, <1>8, <2>1
  <2> QED
    BY <1>1, <2>1, <2>2, BlockKept
<1>9. CASE /\ ~s.parsing_block /\ Has(d, "open") /\ Before(d, "open") = <<>>
           /\ BlockEffect(s, a, Saved(c, m), <<>>, From(d, "open"))
  <2> DEFINE r == From(d, "open")
  <2>1. r \in Seq(Char)
    BY <1>9, Parts
  <2>2. q \o r = r
    BY <1>2, <1>9, <2>1
  <2>3. Has(r, "nl") => After(r, "nl") = <<>>
    BY <1>4, <1>9, <2>2
  <2>4. Saved(c, m) \in Seq(Seq(Char)) /\ S = Places(Saved(c, m))
    BY <1>1, <1>6, PlacesSaved DEF Saved
  <2>5. BlockEffect(s, a, Saved(c, m), <<>>, r)
    BY <1>9
  <2> HIDE DEF r
  <2> QED
    BY <2>1, <2>3, <2>4, <2>5, BlockKept
<1>10. CASE /\ ~s.parsing_block /\ Has(d, "open") /\ Before(d, "open") # <<>>
            /\ Effect(s, a, Saved(c, Before(d, "open")), From(d, "open"), TRUE, <<>>,
                      <<Before(d, "open")>>)
  <2> DEFINE w == Before(d, "open")
             r == From(d, "open")
  <2>1. w \in Seq(Char)
    BY <1>10, Parts
  <2>2. Effect(s, a, Saved(c, w), r, TRUE, <<>>, <<w>>)
    BY <1>10
  <2> HIDE DEF w, r
  <2>3. m = <<>> /\ S = Places(c)
    BY <1>1, <1>4, <1>6, <1>10
  <2>4. SentPlaces(a.block) = PlacesIn(w)
    BY <2>2, SentPiece
  <2>5. S \cup SentPlaces(a.block) = Places(Saved(c, w)) \cup PlacesIn(<<>>)
    BY <1>1, <2>1, <2>3, <2>4, PlacesSaved
  <2> QED
    BY <1>1, <2>2, <2>5, EffectKept
<1>11. CASE /\ ~s.parsing_block /\ ~Has(d, "open")
            /\ Effect(s, a, c, q, FALSE, m \o d, <<d>>)
  <2>1. SentPlaces(a.block) = PlacesIn(d)
    BY <1>11, SentPiece
  <2>2. S \cup SentPlaces(a.block) = Places(c) \cup PlacesIn(m \o d)
    BY <1>1, <1>6, <2>1, PlacesConcat
  <2>3. OfText(u, m \o d)
    BY <1>1, <1>7, OfTextConcat
  <2> QED
    BY <1>11, <2>2, <2>3, EffectKept
<1> QED
  BY <1>4, <1>5, <1>8, <1>9, <1>10, <1>11

(***************************************************************************)
(* What was sent of this depth, and the inductive invariant of it.         *)
(***************************************************************************)
\* The places of what was sent of this depth are the same as long as no response is sent, ...
LEMMA QuietShown ==
    ASSUME Responses' = Responses, \A i \in Responses : sent'[i] = sent[i], depth' = depth
    PROVE  Places(ShownNow)' = Places(ShownNow)
<1>1. Here' = Here /\ \A i \in Here : sent'[i] = sent[i]
  BY DEF Here
<1>2. ShownNow' = ShownNow
  BY <1>1 DEF ShownNow, Shown, Here
<1> QED
  BY <1>2

\* ... and a response adds those of its piece.
LEMMA NextShown ==
    ASSUME sent \in Seq(Message), NEW m, m.type = "response", m.depth = depth,
           sent' = Append(sent, m), depth' = depth
    PROVE  Places(ShownNow)' = Places(ShownNow) \cup PlacesIn(m.block.payload)
<1> PICK n : n = Len(sent) + 1
  OBVIOUS
<1>1. /\ Responses' = Responses \cup {n} /\ sent'[n] = m
      /\ \A i \in Responses : sent'[i] = sent[i]
  BY NextResponse
<1>2. Here' = Here \cup {n} /\ \A i \in Here : sent'[i] = sent[i]
  BY <1>1 DEF Here
<1> PICK f, g : f = ShownNow /\ g = ShownNow'
  OBVIOUS
<1>3. DOMAIN f = Here /\ \A i \in Here : f[i] = sent[i].block.payload
  BY DEF ShownNow, Shown, Here
<1>4. DOMAIN g = Here' /\ \A i \in Here' : g[i] = sent'[i].block.payload
  BY DEF ShownNow, Shown, Here
<1>5. DOMAIN g = DOMAIN f \cup {n} /\ g[n] = m.block.payload /\ \A i \in DOMAIN f : g[i] = f[i]
  <2>1. DOMAIN g = DOMAIN f \cup {n}
    BY <1>2, <1>3, <1>4
  <2>2. n \in Here'
    BY <1>2
  <2>3. g[n] = m.block.payload
    BY <1>1, <1>4, <2>2
  <2>4. ASSUME NEW i \in DOMAIN f PROVE g[i] = f[i]
    <3>1. i \in Here /\ i \in Here'
      BY <1>2, <1>3
    <3>2. f[i] = sent[i].block.payload /\ g[i] = sent'[i].block.payload
      BY <1>3, <1>4, <3>1
    <3> QED
      BY <1>2, <3>1, <3>2
  <2> QED
    BY <2>1, <2>3, <2>4
<1>6. /\ Places(f) = UNION {PlacesIn(f[i]) : i \in DOMAIN f}
      /\ Places(g) = UNION {PlacesIn(g[i]) : i \in DOMAIN g}
  BY DEF Places, PlacesIn
<1>7. Places(g) = Places(f) \cup PlacesIn(m.block.payload)
  BY <1>5, <1>6
<1> QED
  BY <1>7

\* What is remembered of a piece is all of it but line feeds.
LEMMA StripPlaces ==
    ASSUME NEW t \in Seq(Char), NEW q \in Seq(Char), OfText(t, q)
    PROVE  /\ PlacesIn(Strip(q)) \subseteq PlacesIn(q)
           /\ \A k \in PlacesIn(q) : t[k].kind # "nl" => k \in PlacesIn(Strip(q))
<1> DEFINE r == Strip(q)
<1>1. PICK i \in Nat : /\ i + Len(r) <= Len(q)
                       /\ \A x \in 1 .. Len(r) : r[x] = q[i + x]
                       /\ \A x \in 1 .. Len(q) : q[x].kind # "nl" => x \in i + 1 .. i + Len(r)
  BY StripFacts
<1>2. r \in Seq(Char) /\ DOMAIN r = 1 .. Len(r) /\ Len(r) \in Nat
      /\ DOMAIN q = 1 .. Len(q) /\ Len(q) \in Nat
  BY StripFacts
<1> HIDE DEF r
<1>3. ASSUME NEW x \in 1 .. Len(r) PROVE r[x].at \in PlacesIn(q)
  <2>1. i + x \in DOMAIN q
    BY <1>1, <1>2
  <2> QED
    BY <1>1, <2>1 DEF PlacesIn
<1>4. ASSUME NEW x \in 1 .. Len(q), t[q[x].at].kind # "nl" PROVE q[x].at \in PlacesIn(r)
  <2>1. q[x].kind # "nl"
    BY <1>2, <1>4 DEF OfText
  <2>2. x \in i + 1 .. i + Len(r)
    BY <1>1, <2>1
  <2>3. x - i \in DOMAIN r /\ i + (x - i) = x
    BY <1>1, <1>2, <2>2
  <2>4. r[x - i] = q[x]
    BY <1>1, <1>2, <2>3
  <2> QED
    BY <2>3, <2>4 DEF PlacesIn
<1>5. PlacesIn(r) \subseteq PlacesIn(q)
  BY <1>2, <1>3 DEF PlacesIn
<1>6. \A k \in PlacesIn(q) : t[k].kind # "nl" => k \in PlacesIn(r)
  BY <1>2, <1>4 DEF PlacesIn
<1> QED
  BY <1>5, <1>6 DEF r

\* The places that hold no line feed.
Solid(t, S) == {i \in S : t[i].kind # "nl"}

\* The memory has all that was sent and the block that goes on.
LEMMA MemoryExact ==
    ASSUME NEW t \in Seq(Char), NEW b \in Nat, NEW s \in Manager, Standing(t, b, s),
           Numbered(t), NEW S, Exact(t, b, s, S), Kept(t, s, S)
    PROVE  Solid(t, Places(AgentMemory(s))) =
                Solid(t, Prose(t, b) \cup GoodBlocks(t, b) \cup OpenBlock(t, b))
<1> DEFINE c == s.content_items
           q == s.buffer
           m == s.current_message
<1>1. /\ c \in Seq(Seq(Char)) /\ q \in Seq(Char) /\ m \in Seq(Char)
      /\ PlacesIn(<<>>) = {}
  BY DEF Manager, PlacesIn
<1>2. PICK v \in {q, m} : /\ v \in Seq(Char) /\ {q, m} \subseteq {v, <<>>}
                          /\ AgentMemory(s) = Saved(c, Strip(v))
  BY AnswerMemory
<1>3. S = Prose(t, b) \cup GoodBlocks(t, b) /\ OpenBlock(t, b) = PlacesIn(q)
  BY OpenFacts
<1>4. OfText(t, m) /\ S = Places(c) \cup PlacesIn(m)
  BY DEF Kept
<1>5. OfText(t, q)
  <2>1. Stretch(t, Settled(t, s), q)
    BY DEF Standing
  <2> QED
    BY <2>1, OfTextStretch
<1> HIDE DEF c, q, m
<1>6. PlacesIn(q) \cup PlacesIn(m) = PlacesIn(v)
  BY <1>1, <1>2
<1>7. S \cup OpenBlock(t, b) = Places(c) \cup PlacesIn(v)
  BY <1>3, <1>4, <1>6
<1>8. Places(AgentMemory(s)) = Places(c) \cup PlacesIn(Strip(v))
  <2>1. Strip(v) \in Seq(Char)
    BY <1>2, StripFacts
  <2> QED
    BY <1>1, <1>2, <2>1, PlacesSaved
<1>9. /\ PlacesIn(Strip(v)) \subseteq PlacesIn(v)
      /\ \A k \in PlacesIn(v) : t[k].kind # "nl" => k \in PlacesIn(Strip(v))
  <2>1. OfText(t, v)
    BY <1>2, <1>4, <1>5
  <2> QED
    BY <1>2, <2>1, StripPlaces
<1>10. Solid(t, Places(c) \cup PlacesIn(Strip(v))) = Solid(t, Places(c) \cup PlacesIn(v))
  BY <1>9 DEF Solid
<1> QED
  BY <1>3, <1>7, <1>8, <1>10

\* While the answer is written, nothing but what is cut is lost; when it has ended, it holds
\* what the runs check.
ExactInv ==
    /\ cuts \cap {"overflow", "tail"} = {} /\ phase # "done" =>
            Exact(text, begin, manager, Places(ShownNow))
    /\ cuts = {} /\ phase # "done" => Kept(text, manager, Places(ShownNow))
    /\ phase = "done" => ShownExactly /\ RememberedExactly

\* A step that writes and sends nothing keeps that, ...
LEMMA QuietExact ==
    ASSUME ExactInv, phase # "done", phase' # "done", UNCHANGED <<text, begin, cuts, depth>>,
           Agrees(manager, manager'),
           Responses' = Responses, \A i \in Responses : sent'[i] = sent[i]
    PROVE  ExactInv'
<1> PICK S : S = Places(ShownNow)
  OBVIOUS
<1>1. Places(ShownNow)' = S
  BY QuietShown
<1>2. /\ cuts \cap {"overflow", "tail"} = {} => Exact(text, begin, manager, S)
      /\ cuts = {} => Kept(text, manager, S)
  BY DEF ExactInv
<1>3. cuts' \cap {"overflow", "tail"} = {} => Exact(text', begin', manager', S)
  BY <1>2 DEF Exact, Settled, Agrees
<1>4. cuts' = {} => Kept(text', manager', S)
  BY <1>2 DEF Kept, Agrees
<1>5. (cuts \cap {"overflow", "tail"} = {})' => Exact(text, begin, manager, Places(ShownNow))'
  BY <1>1, <1>3
<1>6. (cuts = {})' => Kept(text, manager, Places(ShownNow))'
  BY <1>1, <1>4
<1> QED
  BY <1>5, <1>6 DEF ExactInv

\* ... and so does a delta, ...
LEMMA DeltaExactStep ==
    ASSUME AnswerInv, ExactInv,
           NEW n \in 1 .. MaxDelta, NEW kinds \in [1 .. n -> Kind], TextDelta(kinds)
    PROVE  ExactInv'
<1> DEFINE d == Delta(kinds)
           a == AddDelta(manager, d)
           u == text \o d
<1>1. /\ AnswerTypeOK /\ Numbered(text) /\ Standing(text, begin, manager) /\ phase = "stream"
      /\ manager \in Manager /\ sent \in Seq(Message) /\ text \in Seq(Char) /\ begin \in Nat
      /\ UNCHANGED <<phase, depth, begin>>
  BY DEF AnswerInv, AnswerTypeOK, TextDelta
<1>2. manager' = a.manager /\ text' = u /\ cuts' = cuts \cup CutsOf(manager, d)
  BY DEF TextDelta
<1>3. d \in Seq(Char) /\ u \in Seq(Char) /\ Numbered(u)
  BY <1>1, DeltaFacts DEF TextDelta
<1> HIDE DEF d
<1> PICK S : S = Places(ShownNow)
  OBVIOUS
<1>4. Places(ShownNow)' = S \cup SentPlaces(a.block)
  <2>1. Answered(manager, Settled(text, manager), u, begin, a)
    BY <1>1, <1>3, DeltaOrder
  <2>2. CASE a.block = <<>>
    <3>1. sent' = sent
      BY <1>1, <2>2, SentBlock DEF d
    <3>2. Responses' = Responses /\ \A i \in Responses : sent'[i] = sent[i]
      BY <3>1 DEF Responses
    <3>3. SentPlaces(a.block) = {}
      BY <2>2 DEF SentPlaces
    <3>4. Places(ShownNow)' = S
      BY <1>1, <3>2, QuietShown
    <3> QED
      BY <3>3, <3>4
  <2>3. CASE a.block # <<>>
    <3>1. PICK q \in Seq(Char) :
              a.block = <<[sequence_number |-> manager.sequence_counter, payload |-> q]>>
      BY <2>1, <2>3 DEF Answered
    <3> PICK e : e = [sequence_number |-> manager.sequence_counter, payload |-> q]
      OBVIOUS
    <3>2. e \in [sequence_number : Nat, payload : Seq(Char)] /\ e.payload = q /\ a.block = <<e>>
      BY <1>1, <3>1 DEF Manager
    <3> PICK m : m = [type |-> "response", depth |-> depth, block |-> e]
      OBVIOUS
    <3>3. sent' = Append(sent, m) /\ m.type = "response" /\ m.depth = depth /\ m.block = e
      BY <1>1, <3>2, SentBlock DEF d
    <3>4. Places(ShownNow)' = S \cup PlacesIn(q)
      BY <1>1, <3>2, <3>3, NextShown
    <3>5. SentPlaces(a.block) = PlacesIn(q)
      <4>1. DOMAIN <<e>> = {1} /\ <<e>>[1] = e
        OBVIOUS
      <4> HIDE DEF a
      <4> QED
        BY <3>2, <4>1 DEF SentPlaces
    <3> QED
      BY <3>4, <3>5
  <2> QED
    BY <2>2, <2>3
<1>5. (cuts \cap {"overflow", "tail"} = {})' => Exact(text, begin, manager, Places(ShownNow))'
  <2> SUFFICES ASSUME cuts' \cap {"overflow", "tail"} = {}
               PROVE  Exact(text', begin', manager', S \cup SentPlaces(a.block))
    BY <1>4
  <2>1. cuts \cap {"overflow", "tail"} = {} /\ CutsOf(manager, d) \cap {"overflow", "tail"} = {}
    BY <1>2
  <2>2. Exact(text, begin, manager, S)
    BY <1>1, <2>1 DEF ExactInv
  <2>3. Exact(u, begin, a.manager, S \cup SentPlaces(a.block))
    BY <1>1, <1>3, <2>1, <2>2, DeltaExact
  <2> QED
    BY <1>1, <1>2, <2>3
<1>6. (cuts = {})' => Kept(text, manager, Places(ShownNow))'
  <2> SUFFICES ASSUME cuts' = {}
               PROVE  Kept(text', manager', S \cup SentPlaces(a.block))
    BY <1>4
  <2>1. cuts = {} /\ CutsOf(manager, d) = {}
    BY <1>2
  <2>2. Kept(text, manager, S)
    BY <1>1, <2>1 DEF ExactInv
  <2>3. Kept(u, a.manager, S \cup SentPlaces(a.block))
    BY <1>1, <1>3, <2>1, <2>2, DeltaKept
  <2> QED
    BY <1>2, <2>3
<1>7. phase' # "done"
  BY <1>1
<1> QED
  BY <1>5, <1>6, <1>7 DEF ExactInv


\* ... the end of the stream and a tool's call, ...
LEMMA EndExactStep ==
    ASSUME AnswerInv, ExactInv, StreamFails \/ CallTool \/ CallAgain \/ Finish
    PROVE  ExactInv'
<1>1. /\ AnswerTypeOK /\ Numbered(text) /\ Standing(text, begin, manager) /\ NumbersFollow
      /\ manager \in Manager /\ sent \in Seq(Message) /\ text \in Seq(Char)
      /\ begin \in Nat /\ depth \in Nat /\ Len(text) \in Nat /\ phase # "done" /\ text' = text
  BY DEF AnswerInv, AnswerTypeOK, StreamFails, CallTool, CallAgain, Finish
<1>2. CASE StreamFails \/ CallTool \/ (CallAgain /\ depth = RecursionLimit)
  <2>1. /\ UNCHANGED <<depth, manager, begin, cuts>> /\ phase' \in {"tool", "raised"}
        /\ sent' = sent \/ Publish("tool")
    BY <1>2 DEF StreamFails, CallTool, CallAgain
  <2>2. \E m : m.type # "response" /\ (sent' = sent \/ sent' = Append(sent, m))
    <3>1. [type |-> "start"].type # "response"
      OBVIOUS
    <3> QED
      BY <1>1, <2>1, <3>1, PublishFacts
  <2>3. Responses' = Responses /\ \A i \in Responses : sent'[i] = sent[i]
    BY <1>1, <2>2, OtherMessage
  <2>4. Agrees(manager, manager') /\ phase' # "done" /\ UNCHANGED <<text, begin, cuts, depth>>
    BY <1>1, <2>1 DEF Agrees
  <2> QED
    BY <1>1, <2>3, <2>4, QuietExact
<1>3. CASE CallAgain /\ depth # RecursionLimit
  <2>1. /\ phase' = "stream" /\ depth' = depth + 1 /\ manager' = NewManager
        /\ begin' = Len(text) /\ UNCHANGED sent
    BY <1>3 DEF CallAgain
  <2>2. Responses' = Responses /\ \A i \in Responses : sent'[i] = sent[i] /\ sent[i].depth # depth'
    <3>1. Responses' = Responses /\ \A i \in Responses : sent'[i] = sent[i]
      BY <2>1 DEF Responses
    <3>2. \A i \in Responses : sent[i].depth \in Nat /\ sent[i].depth <= depth
      BY <1>1, ResponseType DEF NumbersFollow
    <3>3. \A k \in Nat : k <= depth => k # depth + 1
      BY <1>1
    <3> QED
      BY <2>1, <3>1, <3>2, <3>3
  <2>3. Places(ShownNow)' = {}
    <3>1. DOMAIN ShownNow' = {}
      BY <2>2 DEF ShownNow
    <3> PICK g : g = ShownNow'
      OBVIOUS
    <3>2. Places(g) = {}
      BY <3>1 DEF Places
    <3> QED
      BY <3>2
  <2> DEFINE t == text
             n == Len(text)
  <2>4. Exact(t, n, NewManager, {}) /\ Kept(t, NewManager, {})
    <3>1. /\ NewManager.buffer = <<>> /\ NewManager.current_message = <<>>
          /\ NewManager.content_items = <<>>
      BY DEF NewManager
    <3>2. Settled(t, NewManager) = n
      BY <1>1, NewManagerFacts
    <3>3. n \in Nat
      BY <1>1
    <3> HIDE DEF n, t
    <3>4. n + 1 - 1 = n /\ n + 1 .. n = {}
      BY <3>3
    <3>5. ~InBlock(t, n, n)
      BY <3>4 DEF InBlock
    <3>6. Fresh(t, n, n + 1)
      <4> PICK k : k = n + 1
        OBVIOUS
      <4>1. k - 1 = n
        BY <3>3
      <4>2. Fresh(t, n, k)
        BY <3>5, <4>1 DEF Fresh
      <4> QED
        BY <4>2
    <3>7. ProseTo(t, n, n) = {} /\ GoodTo(t, n, n) = {}
      BY <3>4 DEF ProseTo, GoodTo
    <3>8. ~Has(<<>>, "nl") /\ OfText(t, <<>>) /\ PlacesIn(<<>>) = {} /\ Places(<<>>) = {}
      BY DEF Has, OfText, PlacesIn, Places
    <3> QED
      BY <3>1, <3>2, <3>6, <3>7, <3>8 DEF Exact, Kept
  <2>5. /\ Exact(text, begin, manager, Places(ShownNow))'
        /\ Kept(text, manager, Places(ShownNow))'
    <3>1. Exact(text', begin', manager', {}) /\ Kept(text', manager', {})
      BY <1>1, <2>1, <2>4
    <3> QED
      BY <2>3, <3>1
  <2>6. phase' # "done"
    BY <2>1
  <2> QED
    BY <2>5, <2>6 DEF ExactInv
<1>4. CASE Finish
  <2>1. /\ memory' = AgentMemory(manager) /\ phase' = "done"
        /\ UNCHANGED <<depth, begin, cuts, sent>>
    BY <1>4 DEF Finish
  <2> PICK S : S = Places(ShownNow)
    OBVIOUS
  <2>2. Places(ShownNow)' = S
    <3>1. Responses' = Responses /\ \A i \in Responses : sent'[i] = sent[i]
      BY <2>1 DEF Responses
    <3> QED
      BY <2>1, <3>1, QuietShown
  <2>3. ShownExactly'
    <3> SUFFICES ASSUME cuts \cap {"overflow", "tail"} = {}
                 PROVE  S = Prose(text, begin) \cup GoodBlocks(text, begin)
      <4>1. Prose(text, begin)' = Prose(text, begin) /\ GoodBlocks(text, begin)' = GoodBlocks(text, begin)
        BY <1>1, <2>1
      <4> QED
        BY <2>1, <2>2, <4>1 DEF ShownExactly
    <3>1. Exact(text, begin, manager, S)
      BY <1>1 DEF ExactInv
    <3> QED
      BY <1>1, <3>1, OpenFacts
  <2>4. RememberedExactly'
    <3> DEFINE all == Prose(text, begin) \cup GoodBlocks(text, begin) \cup OpenBlock(text, begin)
    <3> SUFFICES ASSUME cuts = {}
                 PROVE  Solid(text, Places(AgentMemory(manager))) = Solid(text, all)
      <4>1. Remembered' = memory'
        BY <2>1 DEF Remembered
      <4>2. UNCHANGED <<text, begin, cuts>>
        BY <1>1, <2>1
      <4> QED
        BY <2>1, <4>1, <4>2 DEF RememberedExactly, Solid
    <3>1. Exact(text, begin, manager, S) /\ Kept(text, manager, S)
      BY <1>1 DEF ExactInv
    <3> HIDE DEF all
    <3> QED
      BY <1>1, <3>1, MemoryExact DEF all
  <2> QED
    BY <2>1, <2>3, <2>4 DEF ExactInv
<1> QED
  BY <1>2, <1>3, <1>4

\* ... so that it always holds.
LEMMA ExactInvariant == AnswerSpec => []ExactInv
<1>1. AnswerInit => ExactInv
  <2> SUFFICES ASSUME AnswerInit PROVE ExactInv
    OBVIOUS
  <2>1. /\ text = <<>> /\ begin = 0 /\ manager = NewManager /\ sent = <<>> /\ phase = "stream"
    BY DEF AnswerInit
  <2>2. Places(ShownNow) = {}
    <3>1. Responses = {}
      BY <2>1 DEF Responses
    <3> QED
      BY <3>1 DEF Places, ShownNow
  <2>3. /\ NewManager.buffer = <<>> /\ NewManager.current_message = <<>>
        /\ NewManager.content_items = <<>>
    BY DEF NewManager
  <2>4. Settled(<<>>, NewManager) = 0
    BY <2>3 DEF Settled
  <2>5. Fresh(<<>>, 0, 0 + 1)
    <3>1. ~InBlock(<<>>, 0, 0)
      BY DEF InBlock
    <3> QED
      BY <3>1 DEF Fresh
  <2>6. ProseTo(<<>>, 0, 0) = {} /\ GoodTo(<<>>, 0, 0) = {}
    BY DEF ProseTo, GoodTo
  <2>7. ~Has(<<>>, "nl") /\ OfText(<<>>, <<>>) /\ PlacesIn(<<>>) = {} /\ Places(<<>>) = {}
    BY DEF Has, OfText, PlacesIn, Places
  <2>8. Exact(text, begin, manager, {}) /\ Kept(text, manager, {})
    BY <2>1, <2>3, <2>4, <2>5, <2>6, <2>7 DEF Exact, Kept
  <2> QED
    BY <2>1, <2>2, <2>8 DEF ExactInv
<1>2. AnswerInv /\ ExactInv /\ [AnswerNext]_answerVars => ExactInv'
  <2> SUFFICES ASSUME AnswerInv, ExactInv, [AnswerNext]_answerVars PROVE ExactInv'
    OBVIOUS
  <2>1. CASE UNCHANGED answerVars
    <3>1. UNCHANGED <<phase, depth, manager, text, begin, cuts, sent, memory>>
      BY <2>1 DEF answerVars
    <3>2. Responses' = Responses /\ \A i \in Responses : sent'[i] = sent[i]
      BY <3>1 DEF Responses
    <3>3. CASE phase # "done"
      <4>1. phase' # "done" /\ Agrees(manager, manager') /\ UNCHANGED <<text, begin, cuts, depth>>
        BY <3>1, <3>3 DEF Agrees
      <4> QED
        BY <3>2, <3>3, <4>1, QuietExact
    <3>4. CASE phase = "done"
      <4>1. Places(ShownNow)' = Places(ShownNow)
        BY <3>1, <3>2, QuietShown
      <4>2. ShownExactly'
        BY <3>1, <3>4, <4>1 DEF ExactInv, ShownExactly
      <4>3. RememberedExactly'
        <5>1. Remembered' = Remembered
          BY <3>1 DEF Remembered
        <5> QED
          BY <3>1, <3>4, <5>1 DEF ExactInv, RememberedExactly
      <4> QED
        BY <3>1, <3>4, <4>2, <4>3 DEF ExactInv
    <3> QED
      BY <3>3, <3>4
  <2>2. CASE ItemDone \/ \E type \in ItemType : ItemAdded(type)
    BY <2>2, ItemQuiet, QuietExact DEF AnswerInv
  <2>3. CASE \E n \in 1 .. MaxDelta : \E kinds \in [1 .. n -> Kind] : TextDelta(kinds)
    BY <2>3, DeltaExactStep
  <2>4. CASE StreamFails \/ CallTool \/ CallAgain \/ Finish
    BY <2>4, EndExactStep
  <2> QED
    BY <2>1, <2>2, <2>3, <2>4 DEF AnswerNext
<1> QED
  BY <1>1, <1>2, AnswerInvariant, PTL DEF AnswerSpec

\* However the model cuts its text into deltas - unless the buffer overflows or a delta goes on
\* after the line of a block - the client is at any time shown exactly the prose and the blocks
\* that parse.
THEOREM ShownExactlyHolds == AnswerSpec => []ShownExactly
<1>1. AnswerInv /\ ExactInv => ShownExactly
  <2> SUFFICES ASSUME AnswerInv, ExactInv, phase # "done", cuts \cap {"overflow", "tail"} = {}
               PROVE  Places(ShownNow) = Prose(text, begin) \cup GoodBlocks(text, begin)
    BY DEF ExactInv, ShownExactly
  <2>1. /\ text \in Seq(Char) /\ begin \in Nat /\ manager \in Manager /\ Numbered(text)
        /\ Standing(text, begin, manager)
    BY DEF AnswerInv, AnswerTypeOK
  <2> PICK S : S = Places(ShownNow)
    OBVIOUS
  <2>2. Exact(text, begin, manager, S)
    BY DEF ExactInv
  <2> QED
    BY <2>1, <2>2, OpenFacts
<1> QED
  BY <1>1, AnswerInvariant, ExactInvariant, PTL

\* If the text is not cut before a '{' either, an answer that has ended is remembered in full:
\* all that was shown, and the block that was left open, but for line feeds.
THEOREM RememberedExactlyHolds == AnswerSpec => []RememberedExactly
<1>1. ExactInv => RememberedExactly
  BY DEF ExactInv, RememberedExactly
<1> QED
  BY <1>1, ExactInvariant, PTL
===============================================================================
