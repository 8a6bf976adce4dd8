------------------------------ MODULE Conversation -----------------------------
(***************************************************************************)
(* What the messages of Sync amount to: on every connection the client     *)
(* asks, the server answers what was asked, and each of the two may ask    *)
(* the other for the content of a file, which comes before anything else   *)
(* is said.  Either end may go away at any time.  There are no channels    *)
(* here, only messages that are under way.                                 *)
(***************************************************************************)
CONSTANTS
  Conn,    \* connections
  File,    \* names of files that have content
  Name,    \* what a client may ask about
  NoName   \* the question for something new

VARIABLES
  client,    \* "closed", "idle", "waiting" for an answer, "receiving" content
  topic,     \* the name that it has asked about, or receives the content of
  server,    \* "closed", "ready" for a question, "receiving" content, "giving"
  content,   \* the name that it receives or gives the content of
  request,   \* questions under way, by what they are about
  response,  \* answers under way: "ack", "want" content, "give" content
  up,        \* content under way to the server, by the name it belongs to
  down       \* content under way to the client

conversationVars ==
  <<client, topic, server, content, request, response, up, down>>

Init ==
  /\ client = [c \in Conn |-> "closed"]
  /\ topic = [c \in Conn |-> NoName]
  /\ server = [c \in Conn |-> "closed"]
  /\ content = [c \in Conn |-> NoName]
  /\ request = [c \in Conn |-> {}]
  /\ response = [c \in Conn |-> {}]
  /\ up = [c \in Conn |-> {}]
  /\ down = [c \in Conn |-> {}]

-----------------------------------------------------------------------------
(* What a step does not touch. *)

ClientStays(c) == client'[c] = client[c] /\ topic'[c] = topic[c]
ServerStays(c) == server'[c] = server[c] /\ content'[c] = content[c]
ToServerStays(c) == request'[c] = request[c] /\ up'[c] = up[c]
ToClientStays(c) == response'[c] = response[c] /\ down'[c] = down[c]

Stays(c) ==
  ClientStays(c) /\ ServerStays(c) /\ ToServerStays(c) /\ ToClientStays(c)

\* A message that is sent to an end that is closed is lost.
ToServer(c, messages) == IF server[c] = "closed" THEN {} ELSE messages
ToClient(c, messages) == IF client[c] = "closed" THEN {} ELSE messages

-----------------------------------------------------------------------------
Open(c) ==
  /\ client[c] = "closed" /\ client'[c] = "idle"
  /\ server[c] = "closed" /\ server'[c] = "ready"
  /\ topic'[c] = topic[c] /\ content'[c] = content[c]
  /\ ToServerStays(c) /\ ToClientStays(c)

\* The client asks, when no question of its own is open.
Asks(c, name) ==
  /\ request[c] = {}
  /\ client'[c] = "waiting" /\ topic'[c] = name
  /\ request'[c] = ToServer(c, {name})
  /\ up'[c] = up[c]

Ask(c) ==
  /\ client[c] = "idle"
  /\ \E name \in Name : Asks(c, name)
  /\ ServerStays(c) /\ ToClientStays(c)

\* When it has got what it waited for, it is idle, or asks again at once.
GoesOn(c) ==
  \/ client'[c] = "idle" /\ topic'[c] = NoName /\ ToServerStays(c)
  \/ \E name \in Name : Asks(c, name)

(***************************************************************************)
(* The server answers the question, once, when it waits for no content.    *)
(* It gives the content of the file in question, or of any file when the   *)
(* question was for something new.  What has no content comes to nothing.  *)
(***************************************************************************)
Answer(c, answer) ==
  /\ server[c] = "ready"
  /\ response[c] = {} /\ down[c] = {}
  /\ request'[c] = {} /\ up'[c] = up[c]
  /\ response'[c] = ToClient(c, {answer}) /\ down'[c] = {}
  /\ ClientStays(c)

AnswerAck(c) ==
  /\ \E name \in Name : request[c] = {name}
  /\ Answer(c, "ack")
  /\ ServerStays(c)

AnswerWant(c) ==
  \E name \in Name :
    /\ request[c] = {name}
    /\ Answer(c, "want")
    /\ server'[c] = "receiving" /\ content'[c] = name

AnswerGive(c) ==
  \E name, about \in Name :
    /\ request[c] = {about}
    /\ about \in {name, NoName}
    /\ Answer(c, "give")
    /\ server'[c] = "giving" /\ content'[c] = name

Give(c) ==
  /\ server[c] = "giving"
  /\ down[c] = {} /\ down'[c] = ToClient(c, {content[c]} \cap File)
  /\ response'[c] = response[c]
  /\ server'[c] = "ready" /\ content'[c] = NoName
  /\ ClientStays(c) /\ ToServerStays(c)

-----------------------------------------------------------------------------
\* The client reads the answer to its question.
ReadAck(c) ==
  /\ client[c] = "waiting"
  /\ response[c] = {"ack"} /\ down[c] = {}
  /\ response'[c] = {} /\ down'[c] = {}
  /\ GoesOn(c)
  /\ ServerStays(c)

\* It sends the content of the file it asked about.
ReadWant(c) ==
  /\ client[c] = "waiting"
  /\ response[c] = {"want"} /\ down[c] = {}
  /\ server[c] # "closed" => content[c] = topic[c]
  /\ response'[c] = {} /\ down'[c] = {}
  /\ up[c] = {} /\ up'[c] = ToServer(c, {topic[c]} \cap File)
  /\ client'[c] = "idle" /\ topic'[c] = NoName
  /\ request'[c] = request[c]
  /\ ServerStays(c)

\* It is going to receive the content, which is under way or going to be given,
\* unless that was cut off.
ReadGive(c) ==
  /\ client[c] = "waiting"
  /\ response[c] = {"give"}
  /\ response'[c] = {} /\ down'[c] = down[c]
  /\ client'[c] = "receiving" /\ topic'[c] \in File
  /\ \/ down[c] = {topic'[c]}
     \/ server[c] = "giving" /\ content[c] = topic'[c] /\ down[c] = {}
     \/ server[c] = "closed" /\ down[c] = {}
  /\ ServerStays(c) /\ ToServerStays(c)

\* Content comes to the end that receives it, for the file it belongs to.
TakeDown(c) ==
  /\ client[c] = "receiving"
  /\ response[c] = {} /\ down[c] = {topic[c]}
  /\ response'[c] = {} /\ down'[c] = {}
  /\ GoesOn(c)
  /\ ServerStays(c)

TakeUp(c) ==
  /\ server[c] = "receiving"
  /\ up[c] = {content[c]} /\ up'[c] = {}
  /\ request'[c] = request[c]
  /\ server'[c] = "ready" /\ content'[c] = NoName
  /\ ClientStays(c) /\ ToClientStays(c)

-----------------------------------------------------------------------------
(* An end goes away.  What is under way to it is lost.  Content that it was *)
(* sending may be cut off.                                                 *)

CloseClient(c) ==
  /\ client[c] # "closed"
  /\ client'[c] = "closed" /\ topic'[c] = NoName
  /\ response'[c] = {} /\ down'[c] = {}
  /\ request'[c] = request[c]
  /\ up'[c] = up[c] \/ (request[c] = {} /\ up'[c] = {})
  /\ ServerStays(c)

\* The server may go away in the middle of an answer that gives content.
CloseServer(c) ==
  /\ server[c] # "closed"
  /\ server'[c] = "closed" /\ content'[c] = NoName
  /\ request'[c] = {} /\ up'[c] = {}
  /\ \/ response'[c] = response[c] /\ down'[c] \in {down[c], {}}
     \/ /\ server[c] = "ready" /\ request[c] # {}
        /\ response[c] = {} /\ down[c] = {}
        /\ response'[c] = ToClient(c, {"give"}) /\ down'[c] = {}
  /\ ClientStays(c)

-----------------------------------------------------------------------------
Step(c) ==
  \/ Open(c) \/ Ask(c)
  \/ AnswerAck(c) \/ AnswerWant(c) \/ AnswerGive(c) \/ Give(c)
  \/ ReadAck(c) \/ ReadWant(c) \/ ReadGive(c)
  \/ TakeDown(c) \/ TakeUp(c)
  \/ CloseClient(c) \/ CloseServer(c)

\* A server that dies closes all of its connections in one step.
Next == \A c \in Conn : Step(c) \/ Stays(c)

Spec == Init /\ [][Next]_conversationVars
=============================================================================
