----------------------------- MODULE PushSession -----------------------------
(***************************************************************************)
(* A git-receive-pack session of packfile/client: Remote.StartPush, then    *)
(* WriteCommands, Write and Close on the PushStream, over a local           *)
(* subprocess (localReceivePackConn) or HTTP (httpReceivePackConn, whose    *)
(* goroutine posts the request).  Others change the refs of the remote at   *)
(* the same time (RefMutation), and either end may fail at any point.       *)
(***************************************************************************)
EXTENDS RefMutation, Sequences

CONSTANTS
    Transports,  \* "local", "http" or both
    Supports,    \* sets of capabilities that servers advertise
    PackChunks   \* writes that make up the packfile

Capabilities == {"report-status", "delete-refs"}

ASSUME PushAssumption ==
    /\ Transports \subseteq {"local", "http"}
    /\ Supports \subseteq SUBSET Capabilities
    /\ PackChunks \in Nat \ {0}

VARIABLES
    transport,   \* how the remote is reached
    supports,    \* what the server advertises
    ctxDone,     \* the context of the push is done
    stream,      \* where the PushStream is
    caps,        \* PushStream.caps
    told,        \* PushStream.refs
    commands,    \* the commands written, by ref
    wrote,       \* PushStream.wroteCommands
    hasPack,     \* PushStream.hasPack
    used,        \* the connection was written to: wrote, w # nil
    status,      \* the error of readStatus
    closeResult,      \* what Close returned
    refsBody,    \* the body of the advertisement is open (HTTP)
    request,     \* what was written and the server has not read
    writeOpen,   \* more may be written
    post,        \* the goroutine of httpReceivePackConn.start
    respBody,    \* the body of its response is open
    server,      \* git receive-pack
    received,    \* chunks of the packfile it has read
    updated      \* the refs it has updated, and none before it tried

connVars == <<refsBody, request, writeOpen, post, respBody>>
receiverVars == <<server, received, updated>>
streamVars == <<stream, caps, told, commands, wrote, hasPack, used, status, closeResult>>
fixed == <<transport, supports>>
pushVars == <<refVars, fixed, ctxDone, streamVars, connVars, receiverVars>>

NoCommands == <<>>
None == {"none"}
Commands == [old : Values, new : Values]
IsDelete(cmd) == cmd.new = Zero
NonDelete(c) == \E r \in DOMAIN c : ~IsDelete(c[r])

PushTypeOK ==
    /\ RefTypeOK
    /\ transport \in Transports /\ supports \in Supports /\ ctxDone \in BOOLEAN
    /\ stream \in {"none", "failed", "open", "status", "closing", "closed"}
    /\ caps \subseteq supports
    /\ told \in [Refs -> Values]
    /\ DOMAIN commands \subseteq Refs
    /\ \A r \in DOMAIN commands : commands[r] \in Commands
    /\ wrote \in BOOLEAN /\ hasPack \in BOOLEAN /\ used \in BOOLEAN
    /\ status \in {"ok", "error"} /\ closeResult \in {"none", "nil", "error"}
    /\ refsBody \in BOOLEAN /\ writeOpen \in BOOLEAN /\ respBody \in BOOLEAN
    /\ Len(request) <= PackChunks + 1
    /\ post \in {"none", "running", "answered", "error"}
    /\ server \in {"none", "ready", "pack", "done", "dead"}
    /\ received \in 0..PackChunks
    /\ updated = None \/ updated \subseteq Refs

PushInit ==
    /\ RefInit
    /\ transport \in Transports /\ supports \in Supports /\ ctxDone = FALSE
    /\ stream = "none" /\ caps = {} /\ told = [r \in Refs |-> Zero]
    /\ commands = NoCommands /\ wrote = FALSE /\ hasPack = FALSE /\ used = FALSE
    /\ status = "ok" /\ closeResult = "none"
    /\ refsBody = FALSE /\ request = <<>> /\ writeOpen = FALSE
    /\ post = "none" /\ respBody = FALSE
    /\ server = "none" /\ received = 0 /\ updated = None

-----------------------------------------------------------------------------
(* StartPush.  Locally git receive-pack runs from now on; over HTTP only   *)
(* the advertisement was asked for.                                        *)

Opens(serverAfter) ==
    /\ stream = "none" /\ stream' = "open"
    /\ refsBody' = (transport = "http")
    /\ writeOpen' = TRUE
    /\ server' = IF transport = "local" THEN serverAfter ELSE "none"
    /\ UNCHANGED <<refVars, fixed, ctxDone, commands, wrote, hasPack, used, status, closeResult,
                   request, post, respBody, received, updated>>

StartPush ==
    /\ Opens("ready")
    /\ told' = refs /\ caps' = supports

(* The advertisement does not even begin: the failed packet reader has the  *)
(* type of a flush, and the remote is taken for one without refs and       *)
(* capabilities.                                                           *)
StartPushLost ==
    /\ Opens("dead")
    /\ UNCHANGED <<told, caps>>

StartPushFails ==
    /\ stream = "none" /\ stream' = "failed"
    /\ UNCHANGED <<refVars, fixed, ctxDone, caps, told, commands, wrote, hasPack, used,
                   status, closeResult, connVars, receiverVars>>

-----------------------------------------------------------------------------
(* WriteCommands and Write.                                                *)

(* The commands that give refs these new values, made from what Refs        *)
(* returned.                                                               *)
NewValues == UNION {[D -> Values] : D \in SUBSET Refs}
CommandsFor(new) ==
    [r \in DOMAIN new |-> [old |-> told[r], new |-> new[r]]]

(* The peer is gone: writing fails.                                        *)
WriteFails ==
    IF transport = "local" THEN server = "dead" ELSE post = "error"

CommandsCalled(c) ==
    /\ stream = "open" /\ ~wrote
    /\ DOMAIN c # {}
    /\ \A r \in DOMAIN c : c[r].old # Zero \/ c[r].new # Zero
    /\ (\E r \in DOMAIN c : IsDelete(c[r])) => "delete-refs" \in caps
    /\ wrote' = TRUE
    /\ UNCHANGED <<refVars, fixed, ctxDone, stream, caps, told, status, closeResult,
                   refsBody, writeOpen, respBody, received, updated>>

(* The first write over HTTP starts the goroutine that posts the request.  *)
WriteCommands(new) ==
    /\ CommandsCalled(CommandsFor(new))
    /\ ~WriteFails
    /\ commands' = CommandsFor(new)
    /\ hasPack' = NonDelete(commands') /\ used' = TRUE
    /\ request' = <<"commands">>
    /\ IF transport = "http" THEN post' = "running" /\ server' = "ready"
       ELSE UNCHANGED <<post, server>>

WriteCommandsFails(new) ==
    /\ CommandsCalled(CommandsFor(new))
    /\ commands' = CommandsFor(new)
    /\ \/ transport = "local" /\ WriteFails /\ UNCHANGED <<used, post>>
       \/ transport = "http" /\ used' = TRUE /\ post' = "error"
    /\ UNCHANGED <<hasPack, request, server>>

Write ==
    /\ stream = "open" /\ hasPack
    /\ ~WriteFails
    /\ received + Len(SelectSeq(request, LAMBDA x : x = "chunk")) < PackChunks
    /\ request' = Append(request, "chunk")
    /\ UNCHANGED <<refVars, fixed, ctxDone, streamVars, refsBody, writeOpen, post, respBody,
                   receiverVars>>

-----------------------------------------------------------------------------
(* Close.                                                                  *)

(* localReceivePackConn.Close sends a flush if nothing was written.        *)
Goodbye == IF transport = "local" /\ ~used /\ server # "dead" THEN <<"flush">> ELSE <<>>

(* Mutant: readStatus does not say that the request is complete.           *)
CloseCalledNoCloseWrite ==
    /\ stream = "open"
    /\ IF wrote /\ "report-status" \in caps
       THEN stream' = "status" /\ UNCHANGED <<request, refsBody, writeOpen>>
       ELSE /\ stream' = "closing"
            /\ request' = request \o Goodbye
            /\ refsBody' = FALSE /\ writeOpen' = FALSE
    /\ UNCHANGED <<refVars, fixed, ctxDone, caps, told, commands, wrote, hasPack, used, status,
                   closeResult, post, respBody, receiverVars>>

CloseCalled ==
    /\ stream = "open"
    /\ writeOpen' = FALSE
    /\ IF wrote /\ "report-status" \in caps
       THEN stream' = "status" /\ UNCHANGED <<request, refsBody>>
       ELSE /\ stream' = "closing"
            /\ request' = request \o Goodbye
            /\ refsBody' = FALSE
    /\ UNCHANGED <<refVars, fixed, ctxDone, caps, told, commands, wrote, hasPack, used, status,
                   closeResult, post, respBody, receiverVars>>

(* readStatus waits for the report, or for what ends the connection.       *)
Answered ==
    IF transport = "local" THEN server \in {"done", "dead"}
    ELSE post \in {"answered", "error"} \/ ctxDone

(* What arrives of the report is all of it, unless the connection is lost. *)
GoodReport(lost) ==
    /\ ~lost
    /\ server = "done"
    /\ transport = "http" => post = "answered"
    /\ updated = DOMAIN commands

ReadStatus ==
    /\ stream = "status"
    /\ Answered
    /\ \E lost \in BOOLEAN : status' = IF GoodReport(lost) THEN "ok" ELSE "error"
    /\ stream' = "closing"
    /\ request' = request \o Goodbye
    /\ refsBody' = FALSE
    /\ UNCHANGED <<refVars, fixed, ctxDone, caps, told, commands, wrote, hasPack, used, closeResult,
                   writeOpen, post, respBody, receiverVars>>

(* Mutant: nobody waits for the goroutine.                                 *)
ConnDoneLocalOnly == transport = "local" => server \in {"done", "dead"}

(* The connection's Close waits for the subprocess, or for the goroutine.  *)
ConnDone ==
    IF transport = "local" THEN server \in {"done", "dead"}
    ELSE used => post \in {"answered", "error"}

ConnErr ==
    IF transport = "local" THEN server = "dead" ELSE post = "error"

(* Mutant: the error of readStatus is overwritten.                         *)
CloseReturnConnErr ==
    /\ stream = "closing"
    /\ ConnDone
    /\ stream' = "closed"
    /\ closeResult' = IF ConnErr THEN "error" ELSE "nil"
    /\ respBody' = FALSE
    /\ UNCHANGED <<refVars, fixed, ctxDone, caps, told, commands, wrote, hasPack, used, status,
                   refsBody, request, writeOpen, post, receiverVars>>

CloseReturn ==
    /\ stream = "closing"
    /\ ConnDone
    /\ stream' = "closed"
    /\ closeResult' = IF status = "error" \/ ConnErr THEN "error" ELSE "nil"
    /\ respBody' = FALSE
    /\ UNCHANGED <<refVars, fixed, ctxDone, caps, told, commands, wrote, hasPack, used, status,
                   refsBody, request, writeOpen, post, receiverVars>>

-----------------------------------------------------------------------------
(* git receive-pack.                                                       *)

ServerStep ==
    UNCHANGED <<fixed, ctxDone, streamVars, refsBody, writeOpen, post, respBody>>

ReadsNext(item) ==
    /\ request # <<>> /\ Head(request) = item
    /\ request' = Tail(request)

ServerReadsFlush ==
    /\ server = "ready" /\ ReadsNext("flush")
    /\ server' = "done"
    /\ UNCHANGED <<refVars, received, updated>> /\ ServerStep

ServerReadsCommands ==
    /\ server = "ready" /\ ReadsNext("commands")
    /\ server' = "pack"
    /\ UNCHANGED <<refVars, received, updated>> /\ ServerStep

ServerReadsChunk ==
    /\ server = "pack" /\ ReadsNext("chunk")
    /\ received' = received + 1
    /\ UNCHANGED <<refVars, server, updated>> /\ ServerStep

(* The commands are carried out once the packfile is there: those whose old *)
(* value is what the ref has.  It may die after that.                      *)
Unpacked == NonDelete(commands) => received = PackChunks

ServerUpdates ==
    /\ server = "pack" /\ updated = None
    /\ Unpacked
    /\ updated' = {r \in DOMAIN commands : commands[r].old = refs[r]}
    /\ refs' = [r \in Refs |-> IF r \in updated' THEN commands[r].new ELSE refs[r]]
    /\ UNCHANGED <<seen, calls, unkept, request, server, received>> /\ ServerStep

(* The request ends before the packfile does.                              *)
ServerCannotUnpack ==
    /\ server = "pack" /\ updated = None
    /\ ~Unpacked /\ request = <<>> /\ ~writeOpen
    /\ updated' = {}
    /\ UNCHANGED <<refVars, request, server, received>> /\ ServerStep

ServerDone ==
    /\ server = "pack" /\ updated # None
    /\ server' = "done"
    /\ UNCHANGED <<refVars, request, received, updated>> /\ ServerStep

ServerDies ==
    /\ server \in {"ready", "pack"}
    /\ server' = "dead"
    /\ UNCHANGED <<refVars, request, received, updated>> /\ ServerStep

-----------------------------------------------------------------------------
(* The goroutine of httpReceivePackConn.start.                             *)

PostReturns ==
    UNCHANGED <<refVars, fixed, ctxDone, streamVars, refsBody, request, writeOpen, received,
                updated>>

PostAnswered ==
    /\ post = "running" /\ server = "done"
    /\ post' = "answered" /\ respBody' = TRUE
    /\ UNCHANGED server /\ PostReturns

(* No answer, one that is not 200 or not a result, or the context is done. *)
PostFails ==
    /\ post = "running"
    /\ post' = "error"
    /\ server' = IF server = "done" THEN "done" ELSE "dead"
    /\ UNCHANGED respBody /\ PostReturns

-----------------------------------------------------------------------------
Cancel ==
    /\ ~ctxDone /\ stream # "none" /\ ctxDone' = TRUE
    /\ UNCHANGED <<refVars, fixed, streamVars, connVars, receiverVars>>

RefsChange ==
    /\ \E r \in Refs, q \in {Request("SetRef", Unset, v) : v \in Values}
                            \cup {Request("DeleteRef", Unset, Unset)} :
         MutateRefs([s \in {r} |-> q])
    /\ UNCHANGED <<fixed, ctxDone, streamVars, connVars, receiverVars>>

ServerNext ==
    \/ ServerReadsFlush \/ ServerReadsCommands \/ ServerReadsChunk
    \/ ServerUpdates \/ ServerCannotUnpack \/ ServerDone

PushNext ==
    \/ StartPush \/ StartPushLost \/ StartPushFails
    \/ \E new \in NewValues : WriteCommands(new) \/ WriteCommandsFails(new)
    \/ Write
    \/ CloseCalled \/ ReadStatus \/ CloseReturn
    \/ ServerNext \/ ServerDies
    \/ PostAnswered \/ PostFails
    \/ Cancel \/ RefsChange

(* The caller's Close runs, the goroutine and net/http run, and a context  *)
(* that is done ends the subprocess or the request.                        *)
Fairness ==
    /\ WF_pushVars(ReadStatus) /\ WF_pushVars(CloseReturn)
    /\ WF_pushVars(PostAnswered)
    /\ WF_pushVars(ctxDone /\ transport = "local" /\ ServerDies)
    /\ WF_pushVars((ctxDone \/ server = "dead") /\ PostFails)

PushSpec == PushInit /\ [][PushNext]_pushVars /\ Fairness

-----------------------------------------------------------------------------
(* Close "completes the stream": where the server can report it, nil means *)
(* that every command was carried out, whoever changed the refs meanwhile, *)
(* wherever the packfile stopped and whatever failed.                      *)
NilMeansUpdated ==
    closeResult = "nil" /\ wrote /\ "report-status" \in caps => updated = DOMAIN commands

(* Close "releases any resources associated with the stream": neither a    *)
(* body, nor the goroutine, nor the subprocess is left.                    *)
NothingLeft ==
    stream = "closed" =>
        /\ ~refsBody /\ ~respBody /\ ~writeOpen
        /\ post # "running"
        /\ transport = "local" => server \in {"done", "dead"}

(* Close returns if the server answers or the context is done.             *)
CloseReturns ==
    (WF_pushVars(ServerNext) \/ <>ctxDone) =>
        (stream \in {"status", "closing"} ~> stream = "closed")
=============================================================================
