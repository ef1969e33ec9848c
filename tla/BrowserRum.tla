------------------------------ MODULE BrowserRum ------------------------------
(***************************************************************************)
(* The middleware that puts the monitoring script into the first block of  *)
(* an HTML page (armoury/trigger/browser_rum.py), between a WSGI           *)
(* application and its server. It holds the headers back until it has seen *)
(* that block, because the script changes the length they announce; and    *)
(* _start_response of the entrance adds the header that carries the trace  *)
(* data to a calling application (armoury/trigger/cross_trace.py).         *)
(*                                                                         *)
(* One response. A block of data is "page" (html, head and body tags in    *)
(* its first 64 kB), "text" or "empty"; a page with the script in it is    *)
(* "scripted". Every block is one unit long, and so is the script.         *)
(***************************************************************************)
EXTENDS Integers, Sequences, SequencesExt

CONSTANTS
    Spellings,      (* how the application writes 'Content-Length'         *)
    MaxBlocks,      (* bound: blocks of a response                         *)
    MaxRestarts,    (* bound: calls of start_response with exc_info        *)
    Pythons         (* 2, and 3, where the script is a str and a page bytes*)

Blocks    == {"page", "text", "empty"}
NoHeaders == [declared |-> -2, tx |-> FALSE, ok |-> FALSE]
Absent    == -1     (* no such header, or None in the middleware           *)

ASSUME SpellingsAssumption == Spellings \subseteq {"Content-Length", "content-length"}
ASSUME BoundsAssumption    == MaxBlocks \in Nat /\ MaxRestarts \in Nat
ASSUME PythonAssumption    == Pythons \subseteq {2, 3}

VARIABLES
    stage,          (* of the application: "called", "answering" (after    *)
                    (* start_response), "ended", "failed" or "stopped"     *)
    response,       (* status, response_headers: what the application says *)
    todo,           (* the blocks it has still to produce                  *)
    ignore_rum,
    writer,         (* org_start_response has been called                  *)
    content_length,
    prepared,       (* Tracer.browser_header_prepared                      *)
    called,         (* Tracer.call_tingyun_id: a caller "waits" for trace  *)
                    (* data, or "no" one does; "told" once it was cleared  *)
    headers,        (* what the server was given last                      *)
    body,           (* the blocks the server was given                     *)
    produced,       (* history: blocks the application produced            *)
    inserted,       (* history: of each script, whether the status was 200 *)
    restarts,       (* calls of start_response after the first             *)
    python          (* the interpreter                                     *)

middleware == <<ignore_rum, writer, content_length>>
tracer     == <<prepared, called>>
server     == <<headers, body>>
history    == <<produced, inserted>>
rumVars == <<stage, response, todo, middleware, tracer, server, history, restarts, python>>

Size(block)  == IF block = "empty" THEN 0 ELSE IF block = "scripted" THEN 2 ELSE 1

(* The length of the blocks together.                                      *)
Total(blocks) ==
    LET sum[i \in 0 .. Len(blocks)] == IF i = 0 THEN 0 ELSE sum[i - 1] + Size(blocks[i])
    IN  sum[Len(blocks)]

(* What the blocks show: those with something in them.                     *)
Sent(blocks) ==
    LET sent[i \in 0 .. Len(blocks)] ==
          IF i = 0 THEN << >>
          ELSE IF blocks[i] = "empty" THEN sent[i - 1] ELSE Append(sent[i - 1], blocks[i])
    IN  sent[Len(blocks)]

(* A response that keeps to WSGI: if it declares a length it is its own.   *)
(* (An invalid length makes it uninsertable, like another content type.)   *)
Responses ==
    [ok : BOOLEAN, html : BOOLEAN, spelling : Spellings \cup {"none"},
     blocks : BoundedSeq(Blocks, MaxBlocks)]

Declared(r) == IF r.spelling = "none" THEN Absent ELSE Total(r.blocks)

NoResponse == [ok |-> FALSE, html |-> FALSE, spelling |-> "none", blocks |-> << >>]

RumInit ==
    /\ stage = "called" /\ response = NoResponse /\ todo = << >>
    /\ ignore_rum = TRUE /\ writer = FALSE /\ content_length = Absent
    /\ prepared = FALSE /\ called \in {"waits", "no"}
    /\ headers = NoHeaders /\ body = << >>
    /\ produced = << >> /\ inserted = << >> /\ restarts = 0
    /\ python \in Pythons

-----------------------------------------------------------------------------
(* The headers.                                                            *)

(* The length that write_headers announces: the key is compared exactly.   *)
Announced(r, length) ==
    IF length # Absent /\ r.spelling = "Content-Length" THEN length ELSE Declared(r)

(* process_header clears the id, so that only one set of headers has them. *)
ProcessHeader == called' = IF called = "waits" THEN "told" ELSE called

(* write_headers, the entrance's _start_response and the server's. A       *)
(* server that has sent its headers raises the error it is given instead.  *)
WriteHeaders(r, length) ==
    /\ writer' = TRUE
    /\ headers' = [declared |-> Announced(r, length), tx |-> called = "waits", ok |-> r.ok]
    /\ ProcessHeader

HeadersStay == UNCHANGED <<writer, headers, called>>

(* is_insertable: what the status and the headers say.                     *)
IsInsertable(r) == r.ok /\ r.html

(* start_response of the middleware. Whether the page is monitored at all  *)
(* (settings, Ajax, the sample ratio) is drawn again at each call. An      *)
(* insertable response keeps ignore_rum off, and its headers back.         *)
Answer(r, enabled) ==
    LET insertable == enabled /\ IsInsertable(r)
        ignore     == IF enabled THEN ~insertable /\ ignore_rum ELSE TRUE
        length     == IF insertable THEN Declared(r) ELSE content_length
    IN  /\ response' = r /\ todo' = r.blocks
        /\ ignore_rum' = ignore /\ content_length' = length
        /\ IF ignore THEN WriteHeaders(r, length) ELSE HeadersStay

StartResponse ==
    /\ stage = "called" /\ stage' = "answering"
    /\ \E r \in Responses, enabled \in BOOLEAN : Answer(r, enabled)
    /\ UNCHANGED <<prepared, body, history, restarts, python>>

(* With exc_info, before any data: the application has failed and answers  *)
(* with something else.                                                    *)
Restart ==
    /\ stage = "answering" /\ Sent(produced) = << >> /\ restarts < MaxRestarts
    /\ restarts' = restarts + 1
    /\ \E r \in Responses, enabled \in BOOLEAN : Answer(r, enabled)
    /\ UNCHANGED <<stage, prepared, body, history, python>>

-----------------------------------------------------------------------------
(* The body.                                                               *)

Produce ==
    /\ stage = "answering" /\ todo # << >>
    /\ todo' = Tail(todo) /\ produced' = Append(produced, Head(todo))

Deliver(block) == body' = Append(body, block)

(* The callable that start_response returns, for old frameworks.           *)
Write ==
    /\ Produce
    /\ ignore_rum' = TRUE
    /\ IF writer THEN HeadersStay ELSE WriteHeaders(response, content_length)
    /\ Deliver(Head(todo))
    /\ UNCHANGED <<stage, response, content_length, prepared, inserted, restarts, python>>

(* The loop of __call__, where it only hands on.                           *)
HandOn ==
    /\ Produce /\ (ignore_rum \/ writer)
    /\ Deliver(Head(todo))
    /\ UNCHANGED <<stage, response, middleware, tracer, headers, inserted, restarts, python>>

(* The headers wait for a block with something in it.                      *)
SkipEmpty ==
    /\ Produce /\ ~ignore_rum /\ ~writer /\ Head(todo) = "empty"
    /\ UNCHANGED <<stage, response, middleware, tracer, server, inserted, restarts, python>>

(* fork_browser_js_head: one script for a request, and none when the       *)
(* server of the agent gave none.                                          *)
CanFork == ~prepared

(* do_auto_monitor and insert_js_to_html: the script goes into a page, and *)
(* its length is added to the one that is announced.                       *)
Grown(length) == IF length = Absent THEN Absent ELSE length + 1

(* A plausible bug: the headers go out before the script is added.         *)
MutInsertLate ==
    /\ Produce /\ ~ignore_rum /\ ~writer /\ Head(todo) = "page"
    /\ CanFork /\ python = 2
    /\ prepared' = TRUE /\ ignore_rum' = TRUE
    /\ content_length' = Grown(content_length)
    /\ inserted' = Append(inserted, response.ok)
    /\ WriteHeaders(response, content_length)
    /\ Deliver("scripted")
    /\ UNCHANGED <<stage, response, restarts, python>>

Insert ==
    /\ Produce /\ ~ignore_rum /\ ~writer /\ Head(todo) = "page"
    /\ CanFork /\ python = 2
    /\ prepared' = TRUE /\ ignore_rum' = TRUE
    /\ content_length' = Grown(content_length)
    /\ inserted' = Append(inserted, response.ok)
    /\ WriteHeaders(response, content_length')
    /\ Deliver("scripted")
    /\ UNCHANGED <<stage, response, restarts, python>>

(* bytes are joined with a str: the error ends the middleware.             *)
InsertRaises ==
    /\ Produce /\ ~ignore_rum /\ ~writer /\ Head(todo) = "page"
    /\ CanFork /\ python = 3
    /\ prepared' = TRUE /\ stage' = "failed"
    /\ UNCHANGED <<response, middleware, called, server, inserted, restarts, python>>

(* A plausible bug: a first block without a place for it goes out with the *)
(* headers still held back, in the hope of a later one.                    *)
MutInsertNothing ==
    /\ Produce /\ ~ignore_rum /\ ~writer /\ Head(todo) # "empty"
    /\ Deliver(Head(todo))
    /\ UNCHANGED <<stage, response, middleware, tracer, headers, inserted, restarts, python>>

(* No place for a script in the first block, or no script.                 *)
InsertNothing ==
    /\ Produce /\ ~ignore_rum /\ ~writer /\ Head(todo) # "empty"
    /\ ignore_rum' = TRUE
    /\ WriteHeaders(response, content_length)
    /\ Deliver(Head(todo))
    /\ UNCHANGED <<stage, response, content_length, prepared, inserted, restarts, python>>

(* A plausible bug: a response without a body never gets its headers.      *)
MutEndSilently ==
    /\ stage = "answering" /\ todo = << >> /\ stage' = "ended"
    /\ UNCHANGED <<response, todo, middleware, tracer, server, history, restarts, python>>

(* A plausible bug: the headers go out at the end whether or not they did. *)
MutEndAgain ==
    /\ stage = "answering" /\ todo = << >> /\ stage' = "ended"
    /\ WriteHeaders(response, content_length)
    /\ ignore_rum' = TRUE
    /\ UNCHANGED <<response, todo, content_length, prepared, body, history, restarts, python>>

(* The application has no more: headers that were held back go out now.    *)
End ==
    /\ stage = "answering" /\ todo = << >> /\ stage' = "ended"
    /\ IF writer THEN HeadersStay ELSE WriteHeaders(response, content_length)
    /\ ignore_rum' = TRUE
    /\ UNCHANGED <<response, todo, content_length, prepared, body, history, restarts, python>>

(* The server closes the middleware early.                                 *)
Stop ==
    /\ stage = "answering" /\ stage' = "stopped"
    /\ UNCHANGED <<response, todo, middleware, tracer, server, history, restarts, python>>

Idle == stage \in {"ended", "failed", "stopped"} /\ UNCHANGED rumVars

RumNext ==
    \/ StartResponse \/ Restart \/ Write \/ HandOn \/ SkipEmpty
    \/ Insert \/ InsertRaises \/ InsertNothing \/ End \/ Stop \/ Idle

RumSpec == RumInit /\ [][RumNext]_rumVars

-----------------------------------------------------------------------------
(* What should hold.                                                       *)

Unscripted(block) == IF block = "scripted" THEN "page" ELSE block
Plain(blocks) == [i \in DOMAIN blocks |-> Unscripted(blocks[i])]

(* But for the script, the server gets what the application produced, in   *)
(* that order and nothing held back; and the headers before any of it.     *)
Transparent ==
    /\ stage # "failed" => Sent(Plain(body)) = Sent(produced)
    /\ Sent(body) # << >> \/ stage = "ended" => headers # NoHeaders

(* A response that answers once and spells its header 'Content-Length'     *)
(* announces the length it has, also with the script in it.                *)
LengthIsTrue ==
    stage = "ended" /\ restarts = 0 /\ response.spelling = "Content-Length"
        => headers.declared = Total(body)

(* A page gets one script at most, in the first block that goes out.       *)
OneScript ==
    /\ Len(inserted) <= 1
    /\ \A i \in DOMAIN body :
         body[i] = "scripted" => \A j \in 1 .. i - 1 : body[j] = "empty"

(* The trace data go to a caller that asked for them with the headers that *)
(* count, unless the application answered more than once.                  *)
CallerGetsTrace ==
    stage = "ended" /\ restarts = 0 => called # "waits" /\ (called = "told" => headers.tx)

(* The types.                                                              *)
RumTypeOK ==
    /\ stage \in {"called", "answering", "ended", "failed", "stopped"}
    /\ response \in Responses \cup {NoResponse} /\ todo \in Seq(Blocks)
    /\ ignore_rum \in BOOLEAN /\ writer \in BOOLEAN /\ prepared \in BOOLEAN
    /\ content_length \in Nat \cup {Absent}
    /\ called \in {"waits", "no", "told"}
    /\ headers \in [declared : Nat \cup {Absent}, tx : BOOLEAN, ok : BOOLEAN] \cup {NoHeaders}
    /\ body \in Seq(Blocks \cup {"scripted"}) /\ produced \in Seq(Blocks)
    /\ inserted \in Seq(BOOLEAN) /\ restarts \in Nat

(* Nothing goes out before the headers, and they are held back only for a  *)
(* script.                                                                 *)
HeadersFirst ==
    /\ writer <=> headers # NoHeaders
    /\ writer => called # "waits"
    /\ ~writer => body = << >> /\ inserted = << >>
    /\ stage = "called" =>
         /\ ignore_rum /\ ~writer /\ content_length = Absent /\ produced = << >>
         /\ restarts = 0 /\ called # "told"
    /\ stage # "called" /\ ignore_rum => writer
    /\ stage = "ended" => writer /\ todo = << >>

(* What the server has of a response.                                      *)
SameBlocks ==
    stage # "failed" =>
        /\ Sent(Plain(body)) = Sent(produced)
        /\ Total(body) = Total(produced) + Len(inserted)

ScriptIsFirst == Len(inserted) <= 1 /\ \A i \in DOMAIN body : body[i] = "scripted" => i = 1

(* A response that answers once.                                           *)
AnsweredOnce ==
    restarts = 0 =>
        /\ response.blocks = produced \o todo
        /\ called = "told" => writer /\ headers.tx
        /\ ~writer /\ stage # "called" => content_length = Declared(response)
        /\ writer /\ response.spelling = "Content-Length"
             => headers.declared = Total(response.blocks) + Len(inserted)

(* The inductive invariant.                                                *)
RumInv == RumTypeOK /\ HeadersFirst /\ SameBlocks /\ ScriptIsFirst /\ AnsweredOnce

(* "We will change the data length if it exist" (browser_rum.py:155).      *)
LengthAlwaysTrue ==
    stage = "ended" /\ restarts = 0 /\ response.spelling # "none"
        => headers.declared = Total(body)

(* "Non-200 response, disabled" (browser_rum.py:118).                      *)
OnlyIntoOk == \A i \in DOMAIN inserted : inserted[i]

(* "The application may call start_response more than once"               *)
(* (browser_rum.py:93): the status it gives last is the one the server   *)
(* has.                                                                    *)
LastStatusCounts == stage = "ended" => headers.ok = response.ok

(* The script is text in ASCII (tracer.py:277): it can be put into a page. *)
InsertionNeverRaises == stage # "failed"
===============================================================================
