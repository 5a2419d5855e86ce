------------------------------ MODULE EbayClient ------------------------------
(***************************************************************************)
(* The HTTP client of the eBay APIs: what each call asks of eBay, and what *)
(* the client concludes from the reply.  eBay may do what it is asked and  *)
(* the reply still be lost, an HTTP error or unreadable.                   *)
(***************************************************************************)
EXTENDS Integers, Functions

CONSTANTS
    Thread, Buyer,      \* conversations and eBay users a message can go to
    MaxLines,           \* bound on the lines of a message
    Nil

WireAssumption ==
    /\ MaxLines \in Nat
    /\ Nil \notin {"Warning", "Error", "item", "ok", "failed"}

VARIABLES exchange      \* the last call: what was asked and sent, whether eBay did it, the verdict
wireVars == <<exchange>>

----------------------------------------------------------------------------
(* Replies.  "ok" is a 2xx status, "error" an HTTPError, "none" a URLError *)
(* or a timeout; readable says that the body parses as XML or JSON.        *)
Reply == [kind : {"ok", "error"}, readable : BOOLEAN,
          ack : {"Success", "Warning", "PartialFailure", "Failure"},
          calls : {<<>>, <<"Success">>, <<"Failure">>}, severity : {Nil, "Warning", "Error"}]
         \cup {[kind |-> "none"]}

Acked(r) == r.readable /\ r.ack \in {"Success", "Warning"}

\* get_best_offers_raw(): an unreadable answer is a 502, an unreadable error a crash.
OfferPage(r) ==
    CASE r.kind = "none" -> "bad_gateway"
      [] r.kind = "ok" /\ ~r.readable -> "bad_gateway"
      [] r.kind = "error" -> IF r.readable THEN "failed" ELSE "crash"
      [] OTHER -> IF Acked(r) THEN "ok" ELSE "failed"

\* _best_offer_action_xml()
Confirmed(r) ==
    /\ Acked(r)
    /\ r.calls = <<"Success">>
    /\ r.severity # "Error"
M_DefinitiveFailure(r) == ~Confirmed(r)     \* mutant: anything else is a failure
DefinitiveFailure(r) ==
    /\ r.readable
    /\ r.ack = "Failure" \/ r.calls = <<"Failure">>
    /\ r.severity # Nil \/ r.calls # <<>>
Ambiguous(r) == ~Confirmed(r) /\ ~DefinitiveFailure(r)

\* respond_to_best_offer_raw(): one attempt; a lost or unreadable reply stays ambiguous.
OfferResponse(r) ==
    CASE r.kind = "none" -> "ambiguous"
      [] Ambiguous(r) -> "ambiguous"
      [] OTHER -> IF r.kind = "ok" /\ Confirmed(r) THEN "ok" ELSE "failed"

\* _trading_message_xml(): an unreadable body counts as ack Failure.
TradingAnswer(r) == IF r.kind # "none" /\ r.readable THEN r.ack ELSE "Failure"
\* _request_trading_api_raw(): a lost reply counts as status 500.
TradingCall(r) ==
    IF r.kind = "ok" /\ TradingAnswer(r) \in {"Success", "Warning"} THEN "ok" ELSE "failed"

\* _request_message_api_raw(), _request_json_api_raw(): the status decides, not the body.
MessageApi(r) ==
    CASE r.kind = "none" -> "bad_gateway" [] r.kind = "error" -> "failed" [] OTHER -> "ok"
JsonApi(r) == MessageApi(r)

\* get_conversations(), get_conversation(): a body that is not an object is an error.
ConversationList(r) == IF MessageApi(r) = "ok" /\ r.readable THEN "ok" ELSE "bad_gateway"
ConversationDetail(r) == ConversationList(r)
OrderDetail(r) == JsonApi(r)
OrderSearch(r) == JsonApi(r)
ReturnSearch(r) == JsonApi(r)
ReturnDetail(r) == JsonApi(r)

\* _my_messages_xml(), get_my_messages_raw(): like a trading message.
MyMessages(r) == TradingCall(r)
\* get_message_details_raw(): a lost reply is a 502.
MessageDetails(r) == IF r.kind = "none" THEN "bad_gateway" ELSE TradingCall(r)
\* get_my_messages_debug(): any answer is good.
MyMessagesDebug(r) == IF r.kind = "ok" THEN "ok" ELSE "failed"

Reading(op, r) ==
    CASE op = "best offers" -> OfferPage(r)
      [] op = "conversations" -> ConversationList(r)
      [] op = "conversation" -> ConversationDetail(r)
      [] op = "order" -> OrderDetail(r)
      [] op = "orders" -> OrderSearch(r)
      [] op = "returns" -> ReturnSearch(r)
      [] op = "return" -> ReturnDetail(r)
      [] op = "my messages" -> MyMessages(r)
      [] op = "message details" -> MessageDetails(r)
      [] OTHER -> MyMessagesDebug(r)
Readings == {"best offers", "conversations", "conversation", "order", "orders", "returns",
             "return", "my messages", "message details", "my messages debug"}

----------------------------------------------------------------------------
(* Requests.  A body is a sequence of lines, "" an empty one.              *)
Request(thread, buyer, body, media, listing) ==
    [thread |-> thread, buyer |-> buyer, body |-> body, media |-> media, listing |-> listing]
\* `listing_id and listing_id.strip()`
Trimmed(listing) == IF listing = "blank" THEN Nil ELSE listing
\* _message_body_for_send(): a space on every empty line.
BodyForSend(body) == [i \in DOMAIN body |-> IF body[i] = "" THEN " " ELSE body[i]]

SendConversationMessage(thread, body, media, listing) ==
    Request(thread, Nil, BodyForSend(body), media, Trimmed(listing))
StartConversationMessage(buyer, body, media, listing) ==
    Request(Nil, buyer, BodyForSend(body), media, Trimmed(listing))

\* send_trading_member_message(): the parent goes only into a reply.
TradingMessage(call, item, buyer, body, media, parent) ==
    Request(IF call = "REPLY" THEN parent ELSE Nil, buyer, body, media, item)

\* eBay drops the fully empty lines of a text.
Shown(request) ==
    [request EXCEPT !.body = Restrict(@, {i \in DOMAIN @ : @[i] # ""})]

----------------------------------------------------------------------------
(* upload_message_media(): create the image, then read it back at its      *)
(* Location when the answer names no URL.                                  *)
Uploaded(url, location, get) ==
    IF url THEN "ok with url"
    ELSE IF ~location THEN "ok"
    ELSE CASE get = "none" -> "failed" [] get = "error" -> "failed"
           [] get = "url" -> "ok with url" [] OTHER -> "ok"
UploadMessageMedia(create, url, location, get) ==
    IF create # "ok" THEN "failed" ELSE Uploaded(url, location, get)

----------------------------------------------------------------------------
(* One exchange.  eBay does what it is asked or not, and answers so; the   *)
(* answer is lost, replaced by an HTTP error or garbled on the way.        *)
Says(applied) ==
    {r \in Reply :
        \/ r.kind = "none"
        \/ r.kind # "none" /\ ~r.readable
        \/ /\ r.kind # "none" /\ r.readable
           /\ IF applied THEN /\ r.kind = "ok" /\ r.severity # "Error"
                              /\ r.ack \in {"Success", "Warning"} /\ r.calls = <<"Success">>
              ELSE /\ r.ack \in {"PartialFailure", "Failure"} /\ r.severity = "Error"
                   /\ r.calls \in {<<>>, <<"Failure">>}}

Did(op, asked, applied, held, verdict) ==
    exchange' = [op |-> op, asked |-> asked, applied |-> applied, held |-> held, verdict |-> verdict]

Respond ==
    \E applied \in BOOLEAN : \E r \in Says(applied) :
        Did("respond", Nil, applied, Nil, OfferResponse(r))

Typed == UNION {[1..n -> {"text", ""}] : n \in 1..MaxLines}
Listing == {Nil, "blank", "item"}

Send(op, asked, request, verdict) ==
    \E applied \in BOOLEAN : \E r \in Says(applied) :
        /\ r.kind = "ok" => (op = "trading" \/ applied)     \* a 2xx of the Message API is a delivery
        /\ Did(op, asked, applied, Shown(request), verdict[r])

SendMessage ==
    \E body \in Typed, listing \in Listing, media \in BOOLEAN :
        \/ \E c \in Thread :
             Send("message", [to |-> c, body |-> body, media |-> media, listing |-> listing],
                  SendConversationMessage(c, body, media, listing), [r \in Reply |-> MessageApi(r)])
        \/ \E b \in Buyer :
             Send("message", [to |-> b, body |-> body, media |-> media, listing |-> listing],
                  StartConversationMessage(b, body, media, listing), [r \in Reply |-> MessageApi(r)])

SendTrading ==
    \E call \in {"REPLY", "PARTNER"}, b \in Buyer, media \in BOOLEAN :
        Send("trading", [to |-> b, body |-> <<"text">>, media |-> media, listing |-> "item"],
             TradingMessage(call, "item", b, <<"text">>, media, Nil), [r \in Reply |-> TradingCall(r)])

Read == \E op \in Readings : \E r \in Reply : Did(op, Nil, FALSE, Nil, Reading(op, r))

Upload ==
    \E create \in {"ok", "error", "none"}, url, location \in BOOLEAN,
       get \in {"none", "error", "url", "ok"} :
        Did("upload", Nil, create = "ok", Nil,
            UploadMessageMedia(create, url, location, get))

WireInit == exchange = [op |-> Nil, asked |-> Nil, applied |-> FALSE, held |-> Nil, verdict |-> Nil]
WireNext == Respond \/ SendMessage \/ SendTrading \/ Read \/ Upload
WireSpec == WireInit /\ [][WireNext]_wireVars

----------------------------------------------------------------------------
WireTypeOK ==
    exchange.verdict \in {Nil, "ok", "failed", "ambiguous", "bad_gateway", "crash", "ok with url"}

\* What a verdict claims about eBay is so: a call reported done was done as asked (every
\* typed line and the listing reference included), and a Best Offer response reported as
\* failed was not applied; a lost or unreadable reply to it is never called a failure.
VerdictTruth ==
    LET x == exchange IN
    /\ x.op \in {"respond", "message", "trading"} /\ x.verdict = "ok" => x.applied
    /\ x.op = "respond" /\ x.verdict = "failed" => ~x.applied
    /\ x.op \in {"message", "trading"} /\ x.verdict = "ok" =>
         /\ x.asked.to \in {x.held.thread, x.held.buyer}
         /\ DOMAIN x.held.body = DOMAIN x.asked.body
         /\ \A i \in DOMAIN x.asked.body :
              x.asked.body[i] # "" => x.held.body[i] = x.asked.body[i]
         /\ x.held.listing = "item" <=> x.asked.listing = "item"
         /\ x.held.listing \in {Nil, "item"}
=============================================================================
