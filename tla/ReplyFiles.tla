------------------------------ MODULE ReplyFiles ------------------------------
(***************************************************************************)
(* The images of a reply: written to the upload directory, uploaded to     *)
(* eBay one by one, sent with the reply, removed from the disk before the  *)
(* reply's rows are committed, and replaced when the sync imports what     *)
(* eBay shows of the message.                                              *)
(***************************************************************************)
EXTENDS Integers, Sequences, FiniteSets, SequencesExt

CONSTANTS
    Reply,          \* clicks on Send
    Uploads,        \* Uploads[r], the images of a reply: name, mime type, large (over the size limit)
    MaxCount,       \* MAX_REPLY_ATTACHMENT_COUNT
    MaxImports,     \* bound: imports of the sync
    None

VARIABLES
    disk,           \* files <<reply, index>> in the upload directory
    ebay,           \* eBay: the replies it has, with their images
    messages,       \* Message rows: <<reply, "local">> or <<reply, "provider">>
    rows,           \* MessageAttachment rows
    sending,        \* the request of send_reply() under way
    told,           \* what the agent was told of a reply, "died" of an interrupted one
    payloads,       \* history: what the last import of a message showed
    kept,           \* history: files the disk refused to remove
    lost            \* history: files that vanished from the disk

fileVars == <<disk, ebay, messages, rows, sending, told, payloads, kept, lost>>

ALLOWED == {"image/jpeg", "image/png"}
Idle == [stage |-> "idle"]
Files(r) == {<<r, i>> : i \in DOMAIN Uploads[r]}
Upload(f) == Uploads[f[1]][f[2]]

FilesInit ==
    /\ disk = {} /\ ebay = <<>> /\ messages = {} /\ rows = {}
    /\ sending = Idle
    /\ told = [r \in Reply |-> None]
    /\ payloads = <<>> /\ kept = {} /\ lost = {}

----------------------------------------------------------------------------
\* validate_uploads(): before anything is written.
Valid(uploads) ==
    Len(uploads) <= MaxCount /\ \A i \in DOMAIN uploads : uploads[i].mime \in ALLOWED
ReplyBegins(r) ==
    /\ sending.stage = "idle" /\ told[r] = None
    /\ IF Valid(Uploads[r])
       THEN sending' = [stage |-> "save", reply |-> r, next |-> 1, rows |-> {}, id |-> None, known |-> FALSE]
            /\ UNCHANGED told
       ELSE told' = [told EXCEPT ![r] = "refused"] /\ UNCHANGED sending
    /\ UNCHANGED <<disk, ebay, messages, rows, payloads, kept, lost>>

\* The request ends without a commit: its rows are rolled back, its files are not.
Aborts(outcome) ==
    /\ sending' = Idle
    /\ told' = [told EXCEPT ![sending.reply] = outcome]

\* save_uploads(): a file is on the disk before the size of the next is known.
Pending(f) == [message |-> <<f[1], "local">>, file |-> f, id |-> f, name |-> Upload(f).name, path |-> TRUE, url |-> FALSE]
SaveUpload ==
    LET f == <<sending.reply, sending.next>> IN
    /\ sending.stage = "save"
    /\ CASE sending.next > Len(Uploads[sending.reply]) ->
              sending' = [sending EXCEPT !.stage = "upload", !.next = 1] /\ UNCHANGED <<disk, told>>
         [] sending.next <= Len(Uploads[sending.reply]) /\ Upload(f).large ->
              Aborts("refused") /\ UNCHANGED disk
         [] OTHER ->
              /\ disk' = disk \cup {f}
              /\ sending' = [sending EXCEPT !.next = @ + 1, !.rows = @ \cup {Pending(f)}]
              /\ UNCHANGED told
    /\ UNCHANGED <<ebay, messages, rows, payloads, kept, lost>>

\* _extract_ebay_media_url(): the first of the known keys that holds a text.
Keys == <<"maxDimensionImageUrl", "mediaUrl", "media_url", "imageUrl", "url">>
ExtractEbayMediaUrl(payload) ==
    LET held == {i \in DOMAIN Keys : Keys[i] \in payload} IN
    IF held = {} THEN None ELSE Keys[CHOOSE i \in held : \A j \in held : i <= j]
Answers == {[ok |-> TRUE, payload |-> {"imageUrl", "maxDimensionImageUrl"}], [ok |-> TRUE, payload |-> {}],
            [ok |-> FALSE, payload |-> {}]}

\* upload_to_ebay(): the first image that fails ends the reply.
Fatal(f, answer) ==
    \/ f \notin disk
    \/ ~answer.ok
    \/ ExtractEbayMediaUrl(answer.payload) = None
Hosted(row, answer) == [row EXCEPT !.url = answer.ok /\ ExtractEbayMediaUrl(answer.payload) # None]
UploadToEbay(answer) ==
    LET f == <<sending.reply, sending.next>> IN
    /\ sending.stage = "upload" /\ sending.next <= Len(Uploads[sending.reply])
    /\ IF Fatal(f, answer) THEN Aborts("failed")
       ELSE /\ sending' = [sending EXCEPT !.next = @ + 1,
                              !.rows = {IF row.file = f THEN Hosted(row, answer) ELSE row : row \in @}]
            /\ UNCHANGED told
    /\ UNCHANGED <<disk, ebay, messages, rows, payloads, kept, lost>>

----------------------------------------------------------------------------
\* The reply goes out with the images that are hosted.
Media == {row.file : row \in {x \in sending.rows : x.url}}
Sendable == sending.stage = "upload" /\ sending.next > Len(Uploads[sending.reply])
Delivered == [r \in DOMAIN ebay \cup {sending.reply} |-> IF r = sending.reply THEN Media ELSE ebay[r]]
\* eBay took it; the answer may name the message.
SendAnswered(id) ==
    /\ Sendable
    /\ ebay' = Delivered
    /\ sending' = [sending EXCEPT !.stage = "sent", !.id = id]
    /\ UNCHANGED <<disk, messages, rows, told, payloads, kept, lost>>
\* It did not, or did and is not heard.
SendFails(taken) ==
    /\ Sendable
    /\ ebay' = IF taken THEN Delivered ELSE ebay
    /\ Aborts("failed")
    /\ UNCHANGED <<disk, messages, rows, payloads, kept, lost>>

\* mark_delivery_result(), delete_local_files(): a file the disk keeps stays named.
Removed(row, stubborn) == [row EXCEPT !.path = row.file \in stubborn]
DeleteLocalFiles(stubborn) ==
    /\ sending.stage = "sent" /\ stubborn \subseteq disk \cap Files(sending.reply)
    /\ disk' = disk \ (Files(sending.reply) \ stubborn)
    /\ kept' = kept \cup stubborn
    \* _existing_provider_message()
    /\ sending' = [sending EXCEPT !.stage = "commit", !.rows = {Removed(row, stubborn) : row \in @},
                                  !.known = sending.id # None /\ <<sending.reply, "provider">> \in messages]
    /\ UNCHANGED <<ebay, messages, rows, told, payloads, lost>>

\* The reply becomes eBay's message; when the sync stored that one first, the pending message
\* is deleted, and with it (cascade of Message.attachments) the rows just moved away from it.
Final == <<sending.reply, IF sending.id = None THEN "local" ELSE "provider">>
ReplyCommits ==
    /\ sending.stage = "commit" /\ (sending.known \/ Final \notin messages)
    /\ messages' = messages \cup {Final}
    /\ rows' = IF sending.known THEN rows ELSE rows \cup {[row EXCEPT !.message = Final] : row \in sending.rows}
    /\ Aborts("sent")
    /\ UNCHANGED <<disk, ebay, payloads, kept, lost>>
\* The sync stored it after the look.
ReplyCollides ==
    /\ sending.stage = "commit" /\ ~sending.known /\ Final \in messages
    /\ Aborts("failed")
    /\ UNCHANGED <<disk, ebay, messages, rows, payloads, kept, lost>>
ReplyDies ==
    /\ sending.stage # "idle"
    /\ Aborts("died")
    /\ UNCHANGED <<disk, ebay, messages, rows, payloads, kept, lost>>

----------------------------------------------------------------------------
\* _attachments_from_message_payload(): eBay shows the images by name, without any
\* identifier, or not yet.
Shapes == {"named", "bare", "none"}
Shown(r, shape) ==
    IF shape = "none" THEN {}
    ELSE {[message |-> <<r, "provider">>, file |-> None, id |-> IF shape = "named" THEN <<Upload(f).name>> ELSE f,
           name |-> IF shape = "named" THEN Upload(f).name ELSE "Attachment", path |-> FALSE, url |-> TRUE] : f \in ebay[r]}
\* replace_attachments(): the rows are those of the payload; an identifier eBay repeats counts once.
ReplaceAttachments(message, shown) == {row \in rows : row.message # message} \cup shown

\* upsert_by_provider_id(): its own message, else the local reply it stands for, else a new one.
Import(r, shape) ==
    LET mine == <<r, "provider">> local == <<r, "local">>
        claimed == IF mine \notin messages /\ local \in messages THEN {local} ELSE {} IN
    /\ r \in DOMAIN ebay
    /\ Cardinality(DOMAIN payloads) < MaxImports \/ mine \in DOMAIN payloads
    /\ messages' = (messages \ claimed) \cup {mine}
    /\ rows' = {row \in ReplaceAttachments(mine, Shown(r, shape)) : row.message \notin claimed}
    /\ payloads' = [m \in DOMAIN payloads \cup {mine} |-> IF m = mine THEN shape ELSE payloads[m]]
    /\ UNCHANGED <<disk, ebay, sending, told, kept, lost>>

\* The host loses a file.
Vanish(f) ==
    /\ disk' = disk \ {f} /\ lost' = lost \cup {f}
    /\ UNCHANGED <<ebay, messages, rows, sending, told, payloads, kept>>

\* resolve_download_path(), download_reply_attachment(): a file on the disk that a row names;
\* download_public_reply_attachment(): by the row.
ResolveDownloadPath(f) == f \in disk /\ \E row \in rows : row.path /\ row.file = f
ResolveStoragePath(row) == row.path /\ row.file \in disk

FilesNext ==
    \/ \E r \in Reply : ReplyBegins(r)
    \/ SaveUpload
    \/ \E answer \in Answers : UploadToEbay(answer)
    \/ \E id \in {None, "provider"} : SendAnswered(id)
    \/ \E taken \in BOOLEAN : SendFails(taken)
    \/ \E stubborn \in SUBSET disk : DeleteLocalFiles(stubborn)
    \/ ReplyCommits \/ ReplyCollides \/ ReplyDies
    \/ \E r \in Reply, shape \in Shapes : Import(r, shape)
    \/ \E f \in disk : Vanish(f)

----------------------------------------------------------------------------
FilesTypeOK ==
    /\ disk \subseteq UNION {Files(r) : r \in Reply}
    /\ DOMAIN ebay \subseteq Reply /\ messages \subseteq Reply \X {"local", "provider"}
    /\ \A row \in rows : row.message \in messages /\ row.path \in BOOLEAN /\ row.url \in BOOLEAN
    /\ told \in [Reply -> {None, "refused", "failed", "died", "sent"}]

\* The images of the replies are accounted for.  eBay has a reply with all its images or not
\* at all; no stored row is a dead end: it has eBay's address, and a path it keeps leads to a
\* file; a stored reply that no import has replaced shows all its images, an imported one each
\* name eBay showed; and a file stays behind only for a reply that was refused, failed or was
\* interrupted, or because the disk did not let it go.
FilesAccounted ==
    /\ \A r \in DOMAIN ebay : ebay[r] = Files(r)
    /\ \A row \in rows :
         /\ row.url
         /\ row.path => (ResolveStoragePath(row) /\ ResolveDownloadPath(row.file)) \/ row.file \in lost
    /\ \A m \in messages :
         LET shown == {row \in rows : row.message = m} IN
         IF m \notin DOMAIN payloads THEN {row.file : row \in shown} = Files(m[1])
         ELSE payloads[m] = "named" => {row.name : row \in shown} = {Upload(f).name : f \in Files(m[1])}
    /\ \A f \in disk :
         \/ told[f[1]] \in {"refused", "failed", "died"}
         \/ sending.stage # "idle" /\ sending.reply = f[1]
         \/ f \in kept
=============================================================================
