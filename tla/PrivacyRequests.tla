-------------------------- MODULE PrivacyRequests --------------------------
(***************************************************************************)
(* What becomes of one customer's data when Shopify asks for its erasure:  *)
(* customers/redact and shop/redact (routes/webhooks), the object storage  *)
(* (StorageService), and those who write about a return meanwhile: photo   *)
(* uploads, the label email and customers/data_request.                    *)
(*                                                                         *)
(* A redaction reads which returns the customer has, deletes their files   *)
(* one return after the other, and then anonymises all the rows in one     *)
(* transaction; only then is Shopify answered, and Shopify delivers again  *)
(* until it is.  The inbox in front of it is WebhookInbox: here the key is *)
(* held, given back by a failure, or lapses.                               *)
(*                                                                         *)
(* Writers read the return first and write to it some awaits later, so one *)
(* that was under way can write behind an erasure.  excuse is a history    *)
(* variable: why something of an erased return may still be there.         *)
(***************************************************************************)
EXTENDS Integers, FiniteSetsExt

CONSTANTS
  Returns,     \* room for the customer's returns
  Attempts,    \* deliveries that can be handled at the same time
  Writers,     \* others at work at the same time
  PageSize,    \* objects that one ListObjectsV2 names
  MaxWrites,   \* bound: how many writers begin
  MaxFailures, \* bound: attempts that fail or die, storage errors
  None

ASSUME SizeAssumption == PageSize \in Nat \ {0} /\ MaxWrites \in Nat /\ MaxFailures \in Nat

VARIABLES
  ret,       \* the customer's returns: the email it is under (own or alias), and
             \* whether it has the customer's name and words, links to photos, and
             \* personal data on its timeline (its trail)
  files,     \* objects stored under each return
  request,   \* Shopify's request and the key of its deliveries
  attempt,   \* the deliveries being handled: returns found, those with files left
  writer,    \* the others: what they do, to which returns, how far they are
  erased,    \* the returns a finished erasure had found
  asked,     \* those there when Shopify asked
  excuse, writes, failures

erasureVars == <<ret, files, request, attempt, writer, erased, asked, excuse, writes, failures>>

Topics == {"customers/redact", "shop/redact"}

ErasureInit ==
  /\ ret = [r \in Returns |-> None] /\ files = [r \in Returns |-> 0]
  /\ request = [topic |-> None, state |-> "none"]
  /\ attempt = [a \in Attempts |-> None] /\ writer = [w \in Writers |-> None]
  /\ erased = {} /\ asked = {} /\ excuse = [r \in Returns |-> {}]
  /\ writes = 0 /\ failures = 0

OnFile    == {r \in Returns : ret[r] # None}
Excused(R, why) == excuse' = [r \in Returns |-> IF r \in R THEN excuse[r] \cup {why} ELSE excuse[r]]
Failure   == failures < MaxFailures /\ failures' = failures + 1

-----------------------------------------------------------------------------
(* The customer, the label email, the data request.                        *)

\* A return is made.  The shop that would be asked is gone after shop/redact.
CreateReturn ==
  /\ request.topic # "shop/redact"
  /\ \E r \in Returns \ (OnFile \cup erased) :
       ret' = [ret EXCEPT ![r] = [email |-> "own", words |-> TRUE, links |-> FALSE, trail |-> FALSE]]
  /\ UNCHANGED <<files, request, attempt, writer, erased, asked, excuse, writes, failures>>

\* A writer reads the returns it is about: an upload, one under the
\* customer's own email; the label email, any; a data request, all of them.
Begin(w) ==
  /\ writer[w] = None /\ writes < MaxWrites
  /\ \E kind \in {"upload", "label", "data"}, R \in SUBSET OnFile :
       /\ R # {}
       /\ (kind # "data") => (\E r \in R : R = {r})
       /\ (kind # "label") => (\A r \in R : ret[r].email = "own")
       /\ (kind = "data") => (R = {r \in OnFile : ret[r].email = "own"})
       /\ writer' = [writer EXCEPT ![w] = [kind |-> kind, of |-> R, stage |-> "read", begun |-> R \ erased,
                                           personal |-> \E r \in R : ret[r].email = "own"]]
  /\ writes' = writes + 1
  /\ UNCHANGED <<ret, files, request, attempt, erased, asked, excuse, failures>>

\* The returns of R whose files an erasure has deleted, or is about to have.
FilesGone(R) == {r \in R : r \in erased \/ \E a \in Attempts : attempt[a] # None /\ r \in attempt[a].found \ attempt[a].todo}

\* An upload puts the object (or the browser does, at a presigned address).
PutFile(w) ==
  /\ writer[w] # None /\ writer[w].kind = "upload" /\ writer[w].stage = "read"
  /\ files' = [r \in Returns |-> IF r \in writer[w].of THEN files[r] + 1 ELSE files[r]]
  /\ writer' = [writer EXCEPT ![w].stage = "put"]
  /\ Excused(FilesGone(writer[w].of) \cap writer[w].begun, "late")
  /\ UNCHANGED <<ret, request, attempt, erased, asked, writes, failures>>

\* The link, or the event, is written; a row that is gone refuses it.
Write(w) ==
  /\ writer[w] # None /\ (writer[w].kind = "upload") = (writer[w].stage = "put")
  /\ ret' = [r \in Returns |->
               IF r \notin writer[w].of \cap OnFile THEN ret[r]
               ELSE IF writer[w].kind = "upload" THEN [ret[r] EXCEPT !.links = TRUE]
               ELSE [ret[r] EXCEPT !.trail = @ \/ writer[w].personal]]
  /\ writer' = [writer EXCEPT ![w] = None]
  /\ Excused(writer[w].of \cap writer[w].begun \cap erased, "late")
  /\ UNCHANGED <<files, request, attempt, erased, asked, writes, failures>>

\* A writer fails, or a presigned address is used and no link ever follows.
GiveUp(w) ==
  /\ writer[w] # None
  /\ writer' = [writer EXCEPT ![w] = None]
  /\ UNCHANGED <<ret, files, request, attempt, erased, asked, excuse, writes, failures>>

-----------------------------------------------------------------------------
(* The request and its deliveries.                                         *)

\* Shopify asks, once.
Ask ==
  /\ request.state = "none"
  /\ \E topic \in Topics : request' = [topic |-> topic, state |-> "due"]
  /\ asked' = OnFile
  /\ UNCHANGED <<ret, files, attempt, writer, erased, excuse, writes, failures>>

\* Mutant of Deliver: the answer is given before the work is done.
DeliverAnswering(a) ==
  /\ request.state = "due" /\ attempt[a] = None
  /\ request' = [request EXCEPT !.state = "answered"]
  /\ attempt' = [attempt EXCEPT ![a] = [found |-> OnFile, todo |-> OnFile]]
  /\ UNCHANGED <<ret, files, writer, erased, asked, excuse, writes, failures>>

\* A delivery takes the key and reads the customer's returns, under their
\* email or already under the alias; or all of the shop's.
Deliver(a) ==
  /\ request.state = "due" /\ attempt[a] = None
  /\ request' = [request EXCEPT !.state = "held"]
  /\ attempt' = [attempt EXCEPT ![a] = [found |-> OnFile, todo |-> OnFile]]
  /\ UNCHANGED <<ret, files, writer, erased, asked, excuse, writes, failures>>

\* The lease lapses under an attempt that is slow, or dead.
LeaseLapses ==
  /\ request.state = "held"
  /\ request' = [request EXCEPT !.state = "due"]
  /\ (\E a \in Attempts : attempt[a] # None) => (failures < MaxFailures)
  /\ failures' = IF \E a \in Attempts : attempt[a] # None THEN failures + 1 ELSE failures
  /\ UNCHANGED <<ret, files, attempt, writer, erased, asked, excuse, writes>>

\* deleteAllForReturn: the first page of the objects, one by one.  (Those put
\* after the listing are not on it.)
DeleteFiles(a) ==
  /\ attempt[a] # None
  /\ \E r \in attempt[a].todo :
       /\ files' = [files EXCEPT ![r] = Max({0, @ - PageSize})]
       /\ attempt' = [attempt EXCEPT ![a].todo = @ \ {r}]
       /\ Excused({r} \cap {q \in Returns : files[q] > PageSize}, "overflow")
  /\ UNCHANGED <<ret, request, writer, erased, asked, writes, failures>>

\* The storage fails on some object.  shop/redact goes on without it; a
\* customer's redaction fails, and so it can be tried again.
StorageFails(a) ==
  /\ attempt[a] # None /\ attempt[a].todo # {} /\ Failure
  /\ \E r \in attempt[a].todo, n \in 0..MaxWrites :
       n <= files[r] /\ files' = [files EXCEPT ![r] = n]
  /\ IF request.topic = "shop/redact"
     THEN /\ attempt' = [attempt EXCEPT ![a].todo = {}]
          /\ Excused(attempt[a].todo, "swallowed")
          /\ UNCHANGED request
     ELSE /\ attempt' = [attempt EXCEPT ![a] = None]
          /\ request' = [request EXCEPT !.state = IF @ = "answered" THEN @ ELSE "due"]
          /\ UNCHANGED excuse
  /\ UNCHANGED <<ret, writer, erased, asked, writes>>

\* Mutant of Redact: the timeline is left as it is.
RedactRows(a) ==
  /\ attempt[a] # None /\ attempt[a].todo = {}
  /\ ret' = [r \in Returns |->
               IF r \notin attempt[a].found \cap OnFile THEN ret[r]
               ELSE [ret[r] EXCEPT !.email = "alias", !.words = FALSE, !.links = FALSE]]
  /\ erased' = erased \cup attempt[a].found
  /\ attempt' = [attempt EXCEPT ![a] = None]
  /\ request' = [request EXCEPT !.state = "answered"]
  /\ UNCHANGED <<files, writer, asked, excuse, writes, failures>>

\* Then every row at once (the shop's are deleted), and Shopify is answered.
Redact(a) ==
  /\ attempt[a] # None /\ attempt[a].todo = {}
  /\ ret' = [r \in Returns |->
               IF r \notin attempt[a].found \cap OnFile THEN ret[r]
               ELSE IF request.topic = "shop/redact" THEN None
               ELSE [email |-> "alias", words |-> FALSE, links |-> FALSE, trail |-> FALSE]]
  /\ erased' = erased \cup attempt[a].found
  /\ attempt' = [attempt EXCEPT ![a] = None]
  /\ request' = [request EXCEPT !.state = "answered"]
  /\ UNCHANGED <<files, writer, asked, excuse, writes, failures>>

\* The database fails: a 500, and the key is given back.
DatabaseFails(a) ==
  /\ attempt[a] # None /\ Failure
  /\ attempt' = [attempt EXCEPT ![a] = None]
  /\ request' = [request EXCEPT !.state = IF @ = "answered" THEN @ ELSE "due"]
  /\ UNCHANGED <<ret, files, writer, erased, asked, excuse, writes>>

\* The process dies with the key held.
ProcessDies ==
  /\ Failure
  /\ attempt' = [a \in Attempts |-> None] /\ writer' = [w \in Writers |-> None]
  /\ UNCHANGED <<ret, files, request, erased, asked, excuse, writes>>

Work(a) == Deliver(a) \/ DeleteFiles(a) \/ Redact(a)

ErasureNext ==
  \/ CreateReturn \/ Ask \/ LeaseLapses \/ ProcessDies
  \/ \E a \in Attempts : Work(a) \/ StorageFails(a) \/ DatabaseFails(a)
  \/ \E w \in Writers : Begin(w) \/ PutFile(w) \/ Write(w) \/ GiveUp(w)

ErasureSpec == ErasureInit /\ [][ErasureNext]_erasureVars

\* Shopify delivers again until it is answered, handlers run to their end
\* and a lease that nobody holds lapses.
FairErasureSpec ==
  /\ ErasureSpec
  /\ WF_erasureVars(\E a \in Attempts : Deliver(a)) /\ WF_erasureVars(LeaseLapses)
  /\ \A a \in Attempts : WF_erasureVars(DeleteFiles(a) \/ Redact(a))

-----------------------------------------------------------------------------
(* Properties.                                                             *)

Nothing(r) ==
  /\ files[r] = 0
  /\ (ret[r] # None) => (ret[r].email = "alias" /\ ~ret[r].words /\ ~ret[r].links /\ ~ret[r].trail)

\* "A failure leaves nothing half-redacted": once Shopify has been answered,
\* nothing of the customer is left of a return that the erasure found, however
\* often it was retried and wherever it died before; unless somebody who had
\* read the return before wrote to it afterwards, it had more files than one
\* listing names, or shop/redact passed over a storage error.
Erased == \A r \in erased : excuse[r] = {} => Nothing(r)

\* "The request fails (500) and Shopify retries the whole thing": every return
\* that is there when Shopify asks is erased in the end, and Shopify answered.
\* (One made after the returns were read is not looked for again.)
EventuallyErased ==
  \A r \in Returns : (r \in asked) ~> (r \in erased /\ request.state = "answered")

=============================================================================
