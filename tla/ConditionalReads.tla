-------------------------- MODULE ConditionalReads --------------------------
(***************************************************************************)
(* GET requests of one installation for one URL, through the ETag cache.   *)
(* The cache key holds the installation and the URL, so nothing else meets *)
(* this entry.  A request looks the entry up, asks GitHub with its ETag,   *)
(* and stores a 200 or serves the entry it looked up on a 304: three       *)
(* awaits between which other requests store theirs.                       *)
(***************************************************************************)
EXTENDS Naturals

CONSTANTS
  Reads,      \* requests; one may be repeated when it is over
  Bodies,     \* representations of the resource; ETags tell them apart
  READ_RETRIES,   \* attempts the retry plugin adds: 3
  Nothing     \* no entry, no body

VARIABLES
  resource,     \* what GitHub answers now: a body, or Nothing for a 404
  etagEntry,    \* the cached [etag, data], or Nothing
  readAt,       \* readAt[r]: the next await of read r
  cached,       \* cached[r]: the entry it looked up
  ifNoneMatch,  \* ifNoneMatch[r]: the header of its request, or Nothing
  reply,        \* reply[r]: GitHub's answer, then what the caller gets
  attempts,     \* attempts[r]: times it was sent again
  current       \* current[r]: what GitHub answered since it began

readVars == <<resource, etagEntry, readAt, cached, ifNoneMatch, reply, attempts, current>>

etag(body) == <<"etag", body>>
EtagEntry(body) == [etag |-> etag(body), data |-> body]
ETags == {etag(b) : b \in Bodies}
Replies == [status : {200}, body : Bodies] \cup [status : {304, 404, 500}, body : {Nothing}]

ASSUME ReadConstants == Nothing \notin Bodies /\ READ_RETRIES \in Nat

ReadBegins(r) ==
  /\ readAt[r] \in {"idle", "done"}
  /\ readAt' = [readAt EXCEPT ![r] = "look-up"]
  /\ reply' = [reply EXCEPT ![r] = Nothing]
  /\ current' = [current EXCEPT ![r] = {resource}]
  /\ UNCHANGED <<resource, etagEntry, cached, ifNoneMatch, attempts>>

(* The caller has its answer; nothing else of the request is left.         *)
Finish(r, answer) ==
  /\ reply' = [reply EXCEPT ![r] = answer]
  /\ readAt' = [readAt EXCEPT ![r] = "done"]
  /\ cached' = [cached EXCEPT ![r] = Nothing]
  /\ ifNoneMatch' = [ifNoneMatch EXCEPT ![r] = Nothing]
  /\ attempts' = [attempts EXCEPT ![r] = 0]

(* A Redis outage, an expired or an unreadable entry is a miss.  The header *)
(* is set in the options, which the retry plugin passes again.              *)
LookUp(r) ==
  /\ readAt[r] = "look-up"
  /\ \E e \in {etagEntry, Nothing} :
       /\ cached' = [cached EXCEPT ![r] = e]
       /\ ifNoneMatch' = [ifNoneMatch EXCEPT ![r] = IF e = Nothing THEN @ ELSE e.etag]
  /\ readAt' = [readAt EXCEPT ![r] = "request"]
  /\ UNCHANGED <<resource, etagEntry, reply, attempts, current>>

Answer(header) ==
  IF resource = Nothing THEN [status |-> 404, body |-> Nothing]
  ELSE IF header = etag(resource) THEN [status |-> 304, body |-> Nothing]
  ELSE [status |-> 200, body |-> resource]

(* GitHub evaluates the request; the answer is on its way.                 *)
GithubAnswers(r) ==
  /\ readAt[r] = "request"
  /\ reply' = [reply EXCEPT ![r] = Answer(ifNoneMatch[r])]
  /\ readAt' = [readAt EXCEPT ![r] = "response"]
  /\ UNCHANGED <<resource, etagEntry, cached, ifNoneMatch, attempts, current>>

(* A 5xx or no answer: the retry plugin calls the hook again.              *)
GithubFails(r) ==
  /\ readAt[r] = "request"
  /\ IF attempts[r] < READ_RETRIES
       THEN /\ attempts' = [attempts EXCEPT ![r] = @ + 1]
            /\ readAt' = [readAt EXCEPT ![r] = "look-up"]
            /\ UNCHANGED <<reply, cached, ifNoneMatch>>
       ELSE Finish(r, [status |-> 500, body |-> Nothing])
  /\ UNCHANGED <<resource, etagEntry, current>>

(* A 200 is stored, if Redis takes it, and returned.                       *)
StoreResponse(r) ==
  /\ readAt[r] = "response" /\ reply[r].status = 200
  /\ etagEntry' \in {EtagEntry(reply[r].body), etagEntry}
  /\ Finish(r, reply[r])
  /\ UNCHANGED <<resource, current>>

BugServesStored(r) ==
  /\ readAt[r] = "response" /\ reply[r].status = 304 /\ cached[r] # Nothing /\ etagEntry # Nothing
  /\ Finish(r, [status |-> 200, body |-> etagEntry.data])
  /\ UNCHANGED <<resource, etagEntry, current>>

(* A 304 becomes the 200 it stands for.                                    *)
ServeCached(r) ==
  /\ readAt[r] = "response" /\ reply[r].status = 304 /\ cached[r] # Nothing
  /\ Finish(r, [status |-> 200, body |-> cached[r].data])
  /\ UNCHANGED <<resource, etagEntry, current>>

(* Anything else is thrown to the caller, a 304 for which the retry found  *)
(* no entry any more included.                                             *)
Rethrow(r) ==
  /\ readAt[r] = "response"
  /\ reply[r].status = 404 \/ (reply[r].status = 304 /\ cached[r] = Nothing)
  /\ Finish(r, reply[r])
  /\ UNCHANGED <<resource, etagEntry, current>>

ResourceChanges ==
  /\ resource' \in (Bodies \cup {Nothing}) \ {resource}
  /\ current' = [r \in Reads |-> current[r] \cup {resource'}]
  /\ UNCHANGED <<etagEntry, readAt, cached, ifNoneMatch, reply, attempts>>

ReadInit ==
  /\ resource \in Bodies
  /\ etagEntry = Nothing
  /\ readAt = [r \in Reads |-> "idle"]
  /\ cached = [r \in Reads |-> Nothing]
  /\ ifNoneMatch = [r \in Reads |-> Nothing]
  /\ reply = [r \in Reads |-> Nothing]
  /\ attempts = [r \in Reads |-> 0]
  /\ current = [r \in Reads |-> {}]

ReadNext ==
  \/ \E r \in Reads :
       \/ ReadBegins(r) \/ LookUp(r) \/ GithubAnswers(r) \/ GithubFails(r)
       \/ StoreResponse(r) \/ ServeCached(r) \/ Rethrow(r)
  \/ ResourceChanges

ReadSpec == ReadInit /\ [][ReadNext]_readVars
-----------------------------------------------------------------------------
(* The body a caller gets was the resource at some time since its request  *)
(* began: it never gets one that had been replaced before, though slower   *)
(* requests may store older entries meanwhile (etag-cache.ts:110-165).     *)
ReadsAreFresh ==
  \A r \in Reads : readAt[r] = "done" /\ reply[r].status = 200 => reply[r].body \in current[r]
=============================================================================
