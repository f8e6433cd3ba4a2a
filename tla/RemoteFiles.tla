---------------------------- MODULE RemoteFiles ----------------------------
(* The SFTP file operations of one server: SFTPService.withClient reserves the
   server and supervises one worker; the worker runs the body of an operation,
   one SFTP call per step, against one destination path and the private temporary
   files beside it.  The owner of the host changes the destination at any time,
   and the connection may break before or after any call took effect.

   A file is named by the temporary file it was written as (hard links and
   renames keep the file), Owner names a file that Talus did not write.  A digest
   is modelled by the bytes it is of; the size, mode and modification time of a
   file by its length and a stamp that two versions may share: the owner's versions
   have any stamp, and those that Talus writes all have the same.  Requests that
   readUpload or validateUploadRoute refuse change nothing and are not steps. *)
EXTENDS Naturals, Sequences, FiniteSets

CONSTANTS Uploads,    \* resumable uploads, each with its own temporary name
          Writes,     \* one-request writes: Upload and SaveText
          Workers,    \* numbers of the requests that can be under way in the Hub
          Owner,      \* the file the host's owner keeps at the destination
          None,
          Lost,       \* the client never learnt the token
          Size,       \* units in a resumable upload
          MaxOwner    \* bound: changes made by the owner

ASSUME NamesDiffer == /\ Uploads \cap Writes = {}
                      /\ Owner \notin Uploads \cup Writes
                      /\ None \notin Uploads \cup Writes \cup {Owner, 1, 2}
ASSUME SizeNat == Size \in Nat

VARIABLES dst,        \* the file at the destination, or None
          there,      \* the temporary names that exist
          data,       \* the bytes and stamp of every file
          ticket,     \* what the client holds of each resumable upload
          busy,       \* SFTPService.busy of the server
          work,       \* the workers of withSFTPClient
          caller,     \* their supervisors
          changes     \* changes made by the owner so far

files == <<dst, there, data>>
vars == <<dst, there, data, ticket, busy, work, caller, changes>>

Temps == Uploads \cup Writes
Stamps == {1, 2}
Aspects == {"stamp", "bytes"}   \* what of a file is compared: the attributes, the content
Want(t) == IF t \in Uploads THEN [i \in 1 .. Size |-> t] ELSE <<t>>
OwnerTexts == {<<Owner>>, <<"other">>}
Texts == OwnerTexts \cup {Want(t) : t \in Temps}
Empty == [bytes |-> <<>>, stamp |-> 1]
Nothing == [bytes |-> None, stamp |-> None]      \* there is no file

Idle == [op |-> "none", temp |-> None, pc |-> "idle", prev |-> Nothing,
         off |-> 0, units |-> 0, raced |-> {}]
Outcomes == {"ok", "exists", "conflict", "gone", "mismatch", "error"}
Named(d, kept, f) == f = d \/ f \in kept   \* a file without a name is gone
Version == IF dst = None THEN Nothing ELSE data[dst]

Init ==
  /\ dst \in {None, Owner}
  /\ there = {}
  /\ data = [f \in Temps \cup {Owner} |-> IF f = Owner THEN [bytes |-> <<Owner>>, stamp |-> 1]
                                          ELSE Empty]
  /\ ticket = [u \in Uploads |-> None]
  /\ busy = FALSE
  /\ work = [w \in Workers |-> Idle]
  /\ caller = [w \in Workers |-> "none"]
  /\ changes = 0

----------------------------------------------------------------------------
(* withClient and withSFTPClient: the supervisor *)

Begin(w, op) ==
  /\ ~busy
  /\ w = CHOOSE v \in Workers : /\ work[v] = Idle
                               /\ \A x \in Workers : work[x] = Idle => v <= x
  /\ busy' = TRUE
  /\ caller' = [caller EXCEPT ![w] = "running"]
  /\ work' = [work EXCEPT ![w] = op]
  /\ UNCHANGED <<files, ticket, changes>>

(* The supervisor stops waiting: the worker sent its result, or the request was
   cancelled and is told an error whatever the worker still does.  The client
   of StartUpload learns its token only from a result. *)
Leave(w) ==
  /\ caller[w] = "running"
  /\ caller' = [caller EXCEPT ![w] = "leaving"]
  /\ \/ /\ work[w].pc \in Outcomes
        /\ ticket' = IF work[w].op = "start" /\ work[w].pc = "ok"
                       THEN [ticket EXCEPT ![work[w].temp] = [prev |-> work[w].prev]]
                       ELSE ticket
     \/ ticket' = IF work[w].op = "start"
                    THEN [ticket EXCEPT ![work[w].temp] = Lost] ELSE ticket
  /\ UNCHANGED <<files, busy, work, changes>>

(* The worker joined (closeSSHSessionContext closed the session, and the
   transport when that was not enough), the lease settled: only then is the
   reservation given back, by the request or by the goroutine it left behind. *)
JoinedEarly(w) == TRUE
Joined(w) == work[w].pc \in Outcomes
SettleKeeps(w) ==
  /\ caller[w] = "leaving" /\ Joined(w)
  /\ busy' = (work[w].pc = "error")
  /\ caller' = [caller EXCEPT ![w] = "none"]
  /\ work' = [work EXCEPT ![w] = Idle]
  /\ UNCHANGED <<files, ticket, changes>>
Settle(w) ==
  /\ caller[w] = "leaving" /\ Joined(w)
  /\ busy' = FALSE
  /\ caller' = [caller EXCEPT ![w] = "none"]
  /\ work' = [work EXCEPT ![w] = IF @.pc \in Outcomes THEN Idle ELSE @]
  /\ data' = [f \in DOMAIN data |-> IF Named(dst, there, f) THEN data[f] ELSE Empty]
  /\ UNCHANGED <<dst, there, ticket, changes>>

(* Where a worker goes after a call. *)
Ended(c, outcome) ==
  [Idle EXCEPT !.op = c.op, !.temp = c.temp, !.pc = outcome,
               !.prev = IF c.op = "start" THEN c.prev ELSE Nothing]
To(w, pc) ==
  work' = [work EXCEPT ![w] = IF pc \in Outcomes THEN Ended(@, pc) ELSE [@ EXCEPT !.pc = pc]]
At(w, op, pc) == work[w].op = op /\ work[w].pc = pc
Only(w) == UNCHANGED <<ticket, busy, caller, changes>>

(* A call fails: the connection broke, or the forced close reached it. *)
Break(w) ==
  /\ work[w].pc \notin Outcomes \cup {"idle"}
  /\ To(w, "error")
  /\ UNCHANGED files /\ Only(w)

(* The call took effect on the host; its reply may still be lost. *)
Replied(w, pc) == To(w, pc) \/ To(w, "error")

----------------------------------------------------------------------------
(* pendingDestination of StartUpload, SaveText and Upload: the destination is
   absent, or it may be overwritten and its attributes are remembered. *)
Compares == [start |-> "digest", save |-> "text", put |-> "temp"]
PendingDestination(w, overwrite) ==
  /\ work[w].pc = "pending" /\ work[w].op \in {"start", "save", "put"}
  /\ IF dst = None
       THEN To(w, IF work[w].op = "save" THEN "conflict" ELSE "temp")
     ELSE IF ~overwrite THEN To(w, "exists")
     ELSE work' = [work EXCEPT ![w].prev.stamp = Version.stamp, ![w].pc = Compares[work[w].op]]
  /\ UNCHANGED files /\ Only(w)

(* StartUpload: the digest of the file to replace, then the temporary file. *)
HashPrevious(w) ==
  /\ At(w, "start", "digest")
  /\ IF dst = None THEN To(w, "gone")
     ELSE work' = [work EXCEPT ![w].prev.bytes = Version.bytes, ![w].pc = "temp"]
  /\ UNCHANGED files /\ Only(w)

CreateTemporary(w) ==
  /\ At(w, "start", "temp")
  /\ \/ /\ there' = there \cup {work[w].temp}
        /\ data' = [data EXCEPT ![work[w].temp] = Empty]
        /\ Replied(w, "ok")
     \/ there' = there /\ data' = data /\ To(w, "error")
  /\ UNCHANGED dst /\ Only(w)

(* UploadChunk: the offset is the size of the temporary file; a body that is
   shorter or longer than announced leaves what arrived, with an error. *)
ChunkFitsLoose(u, off, units) == units > 0
ChunkFits(u, off, units) == units > 0 /\ off + units <= Size
CheckOffset(w) ==
  /\ At(w, "chunk", "offset")
  /\ To(w, IF work[w].temp \notin there THEN "gone"
           ELSE IF Len(data[work[w].temp].bytes) # work[w].off THEN "conflict"
           ELSE "write")
  /\ UNCHANGED files /\ Only(w)

WriteChunk(w) ==
  LET u == work[w].temp
  IN /\ At(w, "chunk", "write")
     /\ IF u \notin there THEN To(w, "gone") /\ UNCHANGED files
        ELSE \E n \in 0 .. work[w].units + 1, unit \in {u, "bad"} :
               /\ data' = [data EXCEPT ![u].bytes =
                             SubSeq(@, 1, work[w].off) \o [i \in 1 .. n |-> unit]]
               /\ Replied(w, IF n = work[w].units THEN "ok" ELSE "mismatch")
               /\ UNCHANGED <<dst, there>>
     /\ Only(w)

(* completedUploadMatches *)
CompletedUploadMatches(u) == dst # None /\ data[dst].bytes = Want(u)

(* UploadStatus; it changes nothing *)
UploadStatus(w) ==
  /\ At(w, "status", "look")
  /\ To(w, IF work[w].temp \in there
             THEN IF Len(data[work[w].temp].bytes) > Size THEN "conflict" ELSE "ok"
             ELSE IF CompletedUploadMatches(work[w].temp) THEN "ok" ELSE "gone")
  /\ UNCHANGED files /\ Only(w)

(* CompleteUpload: size and digest of the temporary file *)
VerifyUpload(w) ==
  LET u == work[w].temp
  IN /\ At(w, "complete", "verify")
     /\ To(w, IF u \notin there
                THEN IF CompletedUploadMatches(u) THEN "ok" ELSE "gone"
              ELSE IF data[u].bytes # Want(u) THEN "mismatch"
              ELSE IF work[w].prev = Nothing THEN "commit" ELSE "unchanged")
     /\ UNCHANGED files /\ Only(w)

(* CompleteUpload: the attributes and the digest of the file to replace *)
SameVersion(prev) == Version = prev
CheckUnchanged(w) ==
  /\ At(w, "complete", "unchanged")
  /\ IF SameVersion(work[w].prev)
       THEN work' = [work EXCEPT ![w].raced = {}, ![w].pc = "replace"]
       ELSE To(w, "conflict")
  /\ UNCHANGED files /\ Only(w)

(* CancelUpload *)
CancelUpload(w) ==
  /\ At(w, "cancel", "remove")
  /\ there' = there \ {work[w].temp}
  /\ Replied(w, "ok")
  /\ UNCHANGED <<dst, data>> /\ Only(w)

----------------------------------------------------------------------------
(* Upload and SaveText write the whole temporary file in one request, and
   remove it, when the host can still be reached, if they do not commit. *)
Abort(w, outcome) ==
  /\ there' = there \ {work[w].temp}
  /\ To(w, outcome)
  /\ UNCHANGED <<dst, data>>

(* SaveText: remoteText is the version the editor was opened with *)
ReadText(w) ==
  /\ At(w, "save", "text")
  /\ To(w, IF Version.bytes = work[w].prev.bytes THEN "temp" ELSE "conflict")
  /\ UNCHANGED files /\ Only(w)

WriteTemporary(w) ==
  LET t == work[w].temp
  IN /\ work[w].op \in {"save", "put"} /\ work[w].pc = "temp"
     /\ \/ /\ there' = there \cup {t}
           /\ data' = [data EXCEPT ![t] = [bytes |-> Want(t), stamp |-> 1]]
           /\ To(w, IF work[w].op = "save" THEN "again" ELSE "commit")
           /\ UNCHANGED dst
        \/ Abort(w, "mismatch")
        \/ there' = there \cup {t} /\ To(w, "error") /\ UNCHANGED <<dst, data>>
     /\ Only(w)

ReadTextAgain(w) ==
  /\ At(w, "save", "again")
  /\ IF Version.bytes = work[w].prev.bytes
       THEN /\ work' = [work EXCEPT ![w].raced = @ \ {"bytes"}, ![w].pc = "commit"]
            /\ UNCHANGED files
       ELSE Abort(w, "conflict")
  /\ Only(w)

(* sameRemoteFile: size, mode and modification time *)
AnyAttributes(w) == dst # None
SameAttributes(w) == dst # None /\ Version.stamp = work[w].prev.stamp

(* The attributes have just been compared. *)
Looked(w, pc) == work' = [work EXCEPT ![w].raced = @ \ {"stamp"}, ![w].pc = pc]

(* commitRemoteFile, and the same decisions in CompleteUpload: Lstat *)
Discards(w, outcome) ==
  IF work[w].op = "complete" THEN To(w, outcome) /\ UNCHANGED files ELSE Abort(w, outcome)
CheckDestination(w) ==
  /\ work[w].pc = "commit"
  /\ IF work[w].prev.stamp = None
       THEN IF dst = None THEN To(w, "publish") /\ UNCHANGED files
            ELSE Discards(w, "exists")
     ELSE IF SameAttributes(w) THEN Looked(w, "replace") /\ UNCHANGED files
     ELSE Discards(w, "conflict")
  /\ Only(w)

(* A hard link cannot replace a file that appeared meanwhile; without the
   extension the rename must refuse it. *)
MayPublish == dst = None
Link(w) ==
  /\ work[w].pc = "publish"
  /\ IF MayPublish /\ work[w].temp \in there
       THEN dst' = work[w].temp /\ Replied(w, "unlink") /\ UNCHANGED <<there, data>>
       ELSE Discards(w, "exists")
  /\ Only(w)
Unlink(w) ==
  /\ work[w].pc = "unlink"
  /\ there' \in {there, there \ {work[w].temp}}
  /\ Replied(w, "ok")
  /\ UNCHANGED <<dst, data>> /\ Only(w)
Rename(w) ==
  /\ work[w].pc = "publish"
  /\ MayPublish /\ work[w].temp \in there
  /\ dst' = work[w].temp /\ there' = there \ {work[w].temp}
  /\ Replied(w, "ok")
  /\ UNCHANGED data /\ Only(w)
PosixRename(w) ==
  /\ work[w].pc = "replace"
  /\ IF work[w].temp \in there
       THEN /\ dst' = work[w].temp /\ there' = there \ {work[w].temp}
            /\ Replied(w, "ok") /\ UNCHANGED data
       ELSE To(w, "error") /\ UNCHANGED files
  /\ Only(w)

(* Remove of the destination: Lstat, then the removal *)
Remove(w) ==
  /\ work[w].op = "remove"
  /\ \/ work[w].pc = "look" /\ To(w, IF dst = None THEN "gone" ELSE "remove") /\ UNCHANGED files
     \/ work[w].pc = "remove" /\ dst' = None /\ Replied(w, "ok") /\ UNCHANGED <<there, data>>
  /\ Only(w)

(* Rename of the destination to another path, or of another file to the destination:
   Lstat of the target, then a rename that replaces nothing. *)
Move(w) ==
  /\ \/ /\ At(w, "away", "look")
        /\ To(w, "move") \/ To(w, "exists")
        /\ UNCHANGED files
     \/ /\ At(w, "hither", "look")
        /\ To(w, IF dst = None THEN "move" ELSE "exists")
        /\ UNCHANGED files
     \/ /\ At(w, "away", "move")
        /\ IF dst = None THEN To(w, "gone") /\ UNCHANGED files
           ELSE dst' = None /\ Replied(w, "ok") /\ UNCHANGED <<there, data>>
     \/ /\ At(w, "hither", "move")
        /\ IF dst # None THEN To(w, "exists") /\ UNCHANGED files
           ELSE /\ dst' = Owner /\ Replied(w, "ok")
                /\ data' = [data EXCEPT ![Owner] = [bytes |-> <<"other">>, stamp |-> 2]]
                /\ UNCHANGED there
  /\ Only(w)

(* List and Stat read once. *)
List(w) == At(w, "list", "look") /\ To(w, "ok") /\ UNCHANGED files /\ Only(w)

(* DownloadRange and Archive remember the attributes of the file ... *)
Remember(w, pc) ==
  /\ work[w].pc = "look"
  /\ IF dst = None THEN To(w, "gone")
     ELSE work' = [work EXCEPT ![w].prev.stamp = Version.stamp, ![w].pc = pc]
  /\ UNCHANGED files /\ Only(w)
Inspect(w) == work[w].op = "download" /\ Remember(w, "etag")
Scan(w) == work[w].op = "archive" /\ Remember(w, "entry")

(* ... a download also the digest, which becomes the ETag of the answer ... *)
HashDownload(w) ==
  /\ At(w, "download", "etag")
  /\ IF dst = None THEN To(w, "gone")
     ELSE work' = [work EXCEPT ![w].prev.bytes = Version.bytes, ![w].raced = @ \ {"bytes"},
                               ![w].pc = "open"]
  /\ UNCHANGED files /\ Only(w)

(* ... compare the opened file with them, and an archive looks again before and after
   each file it copies. *)
Following == [entry |-> "open", open |-> "copy"]
Compare(w) ==
  /\ work[w].pc \in {"entry", "open", "after"}
  /\ IF ~SameAttributes(w) THEN To(w, "conflict")
     ELSE IF work[w].pc = "after" THEN To(w, "ok")
     ELSE Looked(w, Following[work[w].pc])
  /\ UNCHANGED files /\ Only(w)

(* The copy is as long as the attributes say, unless the file was cut meanwhile. *)
Copy(w) ==
  /\ work[w].pc = "copy"
  /\ \/ To(w, IF work[w].op = "download" THEN "ok" ELSE "after")
     \/ "stamp" \in work[w].raced /\ To(w, "conflict")
  /\ UNCHANGED files /\ Only(w)

----------------------------------------------------------------------------
(* The host's owner edits, replaces or deletes the file; an edit may keep the
   size and fall into the same second. *)
OwnerChanges ==
  /\ changes < MaxOwner /\ changes' = changes + 1
  /\ \/ dst' = None /\ UNCHANGED data
     \/ /\ dst' = Owner
        /\ \E text \in OwnerTexts, s \in Stamps :
             data' = [data EXCEPT ![Owner] = [bytes |-> text, stamp |-> s]]
  /\ work' = [w \in Workers |->
                [work[w] EXCEPT !.raced = IF work[w].pc \in Outcomes \cup {"idle"} THEN {}
                                          ELSE Aspects]]
  /\ UNCHANGED <<there, ticket, busy, caller>>

(* The requests a client makes, with the tickets it was given *)
Issued(u) == ticket[u] \notin {None, Lost}
Request(op, temp, pc) == [Idle EXCEPT !.op = op, !.temp = temp, !.pc = pc]
ChunkRequests ==
  {[Request("chunk", c[1], "offset") EXCEPT !.off = c[2], !.units = c[3]] :
     c \in {x \in Uploads \X (0 .. Size) \X (1 .. Size) :
              Issued(x[1]) /\ ChunkFits(x[1], x[2], x[3])}}
UploadRequests ==
  {Request("start", u, "pending") : u \in {v \in Uploads : ticket[v] = None}} \cup
  ChunkRequests \cup
  {[Request("complete", u, "verify") EXCEPT !.prev = ticket[u].prev] :
     u \in {v \in Uploads : Issued(v)}} \cup
  {Request("status", u, "look") : u \in {v \in Uploads : Issued(v)}} \cup
  {Request("cancel", u, "remove") : u \in {v \in Uploads : Issued(v)}}
WriteRequests ==
  {[Request("save", t, "pending") EXCEPT !.prev.bytes = text] :
     t \in Writes \ (there \cup {dst}), text \in Texts} \cup
  {Request("put", t, "pending") : t \in Writes \ (there \cup {dst})}
PathRequests == {Request(op, None, "look") : op \in {"remove", "away", "hither", "list"}}
StreamRequests == {Request(op, None, "look") : op \in {"download", "archive"}}
Requests == UploadRequests \cup WriteRequests \cup PathRequests \cup StreamRequests

WorkerStep(w) ==
  \/ PendingDestination(w, TRUE) \/ (work[w].op # "save" /\ PendingDestination(w, FALSE))
  \/ HashPrevious(w) \/ CreateTemporary(w)
  \/ CheckOffset(w) \/ WriteChunk(w) \/ UploadStatus(w) \/ VerifyUpload(w)
  \/ CheckUnchanged(w) \/ CancelUpload(w)
  \/ ReadText(w) \/ WriteTemporary(w) \/ ReadTextAgain(w) \/ CheckDestination(w)
  \/ Link(w) \/ Unlink(w) \/ Rename(w) \/ PosixRename(w) \/ Remove(w) \/ Move(w)
  \/ List(w) \/ Inspect(w) \/ Scan(w) \/ HashDownload(w) \/ Compare(w) \/ Copy(w) \/ Break(w)

Next ==
  \/ \E w \in Workers : \/ \E op \in Requests : Begin(w, op)
                        \/ WorkerStep(w) \/ Leave(w) \/ Settle(w)
  \/ OwnerChanges

(* A worker's calls return, for the supervisor closes the transport of one that
   does not; timers and the scheduler run the supervisor.  Nothing more is assumed
   than that one of them goes on as long as one of them can. *)
Fairness == WF_vars(\E w \in Workers : WorkerStep(w) \/ Leave(w) \/ Settle(w))
Spec == Init /\ [][Next]_vars /\ Fairness

----------------------------------------------------------------------------
(* "One active SFTP file API operation per server": the server is reserved
   exactly while some worker may still make a call on it, also after the request
   that started the worker was answered. *)
Reservation ==
  /\ dst \in Temps \cup {Owner, None} /\ there \subseteq Temps
  /\ Cardinality({w \in Workers : work[w].pc # "idle"}) = IF busy THEN 1 ELSE 0

(* A file published by Talus holds the whole of what the client announced, and
   nothing is ever written into it afterwards, although the temporary name may
   remain as a second name of it. *)
PublishedWhole == dst \in Temps => data[dst].bytes = Want(dst)

(* The destination is the version the worker compares it with (a plain upload has
   attributes only), except in what the host's owner changed after the worker's last
   comparison of just that. *)
Saw(c) ==
  /\ "stamp" \in c.raced \/ Version.stamp = c.prev.stamp
  /\ c.op = "put" \/ "bytes" \in c.raced \/ Version.bytes = c.prev.bytes

(* An operation replaces a file only if it is the version that the client saw
   when it started (digest for uploads and text, attributes for a plain upload),
   unless the host's owner changed it after the last check of that: no other request
   of the Hub comes in between, and a new file never replaces anything.  A download
   delivers the version that its ETag names, with the attributes it had at the first
   look, under the same exception. *)
ReplacesOnlyWhatItSaw ==
  [][/\ \A t \in Temps : dst \notin {None, t} /\ dst' = t =>
          \E w \in Workers : LET c == work[w] IN c.temp = t /\ c.prev.stamp # None /\ Saw(c)
     /\ \A w \in Workers :
          At(w, "download", "copy") /\ work'[w].pc = "ok" => Saw(work[w])]_vars

(* Every reservation is given back: no cancellation, lost reply or broken
   connection leaves the server's files locked. *)
ReservationReturned == []<>~busy
============================================================================
