-------------------------- MODULE RemoteFilesProofs --------------------------
(* Proofs about RemoteFiles for any uploads, one-request writes and workers, and for
   any size of an upload. *)
EXTENDS RemoteFiles, FiniteSetTheorems, TLAPS

Units == Temps \cup {Owner, "other", "bad"}
File == [bytes : Seq(Units), stamp : Stamps]
Seen == [bytes : Seq(Units) \cup {None}, stamp : Stamps \cup {None}]
Ops == {"none", "start", "chunk", "complete", "status", "cancel", "save", "put", "remove",
        "away", "hither", "list", "download", "archive"}
PCs == Outcomes \cup {"idle", "pending", "digest", "temp", "offset", "write", "look", "verify",
                      "unchanged", "commit", "remove", "text", "again", "publish", "unlink",
                      "replace", "move", "etag", "entry", "open", "copy", "after"}
Work == [op : Ops, temp : Temps \cup {None}, pc : PCs, prev : Seen,
         off : Nat, units : Nat, raced : SUBSET Aspects]

Typed ==
  /\ dst \in Temps \cup {Owner, None} /\ there \subseteq Temps
  /\ data \in [Temps \cup {Owner} -> File]
  /\ ticket \in [Uploads -> {None, Lost} \cup [prev : Seen]]
  /\ busy \in BOOLEAN
  /\ work \in [Workers -> Work]
  /\ caller \in [Workers -> {"none", "running", "leaving"}]

(* The server is reserved while a worker is under way, and never for two. *)
Exclusive ==
  /\ \A v, w \in Workers : work[v].pc # "idle" /\ work[w].pc # "idle" => v = w
  /\ busy <=> \E w \in Workers : work[w].pc # "idle"

(* Only an upload whose client holds the ticket can have been published. *)
PublishedIssued == \A u \in Uploads : ticket[u] \in {None, Lost} => dst # u

TicketOps == {"chunk", "complete", "status", "cancel"}

(* What a worker may touch, wherever it is: the temporary file of its request.  The
   client does not hold the ticket of an upload that is being started. *)
Bound(w) ==
  LET c == work[w]
  IN /\ c.op \in TicketOps \cup {"start"} => c.temp \in Uploads
     /\ c.op \in {"save", "put"} => c.temp \in Writes
     /\ c.op \in TicketOps => Issued(c.temp)
     /\ c.op = "start" /\ c.pc \notin Outcomes => ticket[c.temp] \in {None, Lost}
     /\ c.op = "start" /\ caller[w] = "running" => ticket[c.temp] = None

(* The places between the verification of a temporary file and its publication *)
Verified == {"unchanged", "again", "commit", "publish", "replace"}

(* What a worker has established at the place where it is: a chunk does not go into a
   published file, a verified file stays as it is, and the destination is the one
   that was compared unless its owner changed it since. *)
Established(w) ==
  LET c == work[w]
  IN /\ c.pc = "idle" => c = Idle
     /\ At(w, "chunk", "offset") => ChunkFits(c.temp, c.off, c.units)
     /\ At(w, "chunk", "write") => dst # c.temp /\ c.off = Len(data[c.temp].bytes)
     /\ c.pc \in Verified =>
          c.op \in {"complete", "save", "put"} /\ data[c.temp].bytes = Want(c.temp)
     /\ c.pc = "unchanged" => c.op = "complete" /\ c.prev # Nothing
     /\ At(w, "complete", "commit") => c.prev.stamp = None
     /\ At(w, "save", "commit") => "bytes" \in c.raced \/ Version.bytes = c.prev.bytes
     /\ c.pc = "replace" => c.prev.stamp # None /\ Saw(c)
     /\ c.pc = "entry" => c.op = "archive"
     /\ At(w, "download", "open") => "bytes" \in c.raced \/ Version.bytes = c.prev.bytes
     /\ At(w, "download", "copy") => Saw(c)

(* The inductive strengthening of Reservation, PublishedWhole and of what
   ReplacesOnlyWhatItSaw says of a step *)
FilesInv ==
  /\ Typed /\ Exclusive /\ PublishedWhole /\ PublishedIssued
  /\ \A w \in Workers : Bound(w) /\ Established(w)

----------------------------------------------------------------------------
(* A step takes worker w to pc, for the same request. *)
Turned(w, pc) ==
  /\ work' \in [Workers -> Work]
  /\ \A v \in Workers \ {w} : work'[v] = work[v]
  /\ work'[w].pc = pc /\ work'[w].op = work[w].op /\ work'[w].temp = work[w].temp

(* ... and what it remembers is the same. *)
Remembers(w) ==
  /\ work'[w].prev = work[w].prev /\ work'[w].raced = work[w].raced
  /\ work'[w].off = work[w].off /\ work'[w].units = work[w].units

(* The places for which nothing has to be established *)
Plain == PCs \ (Verified \cup {"idle", "offset", "write", "entry", "open", "copy"})

(* The outcomes are such places. *)
LEMMA OutcomesPlain == Outcomes \subseteq Plain
BY DEF Outcomes, Plain, Verified, PCs

(* A request that is not there has the type of one. *)
LEMMA IdleWork == Idle \in Work
<1>1. Nothing \in Seen /\ {} \in SUBSET Aspects
  BY DEF Nothing, Seen
<1> QED BY <1>1 DEF Idle, Work, Ops, PCs

(* To: a worker that goes on keeps what it remembers, one that ends keeps its request. *)
LEMMA ToTurns ==
  ASSUME work \in [Workers -> Work], NEW w \in Workers, NEW pc \in PCs, To(w, pc)
  PROVE  Turned(w, pc) /\ (pc \notin Outcomes => Remembers(w))
<1> DEFINE c == work[w]
           d == work'[w]
<1>1. /\ c \in Work /\ d = IF pc \in Outcomes THEN Ended(c, pc) ELSE [c EXCEPT !.pc = pc]
      /\ \A v \in Workers \ {w} : work'[v] = work[v]
      /\ work' = [v \in Workers |-> work'[v]]
  BY Zenon DEF To
<1> HIDE DEF c, d
<1>2. CASE pc \notin Outcomes
  <2>1. d = [c EXCEPT !.pc = pc]
    BY <1>1, <1>2
  <2>2. /\ d \in Work /\ d.pc = pc /\ d.op = c.op /\ d.temp = c.temp /\ d.prev = c.prev
        /\ d.raced = c.raced /\ d.off = c.off /\ d.units = c.units
    BY <1>1, <2>1 DEF Work
  <2>3. work' \in [Workers -> Work]
    BY Zenon, <1>1, <2>2 DEF d
  <2> QED BY Zenon, <1>1, <2>2, <2>3 DEF Turned, Remembers, c, d
<1>3. CASE pc \in Outcomes
  <2>1. d = Ended(c, pc)
    BY <1>1, <1>3
  <2>2. Nothing \in Seen /\ c.prev \in Seen
    BY <1>1 DEF Nothing, Seen, Work
  <2> DEFINE prev == IF c.op = "start" THEN c.prev ELSE Nothing
  <2>3. prev \in Seen
    BY <2>2
  <2>4. d = [Idle EXCEPT !.op = c.op, !.temp = c.temp, !.pc = pc, !.prev = prev]
    BY <2>1 DEF Ended
  <2> HIDE DEF prev
  <2>5. d \in Work /\ d.pc = pc /\ d.op = c.op /\ d.temp = c.temp
    BY Zenon, <1>1, <2>3, <2>4, IdleWork DEF Work
  <2>6. work' \in [Workers -> Work]
    BY Zenon, <1>1, <2>5 DEF d
  <2> QED BY Zenon, <1>1, <1>3, <2>5, <2>6 DEF Turned, c, d
<1> QED BY <1>2, <1>3

(* Nothing has to be established for a worker that does not exist. *)
LEMMA IdleSound ==
  ASSUME NEW v \in Workers, work'[v] = Idle
  PROVE  Bound(v)' /\ Established(v)'
<1>1. work'[v].pc = "idle" /\ work'[v].op = "none"
  BY DEF Idle
<1>2. Bound(v)'
  BY <1>1 DEF Bound, TicketOps
<1>3. Established(v)'
  BY <1>1 DEF Established, At, Verified
<1> QED BY <1>2, <1>3

(* The request stays within its bounds. *)
LEMMA BoundKept ==
  ASSUME NEW w \in Workers, Bound(w), work[w].pc \notin Outcomes, NEW pc, Turned(w, pc), Only(w)
  PROVE  Bound(w)'
BY DEF Bound, Turned, Only, Issued

(* A step of a worker that is under way keeps the invariant if the files are sound
   after it and the worker has established what its next place asks. *)
LEMMA WorkerTurns ==
  ASSUME FilesInv, NEW w \in Workers, work[w].pc \notin Outcomes \cup {"idle"},
         NEW pc \in PCs \ {"idle"}, Turned(w, pc), Only(w), Established(w)',
         dst' \in Temps \cup {Owner, None}, there' \subseteq Temps,
         data' \in [Temps \cup {Owner} -> File], PublishedWhole', PublishedIssued'
  PROVE  FilesInv'
<1>1. Typed'
  BY DEF FilesInv, Typed, Only, Turned
<1>2. \A v \in Workers \ {w} : work[v] = Idle /\ work'[v] = Idle
  BY DEF FilesInv, Exclusive, Established, Turned
<1>3. Exclusive'
  <2>1. /\ work'[w].pc # "idle" /\ \A v \in Workers \ {w} : work'[v].pc = "idle"
        /\ busy /\ busy' = busy
    BY <1>2 DEF FilesInv, Exclusive, Turned, Only, Idle
  <2> QED BY <2>1 DEF Exclusive
<1>4. Bound(w)'
  BY BoundKept DEF FilesInv
<1>5. ASSUME NEW v \in Workers \ {w} PROVE Bound(v)' /\ Established(v)'
  BY <1>2, IdleSound
<1> QED BY <1>1, <1>3, <1>4, <1>5 DEF FilesInv

(* A step that leaves the files alone *)
LEMMA QuietTurns ==
  ASSUME FilesInv, NEW w \in Workers, work[w].pc \notin Outcomes \cup {"idle"},
         NEW pc \in PCs \ {"idle"}, Turned(w, pc), Only(w), UNCHANGED files, Established(w)'
  PROVE  FilesInv'
<1>1. /\ dst' \in Temps \cup {Owner, None} /\ there' \subseteq Temps
      /\ data' \in [Temps \cup {Owner} -> File]
  BY DEF FilesInv, Typed, files
<1>2. PublishedWhole' /\ PublishedIssued'
  BY DEF FilesInv, PublishedWhole, PublishedIssued, files, Only
<1> QED BY <1>1, <1>2, WorkerTurns

(* At most places nothing has to be established. *)
LEMMA PlainEstablished ==
  ASSUME NEW w \in Workers, NEW pc \in Plain, Turned(w, pc)
  PROVE  Established(w)'
BY DEF Established, Turned, Plain, Verified, At

(* A step to such a place, with the files left alone *)
LEMMA PlainQuiet ==
  ASSUME FilesInv, NEW w \in Workers, work[w].pc \notin Outcomes \cup {"idle"},
         NEW pc \in Plain, Turned(w, pc), Only(w), UNCHANGED files
  PROVE  FilesInv'
<1>1. pc \in PCs \ {"idle"}
  BY DEF Plain
<1> QED BY <1>1, PlainEstablished, QuietTurns

(* A step to such a place by a call that took effect on the host *)
LEMMA PlainEffect ==
  ASSUME FilesInv, NEW w \in Workers, work[w].pc \notin Outcomes \cup {"idle"},
         NEW pc \in Plain, To(w, pc), Only(w),
         dst' \in Temps \cup {Owner, None}, there' \subseteq Temps,
         data' \in [Temps \cup {Owner} -> File], PublishedWhole', PublishedIssued'
  PROVE  FilesInv'
<1>1. pc \in PCs \ {"idle"} /\ work \in [Workers -> Work]
  BY DEF Plain, FilesInv, Typed
<1>2. Turned(w, pc)
  BY <1>1, ToTurns
<1> QED BY <1>1, <1>2, PlainEstablished, WorkerTurns

(* The same as a goto *)
LEMMA PlainTo ==
  ASSUME FilesInv, NEW w \in Workers, work[w].pc \notin Outcomes \cup {"idle"},
         NEW pc \in Plain, To(w, pc), Only(w), UNCHANGED files
  PROVE  FilesInv'
<1>1. pc \in PCs /\ work \in [Workers -> Work]
  BY DEF Plain, FilesInv, Typed
<1> QED BY <1>1, ToTurns, PlainQuiet

(* The fields of a worker that has compared or remembered the destination *)
LEMMA Compared ==
  ASSUME work \in [Workers -> Work], NEW w \in Workers, NEW pc \in PCs, NEW prev \in Seen,
         NEW raced \in SUBSET Aspects,
         work' = [work EXCEPT ![w] = [work[w] EXCEPT !.prev = prev, !.raced = raced, !.pc = pc]]
  PROVE  Turned(w, pc) /\ work'[w].prev = prev /\ work'[w].raced = raced
<1> DEFINE c == work[w]
           d == work'[w]
<1>1. /\ c \in Work /\ d = [c EXCEPT !.prev = prev, !.raced = raced, !.pc = pc]
      /\ \A v \in Workers \ {w} : work'[v] = work[v]
      /\ work' = [v \in Workers |-> work'[v]]
  BY Zenon DEF c, d
<1> HIDE DEF c, d
<1>2. /\ d \in Work /\ d.pc = pc /\ d.op = c.op /\ d.temp = c.temp
      /\ d.prev = prev /\ d.raced = raced
  BY Zenon, <1>1 DEF Work
<1>3. work' \in [Workers -> Work]
  BY Zenon, <1>1, <1>2 DEF d
<1> QED BY Zenon, <1>1, <1>2, <1>3 DEF Turned, c, d

(* The attributes have been compared: whether they changed is open no longer. *)
LEMMA LookedTurns ==
  ASSUME work \in [Workers -> Work], NEW w \in Workers, NEW pc \in PCs, Looked(w, pc)
  PROVE  /\ Turned(w, pc) /\ work'[w].prev = work[w].prev
         /\ work'[w].raced = work[w].raced \ {"stamp"}
<1> DEFINE c == work[w]
           open == c.raced \ {"stamp"}
<1>1. c \in Work /\ c.prev \in Seen /\ c.raced \in SUBSET Aspects
  BY DEF Work
<1>2. open \in SUBSET Aspects
  BY <1>1
<1>3. work' = [work EXCEPT ![w] = [work[w] EXCEPT !.prev = c.prev, !.raced = open, !.pc = pc]]
  BY ZenonT(40), <1>1 DEF Looked, Work
<1> HIDE DEF open
<1>4. Turned(w, pc) /\ work'[w].prev = c.prev /\ work'[w].raced = open
  BY Zenon, <1>1, <1>2, <1>3, Compared
<1> QED BY <1>4 DEF open

(* The version at the destination *)
LEMMA VersionSeen ==
  ASSUME Typed
  PROVE  /\ Version \in Seen
         /\ dst # None => Version = data[dst] /\ Version.stamp \in Stamps /\ Version.stamp # None
         /\ dst = None => Version = Nothing
<1>1. None \notin Stamps
  BY NamesDiffer DEF Stamps
<1>2. CASE dst = None
  BY <1>2 DEF Version, Nothing, Seen
<1>3. CASE dst # None
  <2>1. Version = data[dst] /\ data[dst] \in File
    BY <1>3 DEF Version, Typed
  <2> QED BY <1>1, <1>3, <2>1 DEF File, Seen
<1> QED BY <1>2, <1>3

----------------------------------------------------------------------------
(* The calls that only look, and those that fail *)
LEMMA LookSteps ==
  ASSUME FilesInv, NEW w \in Workers,
         \/ Break(w) \/ CheckOffset(w) \/ UploadStatus(w) \/ VerifyUpload(w)
         \/ ReadText(w) \/ List(w) \/ Compare(w) \/ Copy(w)
  PROVE  FilesInv'
<1>0. /\ work \in [Workers -> Work] /\ Bound(w) /\ Established(w) /\ Typed
      /\ PublishedWhole
  BY DEF FilesInv, Typed
<1>p. /\ {"ok", "exists", "conflict", "gone", "mismatch", "error", "temp", "after"} \subseteq Plain
      /\ {"write", "commit", "unchanged", "open", "copy"} \subseteq PCs \ {"idle"}
      /\ {"write", "commit", "unchanged", "open", "copy"} \cap Outcomes = {}
  BY DEF Plain, PCs, Outcomes, Verified
<1>1. CASE Break(w)
  BY <1>1, <1>p, PlainTo DEF Break
<1>2. CASE CheckOffset(w)
  <2> DEFINE c == work[w]
  <2>1. /\ work[w].pc \notin Outcomes \cup {"idle"} /\ UNCHANGED files /\ Only(w)
        /\ c.op = "chunk" /\ c.pc = "offset"
    BY <1>2 DEF CheckOffset, At, Outcomes
  <2>2. CASE To(w, "gone") \/ To(w, "conflict")
    BY <1>p, <2>1, <2>2, PlainTo
  <2>3. CASE To(w, "write") /\ Len(data[c.temp].bytes) = c.off
    <3>1. Turned(w, "write") /\ Remembers(w)
      BY <1>0, <1>p, <2>3, ToTurns
    <3>2. /\ c.temp \in Uploads /\ c.off + c.units <= Size /\ c.units > 0
          /\ c.off \in Nat /\ c.units \in Nat
      BY <1>0, <2>1 DEF Bound, Established, At, ChunkFits, TicketOps, Work
    <3>3. Len(Want(c.temp)) = Size
      BY <3>2, SizeNat DEF Want
    <3>4. dst # c.temp
      BY <1>0, <2>3, <3>2, <3>3, SizeNat DEF PublishedWhole, Temps
    <3>5. Established(w)'
      BY <2>1, <2>3, <3>1, <3>4 DEF Established, Turned, Remembers, At, Verified, files
    <3> QED BY <1>p, <2>1, <3>1, <3>5, QuietTurns
  <2> QED BY <1>2, <2>2, <2>3 DEF CheckOffset
<1>3. CASE UploadStatus(w)
  <2>1. /\ work[w].pc \notin Outcomes \cup {"idle"} /\ UNCHANGED files /\ Only(w)
        /\ To(w, "conflict") \/ To(w, "ok") \/ To(w, "gone")
    BY <1>3 DEF UploadStatus, At, Outcomes
  <2> QED BY <1>p, <2>1, PlainTo
<1>4. CASE VerifyUpload(w)
  <2> DEFINE c == work[w]
  <2>1. /\ c.pc \notin Outcomes \cup {"idle"} /\ UNCHANGED files /\ Only(w)
        /\ c.op = "complete"
    BY <1>4 DEF VerifyUpload, At, Outcomes
  <2>2. CASE To(w, "ok") \/ To(w, "gone") \/ To(w, "mismatch")
    BY <1>p, <2>1, <2>2, PlainTo
  <2>3. CASE To(w, "commit") /\ data[c.temp].bytes = Want(c.temp) /\ c.prev = Nothing
    <3>1. Turned(w, "commit") /\ Remembers(w)
      BY <1>0, <1>p, <2>3, ToTurns
    <3>2. c.prev.stamp = None
      BY <2>3 DEF Nothing
    <3>3. Established(w)'
      BY <2>1, <2>3, <3>1, <3>2 DEF Established, Turned, Remembers, At, Verified, files
    <3> QED BY <1>p, <2>1, <3>1, <3>3, QuietTurns
  <2>4. CASE To(w, "unchanged") /\ data[c.temp].bytes = Want(c.temp) /\ c.prev # Nothing
    <3>1. Turned(w, "unchanged") /\ Remembers(w)
      BY <1>0, <1>p, <2>4, ToTurns
    <3>2. Established(w)'
      BY <2>1, <2>4, <3>1 DEF Established, Turned, Remembers, At, Verified, files
    <3> QED BY <1>p, <2>1, <3>1, <3>2, QuietTurns
  <2> QED BY <1>4, <2>2, <2>3, <2>4 DEF VerifyUpload
<1>5. CASE ReadText(w)
  <2>1. /\ work[w].pc \notin Outcomes \cup {"idle"} /\ UNCHANGED files /\ Only(w)
        /\ To(w, "temp") \/ To(w, "conflict")
    BY <1>5 DEF ReadText, At, Outcomes
  <2> QED BY <1>p, <2>1, PlainTo
<1>6. CASE List(w)
  <2>1. work[w].pc \notin Outcomes \cup {"idle"} /\ UNCHANGED files /\ Only(w) /\ To(w, "ok")
    BY <1>6 DEF List, At, Outcomes
  <2> QED BY <1>p, <2>1, PlainTo
<1>7. CASE Compare(w)
  <2> DEFINE c == work[w]
  <2>1. /\ c.pc \in {"entry", "open", "after"} /\ UNCHANGED files /\ Only(w)
        /\ c.pc \notin Outcomes \cup {"idle"}
    BY Zenon, <1>7 DEF Compare, Outcomes
  <2>2. \/ To(w, "conflict") \/ To(w, "ok")
        \/ c.pc = "entry" /\ Looked(w, "open")
        \/ c.pc = "open" /\ Version.stamp = c.prev.stamp /\ Looked(w, "copy")
    BY <1>7, <2>1 DEF Compare, Following, SameAttributes
  <2>3. CASE To(w, "conflict") \/ To(w, "ok")
    BY <1>p, <2>1, <2>3, PlainTo
  <2>4. CASE c.pc = "entry" /\ Looked(w, "open")
    <3>1. Turned(w, "open") /\ c.op = "archive"
      BY Zenon, <1>0, <1>p, <2>4, LookedTurns DEF Established
    <3>2. Established(w)'
      BY <3>1 DEF Established, Turned, At, Verified
    <3> QED BY Zenon, <1>p, <2>1, <3>1, <3>2, QuietTurns
  <2>5. CASE c.pc = "open" /\ Version.stamp = c.prev.stamp /\ Looked(w, "copy")
    <3>1. /\ Turned(w, "copy") /\ work'[w].prev = c.prev
          /\ work'[w].raced = c.raced \ {"stamp"}
      BY Zenon, <1>0, <1>p, <2>5, LookedTurns
    <3>2. Version' = Version
      BY <2>1 DEF Version, files
    <3>3. c.op = "download" => "bytes" \in c.raced \/ Version.bytes = c.prev.bytes
      BY Zenon, <1>0, <2>5 DEF Established, At
    <3>4. "bytes" \in c.raced => "bytes" \in work'[w].raced
      BY <3>1
    <3>5. c.op = "download" => Saw(work[w])'
      BY Zenon, <2>5, <3>1, <3>2, <3>3, <3>4 DEF Saw
    <3>6. Established(w)'
      BY Zenon, <3>1, <3>5 DEF Established, Turned, At, Verified
    <3> QED BY Zenon, <1>p, <2>1, <3>1, <3>6, QuietTurns
  <2> QED BY <2>2, <2>3, <2>4, <2>5
<1>8. CASE Copy(w)
  <2>1. /\ work[w].pc \notin Outcomes \cup {"idle"} /\ UNCHANGED files /\ Only(w)
        /\ To(w, "ok") \/ To(w, "after") \/ To(w, "conflict")
    BY Zenon, <1>8 DEF Copy, Outcomes
  <2> QED BY Zenon, <1>p, <2>1, PlainTo
<1> QED BY <1>1, <1>2, <1>3, <1>4, <1>5, <1>6, <1>7, <1>8

(* The version at the destination is remembered, or compared with what is. *)
LEMMA RememberSteps ==
  ASSUME FilesInv, NEW w \in Workers,
         \/ (\E overwrite \in BOOLEAN : PendingDestination(w, overwrite)) \/ HashPrevious(w)
         \/ CheckUnchanged(w) \/ Inspect(w) \/ Scan(w) \/ HashDownload(w)
  PROVE  FilesInv'
<1> DEFINE c == work[w]
           stamped == [c.prev EXCEPT !.stamp = Version.stamp]
           hashed == [c.prev EXCEPT !.bytes = Version.bytes]
           unread == c.raced \ {"bytes"}
           Became(prev, raced, pc) ==
             work' = [work EXCEPT ![w] = [work[w] EXCEPT !.prev = prev, !.raced = raced, !.pc = pc]]
<1>0. work \in [Workers -> Work] /\ c \in Work /\ Established(w) /\ Typed
  BY DEF FilesInv, Typed
<1>1. stamped \in Seen /\ hashed \in Seen /\ hashed.bytes = Version.bytes /\ c.prev \in Seen
  <2>1. c.prev \in Seen /\ Version \in Seen
    BY Zenon, <1>0, VersionSeen DEF Work
  <2> QED BY <2>1 DEF Seen
<1>r. {c.raced, unread, {}} \subseteq SUBSET Aspects
  BY <1>0 DEF Work
<1>p. /\ {"conflict", "gone", "exists", "temp", "digest", "text", "etag"} \subseteq Plain
      /\ {"replace", "entry", "open"} \subseteq PCs \ {"idle"} /\ Plain \subseteq PCs \ {"idle"}
  BY DEF Plain, PCs, Outcomes, Verified
<1>2. ASSUME NEW pc \in PCs, NEW prev \in Seen, NEW raced \in SUBSET Aspects, Became(prev, raced, pc)
      PROVE  Turned(w, pc) /\ work'[w].prev = prev /\ work'[w].raced = raced
  BY Zenon, <1>0, <1>2, Compared
<1>3. ASSUME NEW pc \in Plain, NEW prev \in Seen, NEW raced \in SUBSET Aspects, Became(prev, raced, pc),
             c.pc \notin Outcomes \cup {"idle"}, UNCHANGED files, Only(w)
      PROVE  FilesInv'
  BY Zenon, <1>p, <1>2, <1>3, PlainQuiet
<1> HIDE DEF stamped, hashed, unread
<1>4. ASSUME NEW overwrite \in BOOLEAN, PendingDestination(w, overwrite) PROVE FilesInv'
  <2>1. /\ c.pc \notin Outcomes \cup {"idle"} /\ UNCHANGED files /\ Only(w)
        /\ c.op \in {"start", "save", "put"}
    BY <1>4 DEF PendingDestination, Outcomes
  <2>2. Compares[c.op] \in Plain
    BY <1>p, <2>1 DEF Compares
  <2>3. \/ To(w, "conflict") \/ To(w, "temp") \/ To(w, "exists")
        \/ Became(stamped, c.raced, Compares[c.op])
    BY Zenon, <1>0, <1>4 DEF PendingDestination, stamped, Work
  <2> QED BY Zenon, <1>p, <1>r, <1>1, <1>3, <2>1, <2>2, <2>3, PlainTo
<1>5. CASE HashPrevious(w)
  <2>1. c.pc \notin Outcomes \cup {"idle"} /\ UNCHANGED files /\ Only(w)
    BY <1>0, <1>5 DEF HashPrevious, At, Outcomes, Work
  <2>2. To(w, "gone") \/ Became(hashed, c.raced, "temp")
    BY Zenon, <1>0, <1>5 DEF HashPrevious, hashed, Work
  <2> QED BY Zenon, <1>p, <1>r, <1>1, <1>3, <2>1, <2>2, PlainTo
<1>6. CASE CheckUnchanged(w)
  <2>1. /\ c.pc = "unchanged" /\ c.op = "complete" /\ UNCHANGED files /\ Only(w)
        /\ c.pc \notin Outcomes \cup {"idle"}
    BY <1>6 DEF CheckUnchanged, At, Outcomes
  <2>2. To(w, "conflict") \/ (Version = c.prev /\ Became(c.prev, {}, "replace"))
    BY ZenonT(40), <1>0, <1>6 DEF CheckUnchanged, SameVersion, Work
  <2>3. CASE To(w, "conflict")
    BY <1>p, <2>1, <2>3, PlainTo
  <2>4. CASE Version = c.prev /\ Became(c.prev, {}, "replace")
    <3>1. Turned(w, "replace") /\ work'[w].prev = c.prev
      BY Zenon, <1>p, <1>r, <1>1, <1>2, <2>4
    <3>2. c.prev # Nothing /\ data[c.temp].bytes = Want(c.temp)
      BY Zenon, <1>0, <2>1 DEF Established, Verified
    <3>3. c.prev.stamp # None
      BY <1>0, <2>4, <3>2, VersionSeen
    <3>4. Version' = Version /\ data' = data
      BY <2>1 DEF Version, files
    <3>5. Established(w)'
      BY <2>1, <2>4, <3>1, <3>2, <3>3, <3>4 DEF Established, Turned, At, Verified, Saw
    <3> QED BY <1>p, <2>1, <3>1, <3>5, QuietTurns
  <2> QED BY <2>2, <2>3, <2>4
<1>7. CASE Inspect(w)
  <2>1. c.pc \notin Outcomes \cup {"idle"} /\ UNCHANGED files /\ Only(w)
    BY <1>7 DEF Inspect, Remember, Outcomes
  <2>2. To(w, "gone") \/ Became(stamped, c.raced, "etag")
    BY Zenon, <1>0, <1>7 DEF Inspect, Remember, stamped, Work
  <2> QED BY Zenon, <1>p, <1>r, <1>1, <1>3, <2>1, <2>2, PlainTo
<1>8. CASE Scan(w)
  <2>1. c.pc \notin Outcomes \cup {"idle"} /\ UNCHANGED files /\ Only(w) /\ c.op = "archive"
    BY <1>8 DEF Scan, Remember, Outcomes
  <2>2. To(w, "gone") \/ Became(stamped, c.raced, "entry")
    BY ZenonT(40), <1>0, <1>8 DEF Scan, Remember, stamped, Work
  <2>3. CASE To(w, "gone")
    BY <1>p, <2>1, <2>3, PlainTo
  <2>4. CASE Became(stamped, c.raced, "entry")
    <3>1. Turned(w, "entry")
      BY Zenon, <1>p, <1>r, <1>1, <1>2, <2>4
    <3>2. Established(w)'
      BY <2>1, <3>1 DEF Established, Turned, At, Verified
    <3> QED BY <1>p, <2>1, <3>1, <3>2, QuietTurns
  <2> QED BY <2>2, <2>3, <2>4
<1>9. CASE HashDownload(w)
  <2>1. c.pc \notin Outcomes \cup {"idle"} /\ UNCHANGED files /\ Only(w)
    BY <1>0, <1>9 DEF HashDownload, At, Outcomes, Work
  <2>2. To(w, "gone") \/ Became(hashed, unread, "open")
    BY Zenon, <1>0, <1>9 DEF HashDownload, hashed, unread, Work
  <2>3. CASE To(w, "gone")
    BY <1>p, <2>1, <2>3, PlainTo
  <2>4. CASE Became(hashed, unread, "open")
    <3>1. Turned(w, "open") /\ work'[w].prev = hashed
      BY Zenon, <1>p, <1>r, <1>1, <1>2, <2>4
    <3>2. Version' = Version
      BY <2>1 DEF Version, files
    <3>3. Established(w)'
      BY Zenon, <1>1, <3>1, <3>2 DEF Established, Turned, At, Verified
    <3> QED BY <1>p, <2>1, <3>1, <3>3, QuietTurns
  <2> QED BY <2>2, <2>3, <2>4
<1> QED BY <1>4, <1>5, <1>6, <1>7, <1>8, <1>9

(* The calls on the temporary file of a resumable upload *)
LEMMA UploadSteps ==
  ASSUME FilesInv, NEW w \in Workers, CreateTemporary(w) \/ WriteChunk(w) \/ CancelUpload(w)
  PROVE  FilesInv'
<1> DEFINE u == work[w].temp
<1>0. /\ Bound(w) /\ Established(w) /\ Typed /\ PublishedWhole /\ PublishedIssued
      /\ dst \in Temps \cup {Owner, None} /\ there \subseteq Temps
      /\ data \in [Temps \cup {Owner} -> File]
  BY DEF FilesInv, Typed
<1>p. {"ok", "mismatch", "gone", "error"} \subseteq Plain
  BY DEF Plain, PCs, Outcomes, Verified
<1>1. ASSUME UNCHANGED <<dst, ticket>>, NEW t \in Temps, dst # t,
             NEW file \in File, data' = [data EXCEPT ![t] = file]
      PROVE  data' \in [Temps \cup {Owner} -> File] /\ PublishedWhole' /\ PublishedIssued'
  BY Zenon, <1>0, <1>1 DEF PublishedWhole, PublishedIssued
<1>2. CASE CreateTemporary(w)
  <2>1. /\ work[w].pc \notin Outcomes \cup {"idle"} /\ Only(w) /\ UNCHANGED <<dst, ticket>>
        /\ work[w].op = "start" /\ work[w].pc = "temp"
    BY Zenon, <1>2 DEF CreateTemporary, At, Outcomes, Only
  <2>2. u \in Uploads /\ u \in Temps /\ dst # u
    BY <1>0, <2>1 DEF Bound, PublishedIssued, Temps
  <2>3. CASE there' = there /\ data' = data /\ To(w, "error")
    BY <1>p, <2>1, <2>3, PlainTo DEF files
  <2>4. CASE /\ there' = there \cup {u} /\ data' = [data EXCEPT ![u] = Empty]
             /\ To(w, "ok") \/ To(w, "error")
    <3>1. Empty \in File
      BY DEF Empty, File, Stamps
    <3>2. data' \in [Temps \cup {Owner} -> File] /\ PublishedWhole' /\ PublishedIssued'
      BY Zenon, <1>1, <2>1, <2>2, <2>4, <3>1
    <3>3. dst' \in Temps \cup {Owner, None} /\ there' \subseteq Temps
      BY <1>0, <2>1, <2>2, <2>4
    <3> QED BY <1>p, <2>1, <2>4, <3>2, <3>3, PlainEffect
  <2> QED BY Zenon, <1>2, <2>3, <2>4 DEF CreateTemporary, Replied
<1>3. CASE WriteChunk(w)
  <2>1. /\ work[w].pc \notin Outcomes \cup {"idle"} /\ Only(w) /\ UNCHANGED ticket
        /\ work[w].op = "chunk" /\ work[w].pc = "write"
    BY Zenon, <1>3 DEF WriteChunk, At, Outcomes, Only
  <2>2. /\ u \in Uploads /\ u \in Temps /\ dst # u /\ work[w].off = Len(data[u].bytes)
        /\ data[u] \in File
    BY Zenon, <1>0, <2>1 DEF Bound, Established, At, TicketOps, Temps
  <2>3. CASE To(w, "gone") /\ UNCHANGED files
    BY <1>p, <2>1, <2>3, PlainTo
  <2>4. ASSUME NEW n \in 0 .. work[w].units + 1, NEW unit \in {u, "bad"},
               data' = [data EXCEPT ![u].bytes =
                          SubSeq(@, 1, work[w].off) \o [i \in 1 .. n |-> unit]],
               Replied(w, IF n = work[w].units THEN "ok" ELSE "mismatch"),
               UNCHANGED <<dst, there>>
        PROVE  FilesInv'
    <3> DEFINE old == data[u].bytes
               more == [i \in 1 .. n |-> unit]
               text == SubSeq(old, 1, work[w].off) \o more
               file == [data[u] EXCEPT !.bytes = text]
    <3>1. text \in Seq(Units)
      <4>1. old \in Seq(Units)
        BY <2>2 DEF File
      <4>2. n \in Nat /\ unit \in Units
        <5>1. n \in Nat
          OBVIOUS
        <5>2. unit \in Units
          BY Zenon, <2>2 DEF Units
        <5> QED BY <5>1, <5>2
      <4>3. more \in Seq(Units)
        BY <4>2
      <4>4. SubSeq(old, 1, Len(old)) \in Seq(Units)
        BY <4>1
      <4> QED BY <2>2, <4>3, <4>4
    <3>2. data' = [data EXCEPT ![u] = file]
      BY Zenon, <2>4
    <3> HIDE DEF text
    <3>3. file \in File
      BY <2>2, <3>1 DEF File
    <3> HIDE DEF file
    <3>4. data' \in [Temps \cup {Owner} -> File] /\ PublishedWhole' /\ PublishedIssued'
      BY Zenon, <1>1, <2>1, <2>2, <2>4, <3>2, <3>3
    <3>5. To(w, "ok") \/ To(w, "mismatch") \/ To(w, "error")
      BY <2>4 DEF Replied
    <3>6. dst' \in Temps \cup {Owner, None} /\ there' \subseteq Temps
      BY <1>0, <2>4
    <3>7. PICK pc \in Plain : To(w, pc)
      BY Zenon, <1>p, <3>5
    <3> QED BY <2>1, <3>4, <3>6, <3>7, PlainEffect
  <2> QED BY Zenon, <1>3, <2>3, <2>4 DEF WriteChunk
<1>4. CASE CancelUpload(w)
  <2>1. /\ work[w].pc \notin Outcomes \cup {"idle"} /\ Only(w) /\ UNCHANGED <<dst, data, ticket>>
        /\ there' \subseteq there
        /\ To(w, "ok") \/ To(w, "error")
    BY <1>4 DEF CancelUpload, At, Outcomes, Only, Replied
  <2>2. PublishedWhole' /\ PublishedIssued'
    BY Zenon, <1>0, <2>1 DEF PublishedWhole, PublishedIssued
  <2>3. /\ dst' \in Temps \cup {Owner, None} /\ there' \subseteq Temps
        /\ data' \in [Temps \cup {Owner} -> File]
    BY <1>0, <2>1
  <2>4. PICK pc \in Plain : To(w, pc)
    BY Zenon, <1>p, <2>1
  <2> QED BY <2>1, <2>2, <2>3, <2>4, PlainEffect
<1> QED BY <1>2, <1>3, <1>4

(* The calls on the temporary file of a one-request write, up to the decision to
   commit *)
LEMMA WriteSteps ==
  ASSUME FilesInv, NEW w \in Workers,
         WriteTemporary(w) \/ ReadTextAgain(w) \/ CheckDestination(w)
  PROVE  FilesInv'
<1> DEFINE c == work[w]
           t == work[w].temp
<1>0. /\ Bound(w) /\ Established(w) /\ Typed /\ PublishedWhole /\ PublishedIssued
      /\ dst \in Temps \cup {Owner, None} /\ there \subseteq Temps
      /\ data \in [Temps \cup {Owner} -> File] /\ work \in [Workers -> Work] /\ c \in Work
  BY DEF FilesInv, Typed
<1>p. /\ {"exists", "conflict", "mismatch", "error"} \subseteq Plain
      /\ {"again", "commit", "publish", "replace"} \subseteq PCs \ {"idle"}
      /\ {"again", "commit", "publish", "replace"} \cap Outcomes = {}
  BY DEF Plain, PCs, Outcomes, Verified
<1>1. ASSUME NEW pc \in Plain, Abort(w, pc), Only(w), c.pc \notin Outcomes \cup {"idle"}
      PROVE  FilesInv'
  <2>1. /\ there' \subseteq Temps /\ UNCHANGED <<dst, data, ticket>> /\ To(w, pc)
    BY <1>0, <1>1 DEF Abort, Only
  <2>2. PublishedWhole' /\ PublishedIssued'
    BY Zenon, <1>0, <2>1 DEF PublishedWhole, PublishedIssued
  <2> QED BY <1>0, <1>1, <2>1, <2>2, PlainEffect
<1>2. CASE WriteTemporary(w)
  <2>1. /\ c.pc \notin Outcomes \cup {"idle"} /\ Only(w) /\ UNCHANGED <<dst, ticket>>
        /\ c.op \in {"save", "put"}
    BY <1>2 DEF WriteTemporary, Outcomes, Only, Abort
  <2>2. t \in Writes /\ t \in Temps
    BY <1>0, <2>1 DEF Bound, Temps
  <2>3. CASE Abort(w, "mismatch")
    BY <1>1, <1>p, <2>1, <2>3
  <2>4. CASE there' = there \cup {t} /\ To(w, "error") /\ UNCHANGED <<dst, data>>
    <3>1. PublishedWhole' /\ PublishedIssued'
      BY Zenon, <1>0, <2>1, <2>4 DEF PublishedWhole, PublishedIssued
    <3>2. there' \subseteq Temps
      BY <1>0, <2>2, <2>4
    <3> QED BY <1>0, <1>p, <2>1, <2>4, <3>1, <3>2, PlainEffect
  <2>5. ASSUME there' = there \cup {t}, data' = [data EXCEPT ![t] = [bytes |-> Want(t), stamp |-> 1]],
               NEW pc \in {"again", "commit"}, To(w, pc), c.op = "save" => pc = "again"
        PROVE  FilesInv'
    <3>1. [bytes |-> Want(t), stamp |-> 1] \in File
      <4>1. t \notin Uploads
        BY <2>2, NamesDiffer
      <4>2. Want(t) \in Seq(Units)
        BY <2>2, <4>1 DEF Want, Units
      <4> QED BY <4>2 DEF File, Stamps
    <3>2. /\ data' \in [Temps \cup {Owner} -> File] /\ data'[t].bytes = Want(t)
          /\ \A f \in Temps : f # t => data'[f] = data[f]
      BY Zenon, <1>0, <2>2, <2>5, <3>1
    <3>3. PublishedWhole' /\ PublishedIssued'
      BY Zenon, <1>0, <2>1, <3>2 DEF PublishedWhole, PublishedIssued
    <3>4. Turned(w, pc) /\ Remembers(w) /\ pc \in PCs \ {"idle"}
      BY <1>0, <1>p, <2>5, ToTurns
    <3>5. Established(w)'
      BY Zenon, <2>1, <2>5, <3>2, <3>4 DEF Established, Turned, At, Verified
    <3>6. dst' \in Temps \cup {Owner, None} /\ there' \subseteq Temps
      BY <1>0, <2>1, <2>2, <2>5
    <3> QED BY <2>1, <3>2, <3>3, <3>4, <3>5, <3>6, WorkerTurns
  <2> QED BY <1>2, <2>1, <2>3, <2>4, <2>5 DEF WriteTemporary
<1>3. CASE ReadTextAgain(w)
  <2>1. c.pc \notin Outcomes \cup {"idle"} /\ Only(w) /\ c.op = "save" /\ c.pc = "again"
    BY <1>3 DEF ReadTextAgain, At, Outcomes
  <2>2. CASE Abort(w, "conflict")
    BY Zenon, <1>1, <1>p, <2>1, <2>2
  <2>3. CASE /\ Version.bytes = c.prev.bytes /\ UNCHANGED files
             /\ work' = [work EXCEPT ![w].raced = @ \ {"bytes"}, ![w].pc = "commit"]
    <3> DEFINE raced == c.raced \ {"bytes"}
    <3>0. c.prev \in Seen /\ raced \in SUBSET Aspects
      BY <1>0 DEF Work
    <3>1. work' = [work EXCEPT ![w] =
                     [work[w] EXCEPT !.prev = c.prev, !.raced = raced, !.pc = "commit"]]
      BY ZenonT(40), <1>0, <2>3 DEF Work
    <3> HIDE DEF raced
    <3>2. Turned(w, "commit") /\ work'[w].prev = c.prev
      BY Zenon, <1>0, <1>p, <3>0, <3>1, Compared
    <3>3. data[t].bytes = Want(t)
      BY Zenon, <1>0, <2>1 DEF Established, Verified
    <3>4. Version' = Version /\ data' = data
      BY <2>3 DEF Version, files
    <3>5. Established(w)'
      BY <2>1, <2>3, <3>2, <3>3, <3>4 DEF Established, Turned, At, Verified
    <3> QED BY <1>p, <2>1, <2>3, <3>2, <3>5, QuietTurns
  <2> QED BY Zenon, <1>3, <2>2, <2>3 DEF ReadTextAgain
<1>4. CASE CheckDestination(w)
  <2>1. c.pc \notin Outcomes \cup {"idle"} /\ Only(w) /\ c.pc = "commit"
    BY <1>4 DEF CheckDestination, Outcomes
  <2>2. /\ c.op \in {"complete", "save", "put"} /\ data[t].bytes = Want(t)
        /\ c.op = "complete" => c.prev.stamp = None
        /\ c.op = "save" => "bytes" \in c.raced \/ Version.bytes = c.prev.bytes
    BY Zenon, <1>0, <2>1 DEF Established, At, Verified
  <2>3. ASSUME NEW pc \in Plain, Discards(w, pc) PROVE FilesInv'
    BY <1>1, <2>1, <2>3, PlainTo DEF Discards
  <2>4. CASE To(w, "publish") /\ UNCHANGED files
    <3>1. Turned(w, "publish")
      BY <1>0, <1>p, <2>4, ToTurns
    <3>2. Established(w)'
      BY Zenon, <2>2, <2>4, <3>1 DEF Established, Turned, At, Verified, files
    <3> QED BY <1>p, <2>1, <2>4, <3>1, <3>2, QuietTurns
  <2>5. CASE /\ c.prev.stamp # None /\ Version.stamp = c.prev.stamp
             /\ Looked(w, "replace") /\ UNCHANGED files
    <3>1. /\ Turned(w, "replace") /\ work'[w].prev = c.prev
          /\ work'[w].raced = c.raced \ {"stamp"}
      BY Zenon, <1>0, <1>p, <2>5, LookedTurns
    <3>2. Version' = Version /\ data' = data
      BY <2>5 DEF Version, files
    <3>3. "bytes" \in c.raced => "bytes" \in work'[w].raced
      BY <3>1
    <3>4. c.op # "complete"
      BY Zenon, <2>2, <2>5
    <3>5. work'[w].prev.stamp # None /\ Saw(work[w])'
      BY Zenon, <2>2, <2>5, <3>1, <3>2, <3>3, <3>4 DEF Saw, Turned
    <3>6. Established(w)'
      BY Zenon, <2>2, <3>1, <3>2, <3>5 DEF Established, Turned, At, Verified
    <3> QED BY <1>p, <2>1, <2>5, <3>1, <3>6, QuietTurns
  <2> QED BY Zenon, <1>4, <1>p, <2>3, <2>4, <2>5 DEF CheckDestination, SameAttributes
<1> QED BY <1>2, <1>3, <1>4

(* Publication, and the operations on the destination itself *)
LEMMA PublishSteps ==
  ASSUME FilesInv, NEW w \in Workers,
         Link(w) \/ Unlink(w) \/ Rename(w) \/ PosixRename(w) \/ Remove(w) \/ Move(w)
  PROVE  FilesInv'
<1> DEFINE c == work[w]
           t == work[w].temp
<1>0. /\ Bound(w) /\ Established(w) /\ Typed /\ PublishedWhole /\ PublishedIssued
      /\ dst \in Temps \cup {Owner, None} /\ there \subseteq Temps
      /\ data \in [Temps \cup {Owner} -> File]
  BY Zenon DEF FilesInv, Typed
<1>p. {"ok", "exists", "gone", "error", "unlink", "remove", "move"} \subseteq Plain
  BY DEF Plain, PCs, Outcomes, Verified
<1>d. None \notin Temps /\ Owner \notin Temps
  BY NamesDiffer DEF Temps
<1>1. ASSUME c.pc \in {"publish", "replace"}, t \in there, dst' = t, there' \subseteq there,
             data' = data, Only(w), NEW pc \in Plain, To(w, pc)
      PROVE  FilesInv'
  <2>1. /\ c.pc \notin Outcomes \cup {"idle"} /\ t \in Temps /\ there' \subseteq Temps
        /\ c.op \in {"complete", "save", "put"} /\ data[t].bytes = Want(t)
    BY Zenon, <1>0, <1>1 DEF Established, Verified, Outcomes
  <2>2. PublishedWhole'
    BY Zenon, <1>1, <2>1 DEF PublishedWhole, Want
  <2>3. \A u \in Uploads : u = t => Issued(u)
    BY Zenon, <1>0, <2>1, NamesDiffer DEF Bound, TicketOps
  <2>4. PublishedIssued'
    BY Zenon, <1>1, <2>3 DEF PublishedIssued, Issued, Only
  <2> QED BY <1>0, <1>1, <2>1, <2>2, <2>4, PlainEffect
<1>2. ASSUME c.pc \notin Outcomes \cup {"idle"}, dst' \in {dst, None}, there' \subseteq there,
             data' = data, Only(w), NEW pc \in Plain, To(w, pc)
      PROVE  FilesInv'
  <2>1. PublishedWhole' /\ PublishedIssued'
    BY Zenon, <1>0, <1>2, <1>d DEF PublishedWhole, PublishedIssued, Only, Temps
  <2>2. dst' \in Temps \cup {Owner, None} /\ there' \subseteq Temps
    BY <1>0, <1>2
  <2> QED BY Zenon, <1>0, <1>2, <2>1, <2>2, PlainEffect
<1>3. CASE Link(w)
  <2>1. c.pc = "publish" /\ c.pc \notin Outcomes \cup {"idle"} /\ Only(w)
    BY <1>3 DEF Link, Outcomes
  <2>2. CASE t \in there /\ dst' = t /\ Replied(w, "unlink") /\ UNCHANGED <<there, data>>
    BY <1>1, <1>p, <2>1, <2>2 DEF Replied
  <2>3. CASE Discards(w, "exists")
    <3>1. there' \subseteq there /\ UNCHANGED <<dst, data>> /\ To(w, "exists")
      BY <2>3 DEF Discards, Abort, files
    <3> QED BY <1>2, <1>p, <2>1, <3>1
  <2> QED BY <1>3, <2>2, <2>3 DEF Link
<1>4. CASE Unlink(w)
  <2>1. /\ c.pc \notin Outcomes \cup {"idle"} /\ Only(w) /\ there' \subseteq there
        /\ UNCHANGED <<dst, data>>
        /\ To(w, "ok") \/ To(w, "error")
    BY <1>4 DEF Unlink, Outcomes, Replied
  <2> QED BY <1>2, <1>p, <2>1
<1>5. CASE Rename(w)
  <2>1. /\ c.pc = "publish" /\ Only(w) /\ t \in there /\ dst' = t /\ there' \subseteq there
        /\ data' = data
        /\ To(w, "ok") \/ To(w, "error")
    BY <1>5 DEF Rename, Replied
  <2> QED BY <1>1, <1>p, <2>1
<1>6. CASE PosixRename(w)
  <2>1. c.pc = "replace" /\ c.pc \notin Outcomes \cup {"idle"} /\ Only(w)
    BY <1>6 DEF PosixRename, Outcomes
  <2>2. CASE /\ t \in there /\ dst' = t /\ there' = there \ {t} /\ Replied(w, "ok")
             /\ UNCHANGED data
    BY <1>1, <1>p, <2>1, <2>2 DEF Replied
  <2>3. CASE To(w, "error") /\ UNCHANGED files
    BY <1>p, <2>1, <2>3, PlainTo
  <2> QED BY <1>6, <2>2, <2>3 DEF PosixRename
<1>7. CASE Remove(w)
  <2>1. /\ c.pc \notin Outcomes \cup {"idle"} /\ Only(w) /\ there' \subseteq there
        /\ data' = data /\ dst' \in {dst, None}
        /\ To(w, "gone") \/ To(w, "remove") \/ To(w, "ok") \/ To(w, "error")
    BY <1>7 DEF Remove, Outcomes, Replied, files
  <2> QED BY <1>2, <1>p, <2>1
<1>8. CASE Move(w)
  <2>1. c.pc \notin Outcomes \cup {"idle"} /\ Only(w)
    BY Zenon, <1>8 DEF Move, At, Outcomes
  <2>2. CASE /\ there' \subseteq there /\ data' = data /\ dst' \in {dst, None}
             /\ \/ To(w, "move") \/ To(w, "exists") \/ To(w, "gone") \/ To(w, "ok")
                \/ To(w, "error")
    BY <1>2, <1>p, <2>1, <2>2
  <2>3. CASE /\ dst' = Owner /\ Replied(w, "ok") /\ UNCHANGED there
             /\ data' = [data EXCEPT ![Owner] = [bytes |-> <<"other">>, stamp |-> 2]]
    <3>1. [bytes |-> <<"other">>, stamp |-> 2] \in File
      BY DEF File, Units, Stamps
    <3>2. data' \in [Temps \cup {Owner} -> File]
      BY Zenon, <1>0, <2>3, <3>1
    <3>3. PublishedWhole' /\ PublishedIssued'
      BY Zenon, <1>d, <2>3 DEF PublishedWhole, PublishedIssued, Temps
    <3>4. PICK pc \in Plain : To(w, pc)
      BY <1>p, <2>3 DEF Replied
    <3> QED BY Zenon, <1>0, <2>1, <2>3, <3>2, <3>3, <3>4, PlainEffect
  <2> QED BY <1>8, <2>2, <2>3 DEF Move, Replied, files
<1> QED BY <1>3, <1>4, <1>5, <1>6, <1>7, <1>8

----------------------------------------------------------------------------
(* A request is one for the client's own temporary file, at the first place of its
   operation. *)
LEMMA RequestFacts ==
  ASSUME Typed, NEW op \in Requests
  PROVE  /\ op \in Work /\ op.pc \in {"pending", "offset", "verify", "look", "remove"}
         /\ op.op \in TicketOps \cup {"start"} => op.temp \in Uploads
         /\ op.op \in {"save", "put"} => op.temp \in Writes
         /\ op.op \in TicketOps => Issued(op.temp)
         /\ op.op = "start" => ticket[op.temp] = None
         /\ op.pc = "offset" => ChunkFits(op.temp, op.off, op.units)
<1>1. ASSUME NEW o \in Ops, NEW t \in Temps \cup {None},
             NEW pc \in {"pending", "offset", "verify", "look", "remove"}
      PROVE  /\ Request(o, t, pc) \in Work /\ Request(o, t, pc).op = o
             /\ Request(o, t, pc).temp = t /\ Request(o, t, pc).pc = pc
  BY Zenon, IdleWork DEF Request, Idle, Work, PCs
<1>2. CASE op \in {Request("start", u, "pending") : u \in {v \in Uploads : ticket[v] = None}}
  <2>1. PICK u \in Uploads : ticket[u] = None /\ op = Request("start", u, "pending")
    BY Zenon, <1>2
  <2>2. op \in Work /\ op.op = "start" /\ op.temp = u /\ op.pc = "pending"
    BY <1>1, <2>1 DEF Ops, Temps
  <2> QED BY <2>1, <2>2 DEF TicketOps
<1>3. CASE op \in ChunkRequests
  <2>1. PICK u \in Uploads, off \in 0 .. Size, n \in 1 .. Size :
          /\ Issued(u) /\ ChunkFits(u, off, n)
          /\ op = [Request("chunk", u, "offset") EXCEPT !.off = off, !.units = n]
    BY Zenon, <1>3 DEF ChunkRequests
  <2> DEFINE r == Request("chunk", u, "offset")
  <2>2. r \in Work /\ r.op = "chunk" /\ r.temp = u /\ r.pc = "offset"
    BY <1>1 DEF Ops, Temps
  <2> HIDE DEF r
  <2>3. op = [r EXCEPT !.off = off, !.units = n] /\ off \in Nat /\ n \in Nat
    BY <2>1, SizeNat DEF r
  <2>4. /\ op \in Work /\ op.op = "chunk" /\ op.temp = u /\ op.pc = "offset"
        /\ op.off = off /\ op.units = n
    BY Zenon, <2>2, <2>3 DEF Work
  <2> QED BY <2>1, <2>4 DEF TicketOps
<1>4. CASE op \in {[Request("complete", u, "verify") EXCEPT !.prev = ticket[u].prev] :
                     u \in {v \in Uploads : Issued(v)}}
  <2>1. PICK u \in Uploads :
          Issued(u) /\ op = [Request("complete", u, "verify") EXCEPT !.prev = ticket[u].prev]
    BY <1>4
  <2>2. ticket[u].prev \in Seen
    BY <2>1 DEF Issued, Typed
  <2> DEFINE r == Request("complete", u, "verify")
             prev == ticket[u].prev
  <2>3. r \in Work /\ r.op = "complete" /\ r.temp = u /\ r.pc = "verify"
    BY <1>1 DEF Ops, Temps
  <2> HIDE DEF r, prev
  <2>4. op = [r EXCEPT !.prev = prev] /\ prev \in Seen
    BY <2>1, <2>2 DEF r, prev
  <2>5. op \in Work /\ op.op = "complete" /\ op.temp = u /\ op.pc = "verify"
    BY <2>3, <2>4 DEF Work
  <2> QED BY <2>1, <2>5 DEF TicketOps
<1>5. CASE \E u \in Uploads : /\ Issued(u)
                             /\ op \in {Request("status", u, "look"), Request("cancel", u, "remove")}
  BY <1>1, <1>5 DEF Ops, Temps, TicketOps
<1>6. CASE \E t \in Writes, text \in Texts :
             op = [Request("save", t, "pending") EXCEPT !.prev.bytes = text]
  <2>1. PICK t \in Writes, text \in Texts :
          op = [Request("save", t, "pending") EXCEPT !.prev.bytes = text]
    BY <1>6
  <2>2. text \in Seq(Units)
    <3>1. ASSUME NEW x \in Temps PROVE Want(x) \in Seq(Units)
      <4>1. x \in Units
        BY DEF Units
      <4>2. [i \in 1 .. Size |-> x] \in Seq(Units) /\ <<x>> \in Seq(Units)
        BY <4>1, SizeNat
      <4> QED BY <4>2 DEF Want
    <3>2. OwnerTexts \subseteq Seq(Units)
      BY DEF OwnerTexts, Units
    <3> QED BY <3>1, <3>2 DEF Texts
  <2> DEFINE r == Request("save", t, "pending")
             prev == [r.prev EXCEPT !.bytes = text]
  <2>3. r \in Work /\ r.op = "save" /\ r.temp = t /\ r.pc = "pending"
    BY <1>1 DEF Ops, Temps
  <2> HIDE DEF r
  <2>4. prev \in Seen /\ op = [r EXCEPT !.prev = prev]
    BY <2>1, <2>2, <2>3 DEF Work, Seen, r
  <2> HIDE DEF prev
  <2>5. op \in Work /\ op.op = "save" /\ op.temp = t /\ op.pc = "pending"
    BY <2>3, <2>4 DEF Work
  <2> QED BY <2>5 DEF TicketOps
<1>7. CASE \E t \in Writes : op = Request("put", t, "pending")
  BY <1>1, <1>7 DEF Ops, Temps, TicketOps
<1>8. CASE \E o \in {"remove", "away", "hither", "list", "download", "archive"} :
             op = Request(o, None, "look")
  BY <1>1, <1>8 DEF Ops, TicketOps
<1>9. CASE op \in UploadRequests
  BY Zenon, <1>2, <1>3, <1>4, <1>5, <1>9 DEF UploadRequests
<1>10. CASE op \in WriteRequests
  BY <1>6, <1>7, <1>10 DEF WriteRequests
<1> QED BY Zenon, <1>8, <1>9, <1>10 DEF Requests, PathRequests, StreamRequests

(* withClient admits a request when no worker is under way. *)
LEMMA BeginStep ==
  ASSUME FilesInv, NEW w \in Workers, NEW op \in Requests, Begin(w, op)
  PROVE  FilesInv'
<1>0. /\ Typed /\ Exclusive /\ PublishedWhole /\ PublishedIssued /\ UNCHANGED <<files, ticket>>
      /\ work' = [work EXCEPT ![w] = op] /\ busy' = TRUE
      /\ caller' = [caller EXCEPT ![w] = "running"]
  BY DEF FilesInv, Begin
<1>1. \A v \in Workers : work[v] = Idle
  BY Zenon DEF FilesInv, Begin, Exclusive, Established
<1>2. op \in Work /\ op.pc \in {"pending", "offset", "verify", "look", "remove"}
  BY <1>0, RequestFacts
<1>3. work' \in [Workers -> Work] /\ work'[w] = op /\ \A v \in Workers \ {w} : work'[v] = Idle
  BY Zenon, <1>0, <1>1, <1>2 DEF Typed
<1>4. Typed' /\ PublishedWhole' /\ PublishedIssued'
  BY <1>0, <1>3 DEF Typed, PublishedWhole, PublishedIssued, files
<1>5. Exclusive'
  <2>1. work'[w].pc # "idle" /\ \A v \in Workers \ {w} : work'[v].pc = "idle"
    BY <1>2, <1>3 DEF Idle
  <2> QED BY <1>0, <2>1 DEF Exclusive
<1>6. ASSUME NEW v \in Workers \ {w} PROVE Bound(v)' /\ Established(v)'
  BY <1>3, IdleSound
<1>7. Bound(w)'
  BY Zenon, <1>0, <1>3, RequestFacts DEF Bound, Issued, TicketOps
<1>8. Established(w)'
  <2>1. op.pc = "offset" => ChunkFits(op.temp, op.off, op.units)
    BY <1>0, RequestFacts
  <2> QED BY <1>2, <1>3, <2>1 DEF Established, At, Verified, ChunkFits
<1> QED BY <1>4, <1>5, <1>6, <1>7, <1>8 DEF FilesInv

(* The supervisor answers the request, with or without its worker: only the result of
   a start gives the client the ticket. *)
LEMMA LeaveStep ==
  ASSUME FilesInv, NEW w \in Workers, Leave(w)
  PROVE  FilesInv'
<1> DEFINE c == work[w]
<1>0. /\ Typed /\ Exclusive /\ PublishedWhole /\ PublishedIssued /\ Bound(w) /\ Established(w)
      /\ UNCHANGED <<files, busy, work>> /\ c \in Work
      /\ caller[w] = "running" /\ caller' = [caller EXCEPT ![w] = "leaving"]
  BY DEF FilesInv, Leave, Typed
<1>1. /\ caller' \in [Workers -> {"none", "running", "leaving"}] /\ caller'[w] = "leaving"
      /\ \A v \in Workers \ {w} : caller'[v] = caller[v]
  BY Zenon, <1>0 DEF Typed
<1>2. PublishedWhole' /\ Exclusive' /\ \A v \in Workers : Established(v) => Established(v)'
  <2>1. dst' = dst /\ data' = data /\ busy' = busy /\ work' = work
    BY <1>0 DEF files
  <2>2. PublishedWhole' /\ Exclusive'
    BY <1>0, <2>1 DEF PublishedWhole, Exclusive
  <2>3. ASSUME NEW v \in Workers, Established(v) PROVE Established(v)'
    <3>1. Version' = Version
      BY <2>1 DEF Version
    <3>2. Saw(work[v])' <=> Saw(work[v])
      BY Zenon, <2>1, <3>1 DEF Saw
    <3> QED BY Zenon, <2>1, <2>3, <3>1, <3>2 DEF Established, At
  <2> QED BY <2>2, <2>3
<1>3. CASE ticket' = ticket
  <2>1. Typed' /\ PublishedIssued'
    BY <1>0, <1>1, <1>3 DEF Typed, PublishedIssued, files
  <2>2. ASSUME NEW v \in Workers PROVE Bound(v)'
    BY Zenon, <1>0, <1>1, <1>3 DEF FilesInv, Bound, Issued
  <2> QED BY <1>2, <2>1, <2>2 DEF FilesInv
<1>4. CASE /\ c.op = "start"
           /\ \/ c.pc \in Outcomes /\ ticket' = [ticket EXCEPT ![c.temp] = [prev |-> c.prev]]
              \/ ticket' = [ticket EXCEPT ![c.temp] = Lost]
  <2>1. c.temp \in Uploads /\ ticket[c.temp] = None /\ dst # c.temp
    BY <1>0, <1>4 DEF Bound, PublishedIssued
  <2>2. [prev |-> c.prev] \in [prev : Seen]
    BY Zenon, <1>0 DEF Work
  <2>3. /\ ticket' \in [Uploads -> {None, Lost} \cup [prev : Seen]]
        /\ \A u \in Uploads : u # c.temp => ticket'[u] = ticket[u]
        /\ c.pc \notin Outcomes => ticket'[c.temp] = Lost
    BY Zenon, <1>0, <1>4, <2>1, <2>2 DEF Typed
  <2>4. Typed' /\ PublishedIssued'
    BY Zenon, <1>0, <1>1, <2>1, <2>3 DEF Typed, PublishedIssued, files
  <2>5. c.pc # "idle"
    <3>1. Idle.op # "start"
      BY DEF Idle
    <3> QED BY Zenon, <1>0, <1>4, <3>1 DEF Established
  <2>6. ASSUME NEW v \in Workers PROVE Bound(v)'
    <3>1. CASE v = w
      BY Zenon, <1>0, <1>1, <1>4, <2>1, <2>3, <3>1 DEF Bound, TicketOps
    <3>2. CASE v # w
      <4>1. work[v] = Idle
        BY Zenon, <1>0, <2>5, <3>2 DEF FilesInv, Exclusive, Established
      <4>2. work'[v] = Idle
        BY <1>0, <4>1
      <4> QED BY <4>2, IdleSound
    <3> QED BY <3>1, <3>2
  <2> QED BY <1>2, <2>4, <2>6 DEF FilesInv
<1> QED BY Zenon, <1>3, <1>4 DEF Leave

(* The reservation is given back once the worker is gone. *)
LEMMA SettleStep ==
  ASSUME FilesInv, NEW w \in Workers, Settle(w)
  PROVE  FilesInv'
<1>0. /\ Typed /\ Exclusive /\ PublishedWhole /\ PublishedIssued
      /\ UNCHANGED <<dst, there, ticket>> /\ busy' = FALSE /\ work[w].pc \in Outcomes
      /\ work' = [work EXCEPT ![w] = Idle] /\ caller' = [caller EXCEPT ![w] = "none"]
      /\ data' = [f \in DOMAIN data |-> IF Named(dst, there, f) THEN data[f] ELSE Empty]
  BY DEF FilesInv, Settle, Joined
<1>1. \A v \in Workers \ {w} : work[v] = Idle
  BY Zenon, <1>0 DEF FilesInv, Exclusive, Established, Outcomes
<1>2. work' \in [Workers -> Work] /\ \A v \in Workers : work'[v] = Idle
  BY Zenon, <1>0, <1>1, IdleWork DEF Typed
<1>3. data' \in [Temps \cup {Owner} -> File] /\ (dst \in Temps => data'[dst] = data[dst])
  <2>1. Empty \in File
    BY DEF Empty, File, Stamps
  <2> QED BY Zenon, <1>0, <2>1 DEF Typed, Named
<1>4. Typed' /\ PublishedWhole' /\ PublishedIssued'
  BY Zenon, <1>0, <1>2, <1>3 DEF Typed, PublishedWhole, PublishedIssued, Want
<1>5. Exclusive'
  <2>1. Idle.pc = "idle"
    BY DEF Idle
  <2>2. \A v \in Workers : work'[v].pc = "idle"
    BY Zenon, <1>2, <2>1
  <2> QED BY Zenon, <1>0, <2>2 DEF Exclusive
<1>6. ASSUME NEW v \in Workers PROVE Bound(v)' /\ Established(v)'
  BY <1>2, IdleSound
<1> QED BY <1>4, <1>5, <1>6 DEF FilesInv

(* The owner's changes are noted by every worker under way, and touch no file of Talus. *)
LEMMA OwnerChangesStep ==
  ASSUME FilesInv, OwnerChanges
  PROVE  FilesInv'
<1>0. /\ Typed /\ Exclusive /\ PublishedWhole /\ PublishedIssued
      /\ UNCHANGED <<there, ticket, busy, caller>>
      /\ work' = [w \in Workers |->
                    [work[w] EXCEPT !.raced = IF work[w].pc \in Outcomes \cup {"idle"} THEN {}
                                              ELSE Aspects]]
  BY DEF FilesInv, OwnerChanges
<1>1. /\ dst' \in {None, Owner} /\ data' \in [Temps \cup {Owner} -> File]
      /\ \A t \in Temps : data'[t] = data[t]
  <2>1. CASE dst' = None /\ UNCHANGED data
    BY <1>0, <2>1 DEF Typed
  <2>2. ASSUME NEW text \in OwnerTexts, NEW s \in Stamps, dst' = Owner,
               data' = [data EXCEPT ![Owner] = [bytes |-> text, stamp |-> s]]
        PROVE  dst' = Owner /\ data' \in [Temps \cup {Owner} -> File]
               /\ \A t \in Temps : data'[t] = data[t]
    <3>1. <<Owner>> \in Seq(Units) /\ <<"other">> \in Seq(Units)
      BY DEF Units
    <3>2. text \in Seq(Units)
      BY Zenon, <2>2, <3>1 DEF OwnerTexts
    <3>3. [bytes |-> text, stamp |-> s] \in File
      BY <2>2, <3>2 DEF File
    <3>4. Owner \notin Temps
      BY NamesDiffer DEF Temps
    <3> QED BY <1>0, <2>2, <3>3, <3>4 DEF Typed
  <2> QED BY Zenon, <2>1, <2>2 DEF OwnerChanges
<1>2. dst' \notin Temps
  BY <1>1, NamesDiffer DEF Temps
<1>3. ASSUME NEW w \in Workers
      PROVE  /\ work'[w] \in Work
             /\ work'[w].op = work[w].op /\ work'[w].temp = work[w].temp
             /\ work'[w].pc = work[w].pc /\ work'[w].prev = work[w].prev
             /\ work'[w].off = work[w].off /\ work'[w].units = work[w].units
             /\ work[w].pc \notin Outcomes \cup {"idle"} => work'[w].raced = Aspects
             /\ work[w] = Idle => work'[w] = Idle
  <2> DEFINE c == work[w]
             d == work'[w]
             r == IF c.pc \in Outcomes \cup {"idle"} THEN {} ELSE Aspects
  <2>1. c \in Work /\ d = [c EXCEPT !.raced = r]
    BY Zenon, <1>0 DEF Typed
  <2>2. /\ r \in SUBSET Aspects /\ (c.pc \notin Outcomes \cup {"idle"} => r = Aspects)
        /\ (c.pc = "idle" => r = {})
    OBVIOUS
  <2> HIDE DEF c, d, r
  <2>3. /\ d \in Work /\ d.op = c.op /\ d.temp = c.temp /\ d.pc = c.pc /\ d.prev = c.prev
        /\ d.off = c.off /\ d.units = c.units /\ d.raced = r
    BY <2>1, <2>2 DEF Work
  <2>4. ASSUME c = Idle PROVE d = Idle
    <3>1. d = [Idle EXCEPT !.raced = {}]
      BY Zenon, <2>1, <2>2, <2>4 DEF Idle
    <3> QED BY Zenon, <3>1 DEF Idle
  <2> USE DEF c, d
  <2> QED BY Zenon, <2>2, <2>3, <2>4
<1>4. work' \in [Workers -> Work]
  <2>1. work' = [w \in Workers |-> work'[w]]
    BY Zenon, <1>0
  <2> QED BY Zenon, <1>3, <2>1
<1>5. Typed' /\ PublishedWhole' /\ PublishedIssued'
  <2>1. PublishedIssued'
    BY <1>2 DEF PublishedIssued, Temps
  <2> QED BY <1>0, <1>1, <1>2, <1>4, <2>1 DEF Typed, PublishedWhole
<1>6. Exclusive'
  <2>1. busy' = busy /\ \A w \in Workers : work'[w].pc = work[w].pc
    BY Zenon, <1>0, <1>3
  <2>2. Exclusive
    BY <1>0
  <2> QED BY Zenon, <2>1, <2>2 DEF Exclusive
<1>7. ASSUME NEW w \in Workers PROVE Bound(w)' /\ Established(w)'
  <2>1. Bound(w) /\ Established(w)
    BY DEF FilesInv
  <2> DEFINE c == work[w]
             d == work'[w]
  <2>2. /\ d.op = c.op /\ d.temp = c.temp /\ d.pc = c.pc /\ d.prev = c.prev /\ d.off = c.off
        /\ d.units = c.units /\ (c.pc \notin Outcomes \cup {"idle"} => d.raced = Aspects)
        /\ (c = Idle => d = Idle)
    BY Zenon, <1>3
  <2>3. CASE c.pc = "idle"
    BY Zenon, <2>1, <2>2, <2>3, IdleSound DEF Established
  <2>4. Bound(w)'
    <3> HIDE DEF d
    <3>1. ticket' = ticket /\ caller' = caller
      BY <1>0
    <3> QED BY Zenon, <2>1, <2>2, <3>1 DEF Bound, Issued, d
  <2>5. CASE c.pc \in Outcomes
    <3>1. d.pc \in Plain
      BY Zenon, <2>2, <2>5, OutcomesPlain
    <3>2. Established(w)'
      BY Zenon, <3>1 DEF Established, At, Plain, Verified
    <3> QED BY <2>4, <3>2
  <2>6. CASE c.pc \notin Outcomes \cup {"idle"}
    <3>1. "bytes" \in d.raced /\ "stamp" \in d.raced /\ d.pc # "idle"
      BY <2>2, <2>6 DEF Aspects
    <3>2. d.op = "chunk" /\ d.pc = "offset" => ChunkFits(d.temp, d.off, d.units)
      BY Zenon, <2>1, <2>2 DEF Established, At, ChunkFits
    <3>3. d.op = "chunk" /\ d.pc = "write" => dst' # d.temp /\ d.off = Len(data'[d.temp].bytes)
      <4>1. c.op = "chunk" => c.temp \in Temps
        BY Zenon, <2>1 DEF Bound, Temps, TicketOps
      <4> QED BY Zenon, <1>1, <1>2, <2>1, <2>2, <4>1 DEF Established, At
    <3>4. d.pc \in Verified =>
            d.op \in {"complete", "save", "put"} /\ data'[d.temp].bytes = Want(d.temp)
      <4>1. c.op \in {"complete", "save", "put"} => c.temp \in Temps
        BY <2>1 DEF Bound, Temps, TicketOps
      <4> QED BY Zenon, <1>1, <2>1, <2>2, <4>1 DEF Established
    <3>5. /\ d.pc = "unchanged" => d.op = "complete" /\ d.prev # Nothing
          /\ d.op = "complete" /\ d.pc = "commit" => d.prev.stamp = None
          /\ d.pc = "replace" => d.prev.stamp # None
          /\ d.pc = "entry" => d.op = "archive"
      BY Zenon, <2>1, <2>2 DEF Established, At
    <3>6. Established(w)'
      BY Zenon, <3>1, <3>2, <3>3, <3>4, <3>5 DEF Established, At, ChunkFits, Want, Saw
    <3> QED BY <2>4, <3>6
  <2> QED BY <2>3, <2>5, <2>6
<1> QED BY <1>5, <1>6, <1>7 DEF FilesInv

(* Before the first request *)
LEMMA FilesInit == Init => FilesInv
<1> SUFFICES ASSUME Init PROVE FilesInv
  OBVIOUS
<1>1. \A w \in Workers : work[w] = Idle
  BY DEF Init
<1>2. work \in [Workers -> Work]
  BY IdleWork DEF Init
<1>3. data \in [Temps \cup {Owner} -> File]
  <2>1. <<Owner>> \in Seq(Units) /\ Empty \in File
    BY DEF Units, Empty, File, Stamps
  <2>2. [bytes |-> <<Owner>>, stamp |-> 1] \in File
    BY <2>1 DEF File, Stamps
  <2> QED BY <2>1, <2>2 DEF Init
<1>4. dst \notin Temps
  BY NamesDiffer DEF Init, Temps
<1>5. Typed /\ PublishedWhole /\ PublishedIssued
  BY Zenon, <1>2, <1>3, <1>4 DEF Init, Typed, PublishedWhole, PublishedIssued, Temps
<1>6. Exclusive
  <2>1. busy = FALSE /\ \A w \in Workers : work[w].pc = "idle"
    BY <1>1 DEF Init, Idle
  <2> QED BY <2>1 DEF Exclusive
<1>7. ASSUME NEW w \in Workers PROVE Bound(w) /\ Established(w)
  <2>1. Idle.op = "none" /\ Idle.pc = "idle"
    BY DEF Idle
  <2>2. work[w] = Idle /\ work[w].op = "none" /\ work[w].pc = "idle"
    BY Zenon, <1>1, <2>1
  <2> QED BY Zenon, <2>2 DEF Bound, Established, At, TicketOps, Verified
<1> QED BY <1>5, <1>6, <1>7 DEF FilesInv

(* Every step of the server's file operations keeps the invariant. *)
LEMMA FilesStep == FilesInv /\ [Next]_vars => FilesInv'
<1> SUFFICES ASSUME FilesInv, [Next]_vars PROVE FilesInv'
  OBVIOUS
<1>1. ASSUME NEW w \in Workers, WorkerStep(w) PROVE FilesInv'
  <2>1. CASE \/ Break(w) \/ CheckOffset(w) \/ UploadStatus(w) \/ VerifyUpload(w)
             \/ ReadText(w) \/ List(w) \/ Compare(w) \/ Copy(w)
    BY Zenon, <2>1, LookSteps
  <2>2. CASE \/ PendingDestination(w, TRUE) \/ PendingDestination(w, FALSE)
             \/ HashPrevious(w) \/ CheckUnchanged(w) \/ Inspect(w) \/ Scan(w) \/ HashDownload(w)
    <3>1. TRUE \in BOOLEAN /\ FALSE \in BOOLEAN
      OBVIOUS
    <3> QED BY Zenon, <2>2, <3>1, RememberSteps
  <2>3. CASE CreateTemporary(w) \/ WriteChunk(w) \/ CancelUpload(w)
    BY Zenon, <2>3, UploadSteps
  <2>4. CASE WriteTemporary(w) \/ ReadTextAgain(w) \/ CheckDestination(w)
    BY Zenon, <2>4, WriteSteps
  <2>5. CASE Link(w) \/ Unlink(w) \/ Rename(w) \/ PosixRename(w) \/ Remove(w) \/ Move(w)
    BY Zenon, <2>5, PublishSteps
  <2> QED BY Zenon, <1>1, <2>1, <2>2, <2>3, <2>4, <2>5 DEF WorkerStep
<1>2. ASSUME NEW w \in Workers, NEW op \in Requests, Begin(w, op) PROVE FilesInv'
  BY Zenon, <1>2, BeginStep
<1>3. ASSUME NEW w \in Workers, Leave(w) PROVE FilesInv'
  BY Zenon, <1>3, LeaveStep
<1>4. ASSUME NEW w \in Workers, Settle(w) PROVE FilesInv'
  BY Zenon, <1>4, SettleStep
<1>5. CASE OwnerChanges
  BY Zenon, <1>5, OwnerChangesStep
<1>6. CASE UNCHANGED vars
  <2>1. /\ dst' = dst /\ there' = there /\ data' = data /\ ticket' = ticket
        /\ busy' = busy /\ work' = work /\ caller' = caller
    BY <1>6 DEF vars
  <2>2. Typed' /\ Exclusive' /\ PublishedWhole' /\ PublishedIssued'
    BY Zenon, <2>1 DEF FilesInv, Typed, Exclusive, PublishedWhole, PublishedIssued
  <2>3. ASSUME NEW w \in Workers PROVE Bound(w)' /\ Established(w)'
    <3>1. Bound(w) /\ Established(w)
      BY DEF FilesInv
    <3>2. Bound(w)'
      BY <2>1, <3>1 DEF Bound, Issued
    <3>3. Established(w)'
      BY Zenon, <2>1, <3>1 DEF Established, At, Version, Saw
    <3> QED BY <3>2, <3>3
  <2> QED BY <2>2, <2>3 DEF FilesInv
<1> QED BY Zenon, <1>1, <1>2, <1>3, <1>4, <1>5, <1>6 DEF Next

----------------------------------------------------------------------------
(* SFTPService.withClient: however requests, cancellations, broken connections and the
   owner's changes interleave, a server is reserved exactly while one worker may still
   make a call on it, also after the request was answered. *)
THEOREM OneOperationPerServer == Spec => []Reservation
<1>1. FilesInv => Reservation
  <2> SUFFICES ASSUME FilesInv PROVE Reservation
    OBVIOUS
  <2> DEFINE A == {w \in Workers : work[w].pc # "idle"}
  <2>1. Typed /\ Exclusive
    BY DEF FilesInv
  <2>2. Cardinality(A) = IF busy THEN 1 ELSE 0
    <3>1. CASE busy
      <4>1. PICK w \in Workers : work[w].pc # "idle"
        BY <2>1, <3>1 DEF Exclusive
      <4>2. A = {w}
        BY <2>1, <4>1 DEF Exclusive
      <4> QED BY Zenon, <3>1, <4>2, FS_Singleton
    <3>2. CASE ~busy
      <4>1. A = {}
        BY <2>1, <3>2 DEF Exclusive
      <4> QED BY <3>2, <4>1, FS_EmptySet
    <3> QED BY <3>1, <3>2
  <2> QED BY <2>1, <2>2 DEF Reservation, Typed
<1> QED BY <1>1, FilesInit, FilesStep, PTL DEF Spec

(* CompleteUpload, Upload and SaveText: a file that Talus published is whole, and stays
   so although its temporary name may remain. *)
THEOREM PublishedStaysWhole == Spec => []PublishedWhole
<1>1. FilesInv => PublishedWhole
  BY DEF FilesInv
<1> QED BY <1>1, FilesInit, FilesStep, PTL DEF Spec

(* Only posix-rename puts a temporary file in the place of another file: hard links and
   plain renames find the destination empty, and no other call publishes. *)
LEMMA ReplacedByRename ==
  ASSUME FilesInv, [Next]_vars, NEW t \in Temps, dst \notin {None, t}, dst' = t
  PROVE  \E w \in Workers : PosixRename(w) /\ work[w].temp = t
<1>0. dst' # dst /\ dst' \notin {None, Owner} /\ dst # None
  BY NamesDiffer DEF Temps
<1>1. ~ OwnerChanges /\ ~ UNCHANGED vars
  BY <1>0 DEF OwnerChanges, vars
<1>2. ASSUME NEW w \in Workers
      PROVE  /\ ~ \E op \in Requests : Begin(w, op)
             /\ ~ Leave(w) /\ ~ Settle(w)
  BY <1>0 DEF Begin, Leave, Settle, files
<1>3. PICK w \in Workers : WorkerStep(w)
  BY Zenon, <1>1, <1>2 DEF Next
<1>4. /\ ~ \E o \in BOOLEAN : PendingDestination(w, o)
      /\ ~ HashPrevious(w) /\ ~ CreateTemporary(w) /\ ~ CheckOffset(w) /\ ~ UploadStatus(w)
      /\ ~ VerifyUpload(w) /\ ~ CheckUnchanged(w) /\ ~ CancelUpload(w) /\ ~ ReadText(w)
  BY Zenon, <1>0 DEF PendingDestination, HashPrevious, CreateTemporary, CheckOffset,
       UploadStatus, VerifyUpload, CheckUnchanged, CancelUpload, ReadText, files
<1>5. ~ WriteChunk(w) /\ ~ WriteTemporary(w) /\ ~ ReadTextAgain(w) /\ ~ CheckDestination(w)
  BY Zenon, <1>0 DEF WriteChunk, WriteTemporary, ReadTextAgain, CheckDestination, Discards,
       Abort, files
<1>6. /\ ~ List(w) /\ ~ Inspect(w) /\ ~ Scan(w) /\ ~ HashDownload(w) /\ ~ Compare(w)
      /\ ~ Copy(w) /\ ~ Break(w) /\ ~ Unlink(w)
  BY Zenon, <1>0 DEF List, Inspect, Scan, Remember, HashDownload, Compare, Copy, Break, Unlink,
       files
<1>7. ~ Link(w) /\ ~ Rename(w) /\ ~ Remove(w) /\ ~ Move(w)
  BY Zenon, <1>0 DEF Link, Rename, Remove, Move, MayPublish, Discards, Abort, files
<1>8. PosixRename(w)
  BY Zenon, <1>3, <1>4, <1>5, <1>6, <1>7 DEF WorkerStep
<1>9. work[w].temp = t
  BY Zenon, <1>0, <1>8 DEF PosixRename, files
<1> QED BY <1>8, <1>9

(* CompleteUpload, SaveText, Upload and DownloadRange: whatever else happens on the
   server, a file is replaced only if it is the version the client saw when it started,
   and a download delivers the version its ETag names.  What the host's owner changes
   between the last comparison (of the attributes, or of the content) and the call is
   the only exception. *)
THEOREM ReplacesWhatItSaw == Spec => ReplacesOnlyWhatItSaw
<1>1. ASSUME FilesInv, [Next]_vars
      PROVE  [/\ \A t \in Temps : dst \notin {None, t} /\ dst' = t =>
                   \E w \in Workers : LET c == work[w]
                                      IN c.temp = t /\ c.prev.stamp # None /\ Saw(c)
              /\ \A w \in Workers :
                   At(w, "download", "copy") /\ work'[w].pc = "ok" => Saw(work[w])]_vars
  <2>1. ASSUME NEW t \in Temps, dst \notin {None, t}, dst' = t
        PROVE  \E w \in Workers : /\ work[w].temp = t /\ work[w].prev.stamp # None
                                  /\ Saw(work[w])
    <3>1. PICK w \in Workers : PosixRename(w) /\ work[w].temp = t
      BY Zenon, <1>1, <2>1, ReplacedByRename
    <3>2. Established(w) /\ work[w].pc = "replace"
      BY <1>1, <3>1 DEF FilesInv, PosixRename
    <3> QED BY Zenon, <3>1, <3>2 DEF Established
  <2>2. ASSUME NEW w \in Workers, At(w, "download", "copy")
        PROVE  Saw(work[w])
    BY Zenon, <1>1, <2>2 DEF FilesInv, Established, At
  <2> QED BY Zenon, <2>1, <2>2
<1> QED BY <1>1, FilesInit, FilesStep, PTL DEF Spec, ReplacesOnlyWhatItSaw
=============================================================================
