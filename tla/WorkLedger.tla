------------------------------ MODULE WorkLedger ------------------------------
(***************************************************************************)
(* saleha/core/verification/work_ledger.py: the hash-chained file of work  *)
(* records, the external anchor of its hashes, and verify().  Processes    *)
(* load the file once, when they construct WorkLedger, and append to it    *)
(* later; proof_receipt.py runs the test suite in between.                 *)
(*                                                                         *)
(* SHA-256 has no collisions: a hash is what was hashed, the contents of   *)
(* the entry and of all those it stands on.  A line may be lost or altered *)
(* by hand, by a merge or by the disk, and whoever holds the file may drop *)
(* lines, move or repeat them, renumber what is left and compute the chain *)
(* again; a process may stop at any point.                                 *)
(***************************************************************************)
EXTENDS Integers, Sequences

CONSTANTS
  Writers,         \* processes holding a WorkLedger on the same path
  Commits,         \* values of git HEAD
  NoGit,           \* a tree digest without a commit: git could not answer
  Ancestors,       \* pairs <<a, b>>: git merge-base --is-ancestor a b exits 0
  NoEntry,         \* nothing waits to be anchored
  MaxRecords,      \* bound of the entries ever written
  MaxAccidents     \* bound of the lines lost, altered, half written, re-chained

ASSUME LedgerAssumption ==
  /\ MaxRecords \in Nat /\ MaxAccidents \in Nat
  /\ NoGit \notin Commits
  /\ \A c \in Commits : <<c, c>> \in Ancestors

VARIABLES
  file,        \* the lines of the ledger file
  unended,     \* its last line has no newline
  open,        \* processes holding a WorkLedger
  mem,         \* WorkLedger._entries of each
  pending,     \* the entry appended by _record and not yet given to _anchor
  anchors,     \* work_ledger.entry events of the kernel ledger, outside the repo
  recorded,    \* history: the entries written whole, in order
  basis,       \* history: _entries of the writer when it recorded each of them
  undisturbed, \* history: every record continued the whole file; nothing was lost
  accidents    \* bound

vars == <<file, unended, open, mem, pending, anchors, recorded, basis,
          undisturbed, accidents>>

\* A hash: the contents it is of.  The claim of an entry is a number, and its commit
\* apart; a record takes the next number (Claim.at is the time it was made).
Forged == 0      \* a claim no process has recorded
Claims == {Forged} \cup 1 .. MaxRecords
Content == [seq : Nat, claim : Claims, commit : Commits \cup {NoGit}]
GENESIS == <<>>

\* An Entry, as written: with the hash of its content and of what it stands on.
Entry == [seq : Nat, claim : Claims, commit : Commits \cup {NoGit},
          prev : Seq(Content), hash : Seq(Content)]
ContentOf(e) == [seq |-> e.seq, claim |-> e.claim, commit |-> e.commit]
HashOf(e) == Append(e.prev, ContentOf(e))
Signed(seq, claim, commit, prev) ==
  LET e == [seq |-> seq, claim |-> claim, commit |-> commit, prev |-> prev, hash |-> <<>>]
  IN  [e EXCEPT !.hash = HashOf(e)]

\* An unreadable line is an entry numbered -1, with an empty hash.
Corrupt == [seq |-> -1, claim |-> Forged, commit |-> NoGit, prev |-> <<>>, hash |-> <<>>]
Lines == Entry \cup {Corrupt}

Init ==
  /\ file = <<>> /\ unended = FALSE
  /\ open = {} /\ mem = [w \in Writers |-> <<>>]
  /\ pending = [w \in Writers |-> NoEntry]
  /\ anchors = <<>>
  /\ recorded = <<>> /\ basis = <<>>
  /\ undisturbed = TRUE /\ accidents = 0

\* head_hash: the hash of the last entry that has one.
HeadHash(entries) ==
  LET hashed == {i \in DOMAIN entries : entries[i].hash # <<>>}
  IN  IF hashed = {} THEN GENESIS
      ELSE entries[CHOOSE i \in hashed : \A j \in hashed : j <= i].hash

\* The entry _record makes of what it has loaded and of HEAD.
NewEntry(entries, c) ==
  Signed(Len(entries), Len(recorded) + 1, c, HeadHash(entries))

\* Text appended to the file: it lengthens a last line that has no newline, and two
\* objects on one line are no JSON.
WithLine(line) ==
  IF unended THEN [file EXCEPT ![Len(file)] = Corrupt] ELSE Append(file, line)

\* Consecutive entries that have commits are in the order of history.
InOrder(entries) ==
  \A i, j \in DOMAIN entries :
    /\ i < j /\ entries[i].commit # NoGit /\ entries[j].commit # NoGit
    /\ \A k \in DOMAIN entries : i < k /\ k < j => entries[k].commit = NoGit
    => <<entries[i].commit, entries[j].commit>> \in Ancestors

\* The constructor: _load.
Open(w) ==
  /\ w \notin open
  /\ open' = open \cup {w}
  /\ mem' = [mem EXCEPT ![w] = file]
  /\ UNCHANGED <<file, unended, pending, anchors, recorded, basis, undisturbed, accidents>>

\* What the history says of a record: undisturbed while each is made of, and appended
\* to, the whole file.
Recorded(w, e) ==
  /\ recorded' = Append(recorded, e)
  /\ basis' = Append(basis, mem[w])
  /\ undisturbed' = (undisturbed /\ ~unended /\ mem[w] = file)

\* _record up to _anchor, with HEAD at c.
Record(w, c) ==
  LET e == NewEntry(mem[w], c)
  IN  /\ w \in open /\ pending[w] = NoEntry
      /\ Len(recorded) < MaxRecords
      /\ file' = WithLine(e) /\ unended' = FALSE
      /\ mem' = [mem EXCEPT ![w] = Append(@, e)]
      /\ pending' = [pending EXCEPT ![w] = e]
      /\ Recorded(w, e)
      /\ UNCHANGED <<open, anchors, accidents>>

\* The process is gone: finished, or killed at any point.
Closed(w) ==
  /\ open' = open \ {w}
  /\ mem' = [mem EXCEPT ![w] = <<>>]
  /\ pending' = [pending EXCEPT ![w] = NoEntry]

\* The write of _append is cut short before its newline, all of the entry in the
\* file or not.
RecordCut(w, c, whole) ==
  LET e == NewEntry(mem[w], c)
  IN  /\ w \in open /\ pending[w] = NoEntry
      /\ Len(recorded) < MaxRecords /\ accidents < MaxAccidents
      /\ file' = WithLine(IF whole THEN e ELSE Corrupt) /\ unended' = TRUE
      /\ IF whole THEN Recorded(w, e)
         ELSE undisturbed' = FALSE /\ UNCHANGED <<recorded, basis>>
      /\ accidents' = accidents + 1
      /\ Closed(w)
      /\ UNCHANGED anchors

\* _anchor: the kernel appends the event, or fails and anchor_note says so.
Anchor(w, ok) ==
  /\ pending[w] # NoEntry
  /\ anchors' = IF ok
                THEN Append(anchors, [seq |-> pending[w].seq, hash |-> pending[w].hash])
                ELSE anchors
  /\ pending' = [pending EXCEPT ![w] = NoEntry]
  /\ UNCHANGED <<file, unended, open, mem, recorded, basis, undisturbed, accidents>>

\* The process ends, or is killed; what it had appended is not anchored any more.
Close(w) ==
  /\ w \in open
  /\ Closed(w)
  /\ UNCHANGED <<file, unended, anchors, recorded, basis, undisturbed, accidents>>

\* A line is lost: an edit, a merge, a truncated file.
LoseLine(i) ==
  /\ accidents < MaxAccidents
  /\ file' = [k \in 1 .. Len(file) - 1 |-> file[IF k < i THEN k ELSE k + 1]]
  /\ unended' = (unended /\ i # Len(file))
  /\ undisturbed' = FALSE
  /\ accidents' = accidents + 1
  /\ UNCHANGED <<open, mem, pending, anchors, recorded, basis>>

\* A line is altered and is still JSON: its claim is not the one recorded.
AlterLine(i) ==
  /\ accidents < MaxAccidents
  /\ file[i] # Corrupt
  /\ file' = [file EXCEPT ![i].claim = Forged]
  /\ undisturbed' = FALSE
  /\ accidents' = accidents + 1
  /\ UNCHANGED <<unended, open, mem, pending, anchors, recorded, basis>>

\* Readable lines of the file, as many as it has or fewer, in any order; one may be
\* there several times.
Selections ==
  {at \in UNION {[1 .. n -> DOMAIN file] : n \in 0 .. Len(file)} :
     \A i \in DOMAIN at : file[at[i]] # Corrupt}

\* They, numbered from 0 and with every hash computed again.
Rechained(at) ==
  LET contents == [i \in DOMAIN at |-> [ContentOf(file[at[i]]) EXCEPT !.seq = i - 1]]
  IN  [i \in DOMAIN at |->
         Signed(i - 1, contents[i].claim, contents[i].commit, SubSeq(contents, 1, i - 1))]

\* _delete_and_rechain of test_work_ledger.py, and more: what the holder of the file can
\* do with it.
Rechain(at) ==
  /\ accidents < MaxAccidents
  /\ file' = Rechained(at) /\ unended' = FALSE
  /\ undisturbed' = FALSE
  /\ accidents' = accidents + 1
  /\ UNCHANGED <<open, mem, pending, anchors, recorded, basis>>

Next ==
  \/ \E w \in Writers :
       \/ Open(w)
       \/ Close(w)
       \/ \E c \in Commits \cup {NoGit} :
            Record(w, c) \/ \E whole \in BOOLEAN : RecordCut(w, c, whole)
       \/ \E ok \in BOOLEAN : Anchor(w, ok)
  \/ \E i \in DOMAIN file : LoseLine(i) \/ AlterLine(i)
  \/ \E at \in Selections : Rechain(at)

Spec == Init /\ [][Next]_vars
-------------------------------------------------------------------------------
(* verify(recheck=False), for whoever loads the file now. *)

\* Mutant: only the last link is checked.
ChainOKLastLink(entries) ==
  entries = <<>> \/
    /\ entries[Len(entries)] # Corrupt
    /\ entries[Len(entries)].hash = HashOf(entries[Len(entries)])
    /\ entries[Len(entries)].prev =
         IF Len(entries) = 1 THEN GENESIS ELSE entries[Len(entries) - 1].hash

\* verify_chain
ChainOK(entries) ==
  \A i \in DOMAIN entries :
    /\ entries[i] # Corrupt
    /\ entries[i].prev = IF i = 1 THEN GENESIS ELSE entries[i - 1].hash
    /\ entries[i].hash = HashOf(entries[i])

\* Mutant: the sequence numbers are not looked at.
AnchorsOKUnnumbered(entries, git) == git => InOrder(entries)

\* verify_anchors: seq is dense from 0; the commits are in the order of history, or git
\* cannot be asked.
AnchorsOK(entries, git) ==
  /\ \A i \in DOMAIN entries : entries[i].seq = i - 1
  /\ git => InOrder(entries)

\* The dictionaries of verify_external_anchor: the last event, and the last line, of
\* a sequence number.
LastHash(events, seq) ==
  LET at == {i \in DOMAIN events : events[i].seq = seq}
  IN  events[CHOOSE i \in at : \A j \in at : j <= i].hash
Seqs(events) == {events[i].seq : i \in DOMAIN events}

\* Mutant: entries that were never anchored are taken for removed ones.
ExternalAnchorStrict(entries) ==
  IF Seqs(entries) = Seqs(anchors)
     /\ \A q \in Seqs(anchors) : LastHash(entries, q) = LastHash(anchors, q)
  THEN "match" ELSE "mismatch"

\* verify_external_anchor, with an anchor that the kernel can read.
ExternalAnchor(entries) ==
  IF \E q \in Seqs(anchors) :
       q \notin Seqs(entries) \/ LastHash(entries, q) # LastHash(anchors, q)
  THEN "mismatch"
  ELSE IF Seqs(entries) \ Seqs(anchors) # {} THEN "unchecked" ELSE "match"

\* Mutant: too many entries are a failure, too few are not.
VerifyAtMost(expected, git) ==
  /\ ChainOK(file)
  /\ AnchorsOK(file, git)
  /\ ExternalAnchor(file) # "mismatch"
  /\ expected >= 0 => Len(file) <= expected

\* chain_intact of verify; expected is expect_entries, or -1, and git says whether git
\* can be run.
Verify(expected, git) ==
  /\ ChainOK(file)
  /\ AnchorsOK(file, git)
  /\ ExternalAnchor(file) # "mismatch"
  /\ expected >= 0 => Len(file) = expected

-------------------------------------------------------------------------------
\* Type correctness of the file, the writers' copies and the histories; a process
\* that is gone leaves nothing behind.
LedgerTypeOK ==
  /\ file \in Seq(Lines) /\ unended \in BOOLEAN /\ (unended => file # <<>>)
  /\ open \subseteq Writers
  /\ mem \in [Writers -> Seq(Lines)]
  /\ pending \in [Writers -> Entry \cup {NoEntry}]
  /\ \A w \in Writers \ open : mem[w] = <<>> /\ pending[w] = NoEntry
  /\ anchors \in Seq([seq : Nat, hash : Seq(Content)])
  /\ recorded \in Seq(Entry) /\ Len(recorded) <= MaxRecords
  /\ basis \in Seq(Seq(Lines)) /\ Len(basis) = Len(recorded)
  /\ undisturbed \in BOOLEAN /\ accidents \in 0 .. MaxAccidents

\* What nobody disturbed (every process recorded on the whole file, though some were
\* killed between an entry and its anchor, or the kernel was missing) fails verify for
\* one reason only: its commits are not each an ancestor of the next.  That much is
\* called tampered with even when all that happened is a checkout or a rebase.
OnlyOrderIsBlamed ==
  undisturbed => \A git \in BOOLEAN : Verify(Len(recorded), git) <=> (git => InOrder(file))

\* "Held somewhere the editor does not control": a file that passes verify holds every
\* entry anchored last under its number, in its place, as it was recorded, and below it
\* exactly what its writer had loaded, if that was intact; whatever was lost, altered,
\* deleted and re-chained, or recorded from a stale copy, before or since.
AnchorsPinHistory ==
  \A git \in BOOLEAN : Verify(-1, git) =>
    \A q \in Seqs(anchors) : \E n \in DOMAIN recorded :
      /\ recorded[n].hash = LastHash(anchors, q)
      /\ q + 1 \in DOMAIN file /\ file[q + 1] = recorded[n]
      /\ ChainOK(basis[n]) => SubSeq(file, 1, q) = basis[n]

\* expect_entries "turns silent omission into a hard failure": with the number of
\* entries recorded, verify passes on a file that lacks one of them only if in its
\* place a line claims what no process recorded, or what another line claims, though
\* the chain was computed again.
CountClosesTheHole ==
  \A git \in BOOLEAN :
    Verify(Len(recorded), git) =>
      \/ \A n \in DOMAIN recorded : \E i \in DOMAIN file :
           file[i].claim = recorded[n].claim /\ file[i].commit = recorded[n].commit
      \/ \E i \in DOMAIN file : file[i].claim = Forged
      \/ \E i, j \in DOMAIN file : i # j /\ file[i].claim = file[j].claim

\* No record covers up a break: what fails passes again only when lines go, or when
\* someone computes the chain again.
BreakIsNotCovered ==
  [][ recorded' # recorded => \A git \in BOOLEAN :
        ChainOK(file)' /\ AnchorsOK(file', git) => ChainOK(file) /\ AnchorsOK(file, git) ]_vars
===============================================================================
