------------------------------ MODULE DirSlots ------------------------------
(***************************************************************************)
(* The slots of one FAT32 directory (src/kernel/fat32.c) and a listing of  *)
(* it (dirnext() and get_next_dirent() of src/kernel/file.c).  A file is a *)
(* run of slots: its long name, 13 characters a slot, last piece first,    *)
(* and then the short entry that holds its size and cluster.  Offsets      *)
(* count slots.  Creation, removal and lseek() hold the lock of the        *)
(* directory throughout, so each is one action.  A listing advances f->off *)
(* for the last time after eunlock(): its steps interleave with the others.*)
(*                                                                         *)
(* Of a name only what the slots depend on is kept: its number of pieces,  *)
(* its short name and what formatname() makes of it; the checksum, which   *)
(* nothing in the kernel reads, is left out.                               *)
(***************************************************************************)
EXTENDS Integers, Sequences, FiniteSets

CONSTANTS Given,        \* names that callers pass
          Formatted,    \* Formatted[g]: g without its blanks, or NULL if it is illegal
          NULL,
          Pieces,       \* Pieces[n]: strlen(n) / CHAR_LONG_NAME, rounded up
          Short,        \* Short[n]: the 8.3 name; several names may share one
          PerCluster,   \* slots in a cluster
          Readers,      \* processes that share the open directory (fork, dup)
          Rooms,        \* records that a buffer of getdents64() has room for
          MaxSlots,     \* bound on the size of the directory
          MaxCalls      \* bound on the calls

Names == {Formatted[g] : g \in Given} \ {NULL}

ASSUME NamesAssumption ==
    /\ DOMAIN Formatted = Given
    /\ Pieces \in [Names -> Nat \ {0}] /\ DOMAIN Short = Names
    /\ PerCluster \in Nat \ {0} /\ MaxSlots \in Nat /\ MaxCalls \in Nat

VARIABLES slots,        \* the directory file, in slots
          lock,         \* dp->lock: the listing call that holds it, or NULL
          pos,          \* f->off of the open directory, which the readers share
          reader,       \* reader[r]: what r's call of dirnext() or get_next_dirent() is at
          listing,      \* what the listing has returned: names as enext() builds them;
                        \* empty once it is spoiled
          steady,       \* the names that are live since the listing began
          ended,        \* the listing has met the end
          spoiled,      \* an entry did not reach the user (no room, or copyout() failed),
                        \* or a call used f->off while another had still to add to it
          live,         \* the files created and not removed
          calls

listVars == <<lock, pos, reader, listing, ended, spoiled>>
dirVars == <<slots, steady, live, calls, listVars>>

---------------------------------------------------------------------------
END_OF_ENTRY == [kind |-> "end"]
EMPTY_ENTRY == [kind |-> "empty"]
formatname(g) == Formatted[g]
generate_shortname(n) == Short[n]
Lne(n, i) == [kind |-> "long", name |-> n, order |-> i, last |-> i = Pieces[n]]
Sne(n) == [kind |-> "short", name |-> generate_shortname(n)]
Dot(n) == [kind |-> "short", name |-> n]
Dots == {".", ".."}

\* The slot at an offset; reloc_clus() finds no cluster behind the last one.
At(s, o) == IF o < Len(s) THEN s[o + 1] ELSE END_OF_ENTRY

\* How many slots of one kind there are from o on.
Run(s, o, kind) ==
    CHOOSE k \in 0 .. Len(s) : /\ \A i \in 0 .. k - 1 : At(s, o + i).kind = kind
                               /\ At(s, o + k).kind # kind

\* ep->filename after read_entry_name() on every slot of a file.
LongName(n) == [i \in 1 .. Pieces[n] |-> n]
ShortName(n) == <<"8.3", n>>

\* enext(): a file, a run of empty slots, or the end.  *count stays as it is
\* at the end.  A long slot before an empty one would be written through
\* a null count ("fault").  LAST_LONG_ENTRY decides whether the long name or
\* the short one counts.
enext(s, o) ==
    LET hole == Run(s, o, "empty")
        longs == Run(s, o, "long")
        stop == At(s, o + hole + longs).kind
        has == \E i \in 0 .. longs - 1 : At(s, o + i).last
        order == At(s, o).order
        frag(i) == At(s, o + longs - i).name
    IN  CASE hole > 0 /\ At(s, o + hole).kind = "end" -> [ret |-> "end"]
          [] hole > 0 /\ At(s, o + hole).kind # "end" -> [ret |-> "hole", count |-> hole, name |-> <<>>]
          [] hole = 0 /\ stop = "end" -> [ret |-> "end"]
          [] hole = 0 /\ stop = "empty" -> [ret |-> "fault"]
          [] hole = 0 /\ stop = "short" /\ has ->
               [ret |-> "file", count |-> order + 1, name |-> [i \in 1 .. order |-> frag(i)]]
          [] OTHER -> [ret |-> "file", count |-> 1, name |-> ShortName(At(s, o + longs).name)]

\* As written, type = (enext() != -1) is never 0: an empty run is compared
\* like a file whose name is empty, and *poff is the offset of the end.
dirlookup(s, n) ==
    LET scan[o \in 0 .. 2 * Len(s)] ==
            LET e == enext(s, o)
            IN  CASE e.ret = "end" -> [found |-> FALSE, off |-> o]
                  [] e.ret = "fault" -> [found |-> FALSE, off |-> -1]
                  [] e.ret \in {"hole", "file"} /\ e.name = LongName(n) -> [found |-> TRUE, off |-> o]
                  [] OTHER -> scan[o + e.count]
    IN  scan[0]

\* reloc_clus(dp, off, 1): whole clusters of zeros are added.
Extended(s, size) ==
    LET clusters == (size + PerCluster - 1) \div PerCluster
    IN  [i \in 1 .. (IF size <= Len(s) THEN Len(s) ELSE clusters * PerCluster) |->
            IF i <= Len(s) THEN s[i] ELSE END_OF_ENTRY]

\* emake(): the pieces in descending order, then the short entry.
emake(s, o, n) ==
    [i \in DOMAIN Extended(s, o + Pieces[n] + 1) |->
        CASE i - 1 \in o .. o + Pieces[n] - 1 -> Lne(n, Pieces[n] - (i - 1 - o))
          [] i - 1 = o + Pieces[n] -> Sne(n)
          [] OTHER -> At(s, i - 1)]

\* Variant: the last slot of the file, its short name, stays.
veremove(s, o) ==
    [i \in DOMAIN s |-> IF i - 1 \in o .. o + At(s, o).order - 1 THEN EMPTY_ENTRY ELSE s[i]]

\* eremove(): the first slot says how many there are.
eremove(s, o) ==
    [i \in DOMAIN s |-> IF i - 1 \in o .. o + At(s, o).order THEN EMPTY_ENTRY ELSE s[i]]

---------------------------------------------------------------------------
Counted == calls < MaxCalls /\ calls' = calls + 1

\* ealloc(): the entry that exists, or a new one; no entry for an illegal name.
ealloc(g) ==
    /\ Counted /\ lock = NULL
    /\ \E n \in {formatname(g)} \ {NULL} : \E d \in {dirlookup(slots, n)} :
        /\ d.off + Pieces[n] + 1 <= MaxSlots
        /\ slots' = IF d.found THEN slots ELSE emake(slots, d.off, n)
        /\ live' = live \cup {n}
        /\ steady' = IF pos = 0 /\ ~ended THEN live' ELSE steady
        /\ UNCHANGED listVars

\* dirlookup() and eremove() of unlink and rename, which do not format names.
remove(g) ==
    /\ Counted /\ lock = NULL
    /\ \E n \in {g} \cap Names : \E d \in {dirlookup(slots, n)} :
        /\ d.found
        /\ slots' = eremove(slots, d.off)
        /\ live' = live \ {n}
        /\ steady' = steady \ {n}
        /\ UNCHANGED listVars

\* What the listing is after names reached the user, or one was lost.
Listed(names, lost) ==
    /\ spoiled' = (spoiled \/ lost)
    /\ listing' = IF spoiled' THEN <<>> ELSE listing \o names

Idle == [call |-> "none", at |-> "user", ret |-> "end", count |-> 0, base |-> 0,
         name |-> <<>>, names |-> <<>>, room |-> 0]

\* The calls that have released the lock and will still add to f->off.
Adding == {r \in Readers : reader[r].at \in {"load", "store"} /\ lock # r}

\* lseek() to the start: a new listing begins.
rewind ==
    /\ Counted /\ lock = NULL
    /\ pos # 0
    /\ pos' = 0 /\ listing' = <<>> /\ steady' = live /\ ended' = FALSE
    /\ spoiled' = (Adding # {})
    /\ UNCHANGED <<slots, live, lock, reader>>

\* A listing call takes the lock of the directory.
ListCall(r, call, room) ==
    /\ Counted /\ lock = NULL /\ reader[r].at = "user"
    /\ lock' = r
    /\ reader' = [reader EXCEPT ![r] = [Idle EXCEPT !.call = call, !.at = "enext", !.room = room]]
    /\ Listed(<<>>, Adding # {})
    /\ UNCHANGED <<slots, pos, steady, ended, live>>

dirnext(r) == ListCall(r, "dirnext", 1)

\* getdents64() with room for n records.
get_next_dirent(r, n) == ListCall(r, "getdents", n)

Return(r) == reader' = [reader EXCEPT ![r] = Idle]

\* One enext() of a listing, at f->off.  dirnext() unlocks when it has met a
\* file or the end; get_next_dirent() adds the old count again at the end.
scan(r) ==
    /\ reader[r].at = "enext"
    /\ \E e \in {enext(slots, pos)} :
        /\ e.ret # "fault"
        /\ reader' = [reader EXCEPT ![r] =
               CASE e.ret # "end" -> [@ EXCEPT !.at = "load", !.ret = e.ret, !.count = e.count, !.name = e.name]
                 [] e.ret = "end" /\ @.call = "getdents" -> [@ EXCEPT !.at = "load", !.ret = "end"]
                 [] e.ret = "end" /\ @.call = "dirnext" -> Idle]
        /\ lock' = IF reader[r].call = "dirnext" /\ e.ret # "hole" THEN NULL ELSE r
        /\ ended' = (ended \/ e.ret = "end")
    /\ UNCHANGED <<slots, pos, listing, steady, spoiled, live, calls>>

\* f->off += count * 32 is a load and a store that no lock joins once the call
\* has unlocked the directory.
load(r) ==
    /\ reader[r].at = "load"
    /\ reader' = [reader EXCEPT ![r].at = "store", ![r].base = pos]
    /\ UNCHANGED <<slots, lock, pos, listing, steady, ended, spoiled, live, calls>>

\* Variant: the offset moves one slot too far.
vAdvanced(r) == reader[r].base + reader[r].count + 1

Advanced(r) == reader[r].base + reader[r].count

\* Behind a hole the loop goes on.
store_hole(r) ==
    /\ reader[r].at = "store" /\ reader[r].ret = "hole"
    /\ pos' = Advanced(r)
    /\ reader' = [reader EXCEPT ![r].at = "enext"]
    /\ UNCHANGED <<slots, lock, listing, steady, ended, spoiled, live, calls>>

\* dirnext() has found a file: the offset has moved when copyout() fails.
store_next(r) ==
    /\ reader[r].at = "store" /\ reader[r].ret = "file" /\ reader[r].call = "dirnext"
    /\ pos' = Advanced(r)
    /\ \E ok \in BOOLEAN : Listed(<<reader[r].name>>, ~ok)
    /\ Return(r)
    /\ UNCHANGED <<slots, lock, steady, ended, live, calls>>

\* get_next_dirent() has found a file: one without room ends the loop, and
\* once the directory is unlocked its slots are added again; when copyout()
\* fails the records before are lost to the caller as well.
store_record(r) ==
    /\ reader[r].at = "store" /\ reader[r].ret = "file" /\ reader[r].call = "getdents"
    /\ pos' = Advanced(r)
    /\ \/ /\ reader[r].room = 0
          /\ reader' = [reader EXCEPT ![r].at = "load", ![r].ret = "full"]
          /\ lock' = NULL /\ UNCHANGED <<listing, spoiled>>
       \/ /\ reader[r].room > 0
          /\ reader' = [reader EXCEPT ![r].at = "enext", ![r].room = @ - 1,
                                      ![r].names = Append(@, reader[r].name)]
          /\ UNCHANGED <<lock, listing, spoiled>>
       \/ /\ reader[r].room > 0
          /\ Return(r) /\ lock' = NULL /\ Listed(<<>>, TRUE)
    /\ UNCHANGED <<slots, steady, ended, live, calls>>

\* The last addition of get_next_dirent(): at the end under the lock, and
\* behind a record without room after eunlock().
store_last(r) ==
    /\ reader[r].at = "store" /\ reader[r].ret \in {"end", "full"}
    /\ pos' = Advanced(r)
    /\ Listed(reader[r].names, reader[r].ret = "full")
    /\ lock' = IF lock = r THEN NULL ELSE lock
    /\ Return(r)
    /\ UNCHANGED <<slots, steady, ended, live, calls>>

---------------------------------------------------------------------------
\* A directory that mkdir has made: ealloc() writes "." and "..".
DirInit ==
    /\ slots = Extended(<<Dot("."), Dot("..")>>, PerCluster)
    /\ pos = 0 /\ listing = <<>> /\ steady = {} /\ ended = FALSE
    /\ lock = NULL /\ reader = [r \in Readers |-> Idle] /\ spoiled = FALSE
    /\ live = {} /\ calls = 0

DirNext ==
    \/ \E g \in Given : ealloc(g) \/ remove(g)
    \/ rewind
    \/ \E r \in Readers :
         \/ dirnext(r) \/ scan(r) \/ load(r)
         \/ store_hole(r) \/ store_next(r) \/ store_record(r) \/ store_last(r)
         \/ \E n \in Rooms : get_next_dirent(r, n)

DirSpec == DirInit /\ [][DirNext]_dirVars

---------------------------------------------------------------------------
Times(x) == Cardinality({i \in DOMAIN listing : listing[i] = x})

\* The names of a directory, entry by entry.
Scanned(s) ==
    LET from[o \in Nat] ==
            LET e == enext(s, o)
            IN  CASE e.ret \in {"end", "fault"} -> <<>>
                  [] e.ret = "hole" -> from[o + e.count]
                  [] e.ret = "file" -> <<e.name>> \o from[o + e.count]
    IN  from[0]

Exact(s, files) ==
    /\ \A n \in Names : dirlookup(s, n).found = (n \in files)
    /\ LET all == Scanned(s)
       IN  /\ Len(all) = Cardinality(files) + 2
           /\ {all[i] : i \in DOMAIN all} = {ShortName(d) : d \in Dots} \cup {LongName(n) : n \in files}

\* After every step the directory holds exactly the files that ealloc() has
\* made and eremove() has not removed: dirlookup() finds each of them and no
\* other, and a scan by enext() meets each once and nothing else.  Files of
\* different lengths written over the remains of others at the end leave no
\* piece behind.
HoldsExactly ==
    [][<<slots, live>>' # <<slots, live>> => Exact(slots', live')]_dirVars

\* A listing that runs to the end names each file that is there all the time
\* exactly once, whatever is created and removed between its calls and between
\* the eunlock() of a call and its last addition to f->off, and whichever of
\* the processes that share the open directory makes the next call; unless an
\* entry did not fit or was not copied.  The exception of the code: the
\* addition that follows eunlock() is joined to nothing, so when a call or
\* lseek() uses f->off before the addition of another, names come twice and
\* others not at all.
ListingComplete ==
    ended /\ ~spoiled /\ (\A r \in Readers : reader[r].at = "user") =>
        \A n \in steady : Times(LongName(n)) = 1

=============================================================================
