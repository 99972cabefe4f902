------------------------------- MODULE Files -------------------------------
(***************************************************************************)
(* The open-file table and the descriptors of the processes: file.c, the   *)
(* descriptor system calls of sysfile.c, and what fork(), exec() and       *)
(* exit() do to descriptors (proc.c, exec.c).                              *)
(*                                                                         *)
(* A descriptor table belongs to one process; the file table is changed    *)
(* under ftable.lock; so a system call is one step here.  Locking and      *)
(* blocking below this layer are in Pipe.tla (pipe contents), EntryCache   *)
(* (directory entries) and Namespace (the tree).  The name space is one    *)
(* directory, root: link says which entry a name has.  Data are sizes.     *)
(*                                                                         *)
(* Two ghost variables count references that the code drops on the floor:  *)
(* lostFile (sys_dup3, mmap) and lostEntry (sys_faccessat, sys_unlinkat    *)
(* below /tmp/testsuite-, sys_fstatat below /dev/null).  openatFd is the   *)
(* set of descriptors that sys_openat() returned and nobody marked or      *)
(* overwrote since.                                                        *)
(***************************************************************************)
EXTENDS Integers, FiniteSetsExt

CONSTANTS
    Procs, InitProc,  \* processes; the one that runs first and never exits
    NOFILE,           \* descriptors of a process
    LowLimit,         \* the file limit sys_prlimit64() can set (42)
    NFILE,            \* slots of ftable
    Pages,            \* pages that can hold a pipe
    Names, Root, Nodes, \* names in the root directory; root; other entries
    OnDemand,         \* names that sys_openat() creates unasked (/proc/mounts, ...),
    Testsuite,        \* among them those that begin with /tmp/testsuite-
    DevNull,          \* names that begin with /dev/null
    Openflags,        \* sets of open flags that are passed
    Paths,            \* the paths that each mix of calls (workload) uses
    MaxSize, MaxLost, \* bounds: file sizes and offsets, lost references
    NULL

Workloads == {"data", "exec", "names", "pipes"}

ASSUME FilesAssumption ==
    /\ InitProc \in Procs /\ IsFiniteSet(Procs)
    /\ {NOFILE, LowLimit, NFILE} \subseteq Nat \ {0} /\ LowLimit <= NOFILE /\ NOFILE > 1
    /\ Testsuite \subseteq OnDemand /\ OnDemand \cup DevNull \subseteq Names
    /\ Paths \in [Workloads -> SUBSET (Names \cup {Root})]
    /\ Root \notin Nodes /\ NULL \notin Nodes \cup {Root} \cup Pages \cup (1 .. NFILE)

VARIABLES ofile, execClose, filelimit, cwd, alive,  \* struct proc
          call,    \* the system call that a process has not finished yet
          ftable, pipe, link, entry, panicked,
          lostFile, lostEntry, openatFd,
          workload    \* which calls the processes of this behaviour make

procVars == <<ofile, execClose, filelimit, cwd, alive, call>>
ghosts == <<lostFile, lostEntry, openatFd>>
fileVars == <<procVars, ftable, pipe, link, entry, panicked, ghosts, workload>>

Fds == 0 .. NOFILE - 1
FileSlots == 1 .. NFILE
Entries == Nodes \cup {Root}

\* struct file; t0_sec, t1_sec and the socket fields are not modelled.
File == [type : {"NONE", "PIPE", "ENTRY", "DEVICE", "NULL"}, ref : Nat,
         readable : BOOLEAN, writable : BOOLEAN,
         pipe : Pages \cup {NULL}, ep : Entries \cup {NULL}, off : Nat]

NoFile == [type |-> "NONE", ref |-> 0, readable |-> FALSE, writable |-> FALSE,
           pipe |-> NULL, ep |-> NULL, off |-> 0]

\* The last reference to an entry that is no longer linked frees its data.
Put(ents, e, n) ==
    LET left == ents[e].ref - n
        gone == left = 0 /\ e \in Nodes /\ \A x \in Names : link[x] # e
    IN  [ents EXCEPT ![e].ref = left, ![e].size = IF gone THEN 0 ELSE @]

Limit(p) == IF filelimit[p] < NOFILE THEN filelimit[p] ELSE NOFILE

FreeSlots == {f \in FileSlots : ftable[f].ref = 0}
FreePages == {pg \in Pages : ~pipe[pg].readopen /\ ~pipe[pg].writeopen}
FreeNodes == {e \in Nodes : entry[e].ref = 0 /\ \A x \in Names : link[x] # e}
FreeFds(p, start) == {fd \in start .. Limit(p) - 1 : ofile[p][fd] = NULL}

\* The references lost so far, of all the indices in S.
Lost(lost, S) == MapThenSumSet(LAMBDA x : lost[x], S)

Running(p) == p \in alive /\ call[p] = <<>> /\ panicked = "no"

\* argfd(): a descriptor of p that is open.
argfd(p, fd) == Running(p) /\ ofile[p][fd] # NULL

---------------------------------------------------------------------------
(* fileclose(), for drop[f] references of every file at once: exit() and   *)
(* exec() close many descriptors, some of them on the same file.           *)

Closed(drop) == {f \in FileSlots : drop[f] > 0 /\ ftable[f].ref = drop[f]}

fileclose(drop) ==
    [f \in FileSlots |->
        IF f \in Closed(drop)
        THEN NoFile
        ELSE [ftable[f] EXCEPT !.ref = @ - drop[f]]]

\* The code leaves the fields of a free slot alone.  They are set before they
\* are read again, but for ep in a slot that becomes a pipe: see sys_ftruncate.

\* pipeclose() of the ends among the closed files.
pipeclose(shut) ==
    [pg \in Pages |->
        [readopen  |-> pipe[pg].readopen /\ ~\E f \in shut : ftable[f].type = "PIPE"
                            /\ ftable[f].pipe = pg /\ ~ftable[f].writable,
         writeopen |-> pipe[pg].writeopen /\ ~\E f \in shut : ftable[f].type = "PIPE"
                            /\ ftable[f].pipe = pg /\ ftable[f].writable]]

\* Variant: closing a file keeps its entry.
VCloseEntries(ents, shut) == ents

\* eput() of the entries of the closed files, on the entries ents.
CloseEntries(ents, shut) ==
    LET refs(e) == Cardinality({f \in shut : ftable[f].type = "ENTRY" /\ ftable[f].ep = e})
    IN  [e \in Entries |-> Put(ents, e, refs(e))[e]]

\* How many of the descriptors fds of p refer to each file.
Refs(p, fds) == [f \in FileSlots |-> Cardinality({fd \in fds : ofile[p][fd] = f})]

\* All that fileclose() changes below the descriptors.
Drop(drop) ==
    /\ ftable' = fileclose(drop)
    /\ pipe' = pipeclose(Closed(drop))
    /\ entry' = CloseEntries(entry, Closed(drop))

sys_close(p, fd) ==
    /\ argfd(p, fd)
    /\ ofile' = [ofile EXCEPT ![p][fd] = NULL]
    /\ Drop(Refs(p, {fd}))
    /\ openatFd' = [openatFd EXCEPT ![p] = @ \ {fd}]
    /\ UNCHANGED <<execClose, filelimit, cwd, alive, call, link, panicked, lostFile, lostEntry>>

---------------------------------------------------------------------------
(* Descriptors for files that exist: dup, dup3, fcntl.                     *)

\* Variant: the descriptor takes no reference.
vfiledup(f) == UNCHANGED ftable

filedup(f) == ftable' = [ftable EXCEPT ![f].ref = @ + 1]

fdalloc(p, fd, start) == fd \in FreeFds(p, start) /\ \A o \in FreeFds(p, start) : fd <= o

sys_dup(p, old, fd) ==
    /\ argfd(p, old)
    /\ fdalloc(p, fd, 0)
    /\ ofile' = [ofile EXCEPT ![p][fd] = ofile[p][old]]
    /\ filedup(ofile[p][old])
    /\ UNCHANGED <<execClose, filelimit, cwd, alive, call, pipe, link, entry, panicked, ghosts>>

\* The descriptor is overwritten: the file it had keeps its reference, and the
\* mark stays.
sys_dup3(p, old, fd) ==
    /\ argfd(p, old)
    /\ fd < Limit(p)
    /\ ofile[p][fd] # ofile[p][old]
    /\ ofile' = [ofile EXCEPT ![p][fd] = ofile[p][old]]
    /\ filedup(ofile[p][old])
    /\ IF ofile[p][fd] = NULL
       THEN UNCHANGED lostFile
       ELSE /\ Lost(lostFile, FileSlots) < MaxLost
            /\ lostFile' = [lostFile EXCEPT ![ofile[p][fd]] = @ + 1]
    /\ openatFd' = [openatFd EXCEPT ![p] = @ \ {fd}]
    /\ UNCHANGED <<execClose, filelimit, cwd, alive, call, pipe, link, entry, panicked,
                   lostEntry>>

fcntl_SETFD(p, fd, arg) ==
    /\ argfd(p, fd)
    /\ execClose' = [execClose EXCEPT ![p][fd] = arg]
    /\ openatFd' = [openatFd EXCEPT ![p] = @ \ {fd}]
    /\ UNCHANGED <<ofile, filelimit, cwd, alive, call, ftable, pipe, link, entry, panicked,
                   lostFile, lostEntry>>

\* F_DUPFD leaves the mark that the descriptor had in an earlier life.
fcntl_DUPFD(p, old, start, fd, cloexec) ==
    /\ argfd(p, old)
    /\ fdalloc(p, fd, start)
    /\ ofile' = [ofile EXCEPT ![p][fd] = ofile[p][old]]
    /\ filedup(ofile[p][old])
    /\ execClose' = [execClose EXCEPT ![p][fd] = cloexec \/ @]
    /\ UNCHANGED <<filelimit, cwd, alive, call, pipe, link, entry, panicked, ghosts>>

sys_prlimit64(p) ==
    /\ Running(p)
    /\ filelimit' = [filelimit EXCEPT ![p] = LowLimit]
    /\ UNCHANGED <<ofile, execClose, cwd, alive, call, ftable, pipe, link, entry, panicked, ghosts>>

---------------------------------------------------------------------------
(* Descriptors for new files: open, openat, dev, pipe.                     *)

Find(x) == IF x = Root THEN Root ELSE link[x]

\* The entry that open() and create() work on, made when it may be.
Target(x, flags) ==
    IF Find(x) = NULL /\ "O_CREATE" \in flags /\ FreeNodes # {}
    THEN CHOOSE e \in FreeNodes : TRUE
    ELSE Find(x)

CanOpen(p) == FreeSlots # {} /\ FreeFds(p, 0) # {}

\* The least free slot and descriptor get the file; pipes leave its old ep.
Install(p, fd, f, file) ==
    /\ fd = Min(FreeFds(p, 0))
    /\ f = Min(FreeSlots)
    /\ ftable' = [ftable EXCEPT ![f] = file]
    /\ ofile' = [ofile EXCEPT ![p][fd] = f]

\* From filealloc() on: without a slot or a descriptor the entry is put
\* back, and a file that create() made stays in its directory.
OpenEntry(p, x, e, flags) ==
    LET held == [entry EXCEPT ![e].ref = @ + 1,
                              ![e].dir = IF Find(x) = NULL THEN FALSE ELSE @]
        size == IF "O_TRUNC" \in flags /\ ~held[e].dir THEN 0 ELSE entry[e].size
    IN  /\ link' = IF x = Root THEN link ELSE [link EXCEPT ![x] = e]
        /\ IF CanOpen(p)
           THEN /\ entry' = [held EXCEPT ![e].size = size]
                /\ \E fd \in Fds, f \in FileSlots :
                     Install(p, fd, f,
                       [ftable[f] EXCEPT !.type = "ENTRY", !.ref = 1, !.ep = e,
                          !.off = IF "O_APPEND" \in flags THEN size ELSE 0,
                          !.readable = "O_WRONLY" \notin flags,
                          !.writable = flags \cap {"O_WRONLY", "O_RDWR"} # {}])
           ELSE /\ entry' = Put(held, e, 1)
                /\ UNCHANGED <<ofile, ftable>>

\* open(), also what sys_statx() opens and never closes.
sys_open(p, x, flags) ==
    LET e == Target(x, flags)
    IN  /\ Running(p)
        /\ e # NULL /\ ~(Find(x) # NULL /\ entry[e].dir /\ flags # {})
        /\ OpenEntry(p, x, e, flags)
        /\ UNCHANGED <<execClose, filelimit, cwd, alive, call, pipe, panicked, ghosts>>

\* sys_openat() with a dirfd: eunlock() of a file that is no directory and
\* that this process has not locked panics.
BadDirfd(p, dirfd) ==
    /\ dirfd \in Fds /\ ofile[p][dirfd] # NULL
    /\ LET f == ftable[ofile[p][dirfd]] IN f.type = "ENTRY" /\ ~entry[f.ep].dir

\* Variant: the mark of the descriptor's earlier life stays.
vclear(p) == execClose

ClearMark(p) == IF CanOpen(p) THEN [execClose EXCEPT ![p][Min(FreeFds(p, 0))] = FALSE]
                ELSE execClose

sys_openat(p, dirfd, x, flags) ==
    LET e == Target(x, flags \cup (IF x \in OnDemand THEN {"O_CREATE"} ELSE {}))
    IN  /\ Running(p)
        /\ x \notin DevNull /\ e # NULL /\ ~BadDirfd(p, dirfd)
        /\ OpenEntry(p, x, e, flags \cup {"O_RDWR"})
        /\ execClose' = ClearMark(p)
        /\ openatFd' = [openatFd EXCEPT ![p] = IF CanOpen(p) THEN @ \cup {Min(FreeFds(p, 0))} ELSE @]
        /\ UNCHANGED <<filelimit, cwd, alive, call, pipe, panicked, lostFile, lostEntry>>

Panic(why) == panicked' = why /\ UNCHANGED <<procVars, ftable, pipe, link, entry, ghosts>>

openat_panic(p, dirfd) == Running(p) /\ BadDirfd(p, dirfd) /\ Panic("eunlock")

\* sys_dev(), and sys_openat() of /dev/null.
OpenDevice(p, type, flags) ==
    /\ Running(p)
    /\ CanOpen(p)
    /\ \E fd \in Fds, f \in FileSlots :
         Install(p, fd, f,
             [ftable[f] EXCEPT !.type = type, !.ref = 1, !.ep = NULL, !.off = 0,
                !.readable = type = "NULL" \/ "O_WRONLY" \notin flags,
                !.writable = type = "NULL" \/ flags \cap {"O_WRONLY", "O_RDWR"} # {}])
    /\ UNCHANGED <<execClose, filelimit, cwd, alive, call, pipe, link, entry, panicked,
                   lostFile, lostEntry>>

sys_dev(p, flags) == "O_CREATE" \notin flags /\ OpenDevice(p, "DEVICE", flags) /\ UNCHANGED openatFd

\* The descriptor is returned before the line that clears its mark.
openat_null(p) ==
    /\ OpenDevice(p, "NULL", {})
    /\ openatFd' = [openatFd EXCEPT ![p] = @ \cup {Min(FreeFds(p, 0))}]

\* pipealloc() and the two fdalloc(): when one of them fails all is undone.
sys_pipe2(p) ==
    /\ Running(p)
    /\ Cardinality(FreeSlots) >= 2 /\ Cardinality(FreeFds(p, 0)) >= 2 /\ FreePages # {}
    /\ LET pg == CHOOSE pg \in FreePages : TRUE
           rf == Min(FreeSlots)     wf == Min(FreeSlots \ {rf})
           fd0 == Min(FreeFds(p, 0)) fd1 == Min(FreeFds(p, 0) \ {fd0})
           end(f, w) == [ftable[f] EXCEPT !.type = "PIPE", !.ref = 1, !.pipe = pg,
                                          !.readable = ~w, !.writable = w]
       IN  /\ pipe' = [pipe EXCEPT ![pg] = [readopen |-> TRUE, writeopen |-> TRUE]]
           /\ ftable' = [ftable EXCEPT ![rf] = end(rf, FALSE), ![wf] = end(wf, TRUE)]
           /\ ofile' = [ofile EXCEPT ![p][fd0] = rf, ![p][fd1] = wf]
           /\ call' = [call EXCEPT ![p] = <<"pipe", fd0, fd1>>]
    /\ UNCHANGED <<execClose, filelimit, cwd, alive, link, entry, panicked, ghosts>>

\* copyout() of the two descriptors, which a bad user address makes fail.
pipe_copyout(p, ok) ==
    /\ p \in alive /\ panicked = "no"
    /\ call[p] # <<>> /\ call[p][1] = "pipe"
    /\ call' = [call EXCEPT ![p] = <<>>]
    /\ LET fds == IF ok THEN {} ELSE {call[p][2], call[p][3]}
       IN  /\ ofile' = [ofile EXCEPT ![p] = [fd \in Fds |-> IF fd \in fds THEN NULL ELSE @[fd]]]
           /\ Drop(Refs(p, fds))
    /\ UNCHANGED <<execClose, filelimit, cwd, alive, link, panicked, ghosts>>

---------------------------------------------------------------------------
(* Reading, writing and seeking.  The benchmark shortcuts of fileread()    *)
(* and filewrite(), pipes and devices change nothing that is modelled.     *)

Quiet == UNCHANGED <<procVars, ftable, pipe, link, entry, panicked, ghosts>>
Touch == UNCHANGED <<procVars, pipe, link, panicked, ghosts>>

fileread(p, fd, n) ==
    LET f == ftable[ofile[p][fd]]
    IN  /\ argfd(p, fd)
        /\ f.readable
        /\ CASE f.type = "NULL" -> Panic("fileread")      \* no break before the default case
             [] f.type = "ENTRY" ->
                  /\ ftable' = [ftable EXCEPT ![ofile[p][fd]].off =
                        IF @ < entry[f.ep].size /\ ~entry[f.ep].dir
                        THEN Min({@ + n, entry[f.ep].size}) ELSE @]
                  /\ Touch /\ UNCHANGED entry
             [] OTHER -> Quiet

\* ewrite() refuses to leave a hole, and asks nothing about directories, which
\* sys_openat() opens for writing.
filewrite(p, fd, n) ==
    LET f == ftable[ofile[p][fd]]
    IN  /\ argfd(p, fd)
        /\ f.writable
        /\ IF f.type = "ENTRY" /\ f.off <= entry[f.ep].size
           THEN /\ f.off + n <= MaxSize
                /\ ftable' = [ftable EXCEPT ![ofile[p][fd]].off = @ + n]
                /\ entry' = [entry EXCEPT ![f.ep].size = Max({@, f.off + n})]
                /\ Touch
           ELSE Quiet

\* sys_read(), sys_readv(); sys_write(), sys_writev(): n is the sum.
sys_readv(p, fd, n) == fileread(p, fd, n)
sys_writev(p, fd, n) == filewrite(p, fd, n)

SeekTo(f, offset, whence) ==
    CASE whence = "SET" -> offset
      [] whence = "CUR" -> f.off + offset
      [] OTHER -> entry[f.ep].size + offset

sys_lseek(p, fd, offset, whence) ==
    LET f == ftable[ofile[p][fd]]
    IN  /\ argfd(p, fd)
        /\ f.type = "ENTRY" \/ (f.type = "PIPE" /\ whence # "END")
        /\ SeekTo(f, offset, whence) <= MaxSize
        /\ ftable' = [ftable EXCEPT ![ofile[p][fd]].off = SeekTo(f, offset, whence)]
        /\ Touch /\ UNCHANGED entry

\* fileseek() and then fileread(): the offset that others share moves.
sys_pread(p, fd, offset, n) ==
    LET f == ftable[ofile[p][fd]]
    IN  /\ argfd(p, fd)
        /\ f.type = "ENTRY"
        /\ ftable' = [ftable EXCEPT ![ofile[p][fd]].off =
               IF f.readable /\ offset < entry[f.ep].size /\ ~entry[f.ep].dir
               THEN Min({offset + n, entry[f.ep].size}) ELSE offset]
        /\ Touch /\ UNCHANGED entry

\* dirnext() and get_next_dirent(): the offset of a directory moves on.
sys_getdents64(p, fd) ==
    LET f == ftable[ofile[p][fd]]
    IN  /\ argfd(p, fd)
        /\ f.type = "ENTRY" /\ f.readable /\ entry[f.ep].dir
        /\ f.off < MaxSize
        /\ ftable' = [ftable EXCEPT ![ofile[p][fd]].off = @ + 1]
        /\ Touch /\ UNCHANGED entry

\* mmap() of an open file, once its area is there: f->off is set, and filedup()
\* takes a reference that munmap(), exec() and exit() do not know of.
sys_mmap(p, fd, offset) ==
    LET f == ofile[p][fd]
    IN  /\ argfd(p, fd)
        /\ offset <= MaxSize /\ Lost(lostFile, FileSlots) < MaxLost
        /\ ftable' = [ftable EXCEPT ![f].ref = @ + 1, ![f].off = offset]
        /\ lostFile' = [lostFile EXCEPT ![f] = @ + 1]
        /\ UNCHANGED <<procVars, pipe, link, entry, panicked, lostEntry, openatFd>>

\* etruncate() of whatever entry the slot names: the type is not looked at,
\* and a pipe has the entry of an earlier life of its slot, or none.
sys_ftruncate(p, fd, len) ==
    \E e \in Entries \cup {NULL} :
        /\ argfd(p, fd)
        /\ ftable[ofile[p][fd]].type # "PIPE" => e = ftable[ofile[p][fd]].ep
        /\ IF e = NULL THEN Panic("null")
           ELSE /\ len <= entry[e].size
                /\ entry' = [entry EXCEPT ![e].size = len]
                /\ Touch /\ UNCHANGED ftable

\* fp_in->off moves by n however little is read, and n bytes are written, zeros
\* if need be, after a gap that is filled first.
sys_copy_file_range(p, in, out, n) ==
    LET dst == ftable[ofile[p][out]]
    IN  /\ argfd(p, in) /\ argfd(p, out)
        /\ ofile[p][in] # ofile[p][out]
        /\ ftable[ofile[p][in]].type = "ENTRY" /\ dst.type = "ENTRY"
        /\ dst.off + n <= MaxSize /\ ftable[ofile[p][in]].off + n <= MaxSize
        /\ ftable' = [ftable EXCEPT ![ofile[p][in]].off = @ + n, ![ofile[p][out]].off = @ + n]
        /\ entry' = [entry EXCEPT ![dst.ep].size = Max({@, dst.off + n})]
        /\ Touch

\* file_send() without a user offset: n bytes at most.
sys_sendfile(p, out, in, n) ==
    LET src == ftable[ofile[p][in]]
        dst == ftable[ofile[p][out]]
        got == IF src.type # "ENTRY" \/ entry[src.ep].dir THEN 0
               ELSE Max({0, Min({n, entry[src.ep].size - src.off})})
    IN  /\ argfd(p, in) /\ argfd(p, out)
        /\ ofile[p][in] # ofile[p][out]
        /\ got > 0
        /\ IF dst.type = "ENTRY" /\ dst.off <= entry[dst.ep].size
           THEN /\ dst.off + got <= MaxSize
                /\ ftable' = [ftable EXCEPT ![ofile[p][in]].off = @ + got,
                                            ![ofile[p][out]].off = @ + got]
                /\ entry' = [entry EXCEPT ![dst.ep].size = Max({@, dst.off + got})]
           ELSE /\ ftable' = [ftable EXCEPT ![ofile[p][in]].off = @ + got]
                /\ UNCHANGED entry
        /\ Touch

---------------------------------------------------------------------------
(* Names.                                                                  *)

sys_chdir(p, x) ==
    /\ Running(p)
    /\ Find(x) # NULL /\ entry[Find(x)].dir
    /\ entry' = Put([entry EXCEPT ![Find(x)].ref = @ + 1], cwd[p], 1)
    /\ cwd' = [cwd EXCEPT ![p] = Find(x)]
    /\ UNCHANGED <<ofile, execClose, filelimit, alive, call, ftable, pipe, link, panicked, ghosts>>

sys_mkdirat(p, x) ==
    /\ Running(p)
    /\ Find(x) = NULL /\ FreeNodes # {}
    /\ LET e == CHOOSE e \in FreeNodes : TRUE
       IN  link' = [link EXCEPT ![x] = e] /\ entry' = [entry EXCEPT ![e].dir = TRUE]
    /\ UNCHANGED <<procVars, ftable, pipe, panicked, ghosts>>

\* An open file lives on without a name.
sys_remove(p, x) ==
    /\ Running(p)
    /\ link[x] # NULL
    /\ link' = [link EXCEPT ![x] = NULL]
    /\ entry' = [entry EXCEPT ![link[x]].size = IF entry[link[x]].ref = 0 THEN 0 ELSE @]
    /\ UNCHANGED <<procVars, ftable, pipe, panicked, ghosts>>

\* The entry e that a path names is looked up and never put.
Forget(p, e) ==
    /\ Running(p)
    /\ e # NULL /\ Lost(lostEntry, Entries) < MaxLost
    /\ entry' = [entry EXCEPT ![e].ref = @ + 1]
    /\ lostEntry' = [lostEntry EXCEPT ![e] = @ + 1]
    /\ UNCHANGED <<procVars, ftable, pipe, link, panicked, lostFile, openatFd>>

\* Below /tmp/testsuite- nothing is removed, and 0 returned.
sys_unlinkat(p, x) ==
    \/ x \notin Testsuite /\ sys_remove(p, x)
    \/ x \in Testsuite /\ Forget(p, link[x])

sys_faccessat(p, x) == Forget(p, Find(x))

\* Only for /dev/null is the entry, if there is one, not put.
sys_fstatat(p, x) == x \in DevNull /\ Forget(p, Find(x))

---------------------------------------------------------------------------
(* Processes.                                                              *)

fork(p, q) ==
    /\ Running(p)
    /\ q \notin alive
    /\ alive' = alive \cup {q}
    /\ ofile' = [ofile EXCEPT ![q] = ofile[p]]
    /\ ftable' = [f \in FileSlots |-> [ftable[f] EXCEPT !.ref = @ + Refs(p, Fds)[f]]]
    /\ cwd' = [cwd EXCEPT ![q] = cwd[p]]
    /\ entry' = [entry EXCEPT ![cwd[p]].ref = @ + 1]
    /\ UNCHANGED <<execClose, filelimit, call, pipe, link, panicked, ghosts>>

\* allocproc() sets exec_close and filelimit of the next process anew.
exit(p) ==
    /\ Running(p)
    /\ p # InitProc
    /\ alive' = alive \ {p}
    /\ ofile' = [ofile EXCEPT ![p] = [fd \in Fds |-> NULL]]
    /\ LET drop == Refs(p, Fds)
       IN  /\ ftable' = fileclose(drop)
           /\ pipe' = pipeclose(Closed(drop))
           /\ entry' = Put(CloseEntries(entry, Closed(drop)), cwd[p], 1)
    /\ cwd' = [cwd EXCEPT ![p] = NULL]
    /\ execClose' = [execClose EXCEPT ![p] = [fd \in Fds |-> FALSE]]
    /\ filelimit' = [filelimit EXCEPT ![p] = NOFILE]
    /\ openatFd' = [openatFd EXCEPT ![p] = {}]
    /\ UNCHANGED <<call, link, panicked, lostFile, lostEntry>>

\* exec() after it has committed: marked descriptors below the limit are
\* closed; for a > or >> argument descriptor 1 too, and if it is not open
\* fileclose() gets a null pointer.
exec(p, redirection) ==
    LET marked == {fd \in 0 .. Limit(p) - 1 : ofile[p][fd] # NULL /\ execClose[p][fd]}
        out == IF redirection = "no" THEN {} ELSE {1}
    IN  /\ Running(p)
        /\ IF out # {} /\ (1 \in marked \/ ofile[p][1] = NULL) THEN Panic("null")
           ELSE /\ ofile' = [ofile EXCEPT ![p] = [fd \in Fds |->
                                IF fd \in marked \cup out THEN NULL ELSE @[fd]]]
                /\ execClose' = [execClose EXCEPT ![p] = [fd \in Fds |-> fd \notin marked /\ @[fd]]]
                /\ Drop(Refs(p, marked \cup out))
                /\ openatFd' = [openatFd EXCEPT ![p] = @ \ (marked \cup out)]
                /\ call' = [call EXCEPT ![p] = IF out = {} THEN <<>> ELSE <<redirection>>]
                /\ UNCHANGED <<filelimit, cwd, alive, link, panicked, lostFile, lostEntry>>

\* The file of the redirection is opened; unless it gets descriptor 1
\* exec() fails, and the file stays open.
exec_redirect(p, x) ==
    LET flags == {"O_WRONLY", "O_CREATE"} \cup (IF call[p][1] = "append" THEN {"O_APPEND"} ELSE {})
        e == Target(x, flags)
    IN  /\ p \in alive /\ panicked = "no"
        /\ call[p] # <<>> /\ call[p][1] \in {"out", "append"}
        /\ call' = [call EXCEPT ![p] = <<>>]
        /\ IF e # NULL /\ ~(Find(x) # NULL /\ entry[e].dir)
           THEN /\ OpenEntry(p, x, e, flags)
                /\ execClose' = IF CanOpen(p) /\ Min(FreeFds(p, 0)) = 1
                                THEN [execClose EXCEPT ![p][1] = TRUE] ELSE execClose
           ELSE UNCHANGED <<ofile, ftable, link, entry, execClose>>
        /\ UNCHANGED <<filelimit, cwd, alive, pipe, panicked, ghosts>>

---------------------------------------------------------------------------
\* fileinit() and userinit().
FilesInit ==
    /\ ofile = [p \in Procs |-> [fd \in Fds |-> NULL]]
    /\ execClose = [p \in Procs |-> [fd \in Fds |-> FALSE]]
    /\ filelimit = [p \in Procs |-> NOFILE]
    /\ cwd = [p \in Procs |-> IF p = InitProc THEN Root ELSE NULL]
    /\ alive = {InitProc}
    /\ call = [p \in Procs |-> <<>>]
    /\ ftable = [f \in FileSlots |-> NoFile]
    /\ pipe = [pg \in Pages |-> [readopen |-> FALSE, writeopen |-> FALSE]]
    /\ link = [x \in Names |-> NULL]
    /\ entry = [e \in Entries |-> [ref |-> IF e = Root THEN 1 ELSE 0, dir |-> e = Root, size |-> 0]]
    /\ panicked = "no"
    /\ lostFile = [f \in FileSlots |-> 0] /\ lostEntry = [e \in Entries |-> 0]
    /\ openatFd = [p \in Procs |-> {}]
    /\ workload \in Workloads

Load(w) == workload \in w /\ UNCHANGED workload

DescriptorCalls(p) ==
    \E fd \in Fds :
        \/ sys_close(p, fd) /\ UNCHANGED workload
        \/ Load({"exec"}) /\ \E arg \in BOOLEAN : fcntl_SETFD(p, fd, arg)
        \/ Load({"data", "pipes"}) /\ sys_readv(p, fd, 1)
        \/ Load({"data", "pipes"}) /\ sys_writev(p, fd, 1)
        \/ Load({"data"}) /\ \E whence \in {"SET", "CUR", "END"} : sys_lseek(p, fd, 1, whence)
        \/ Load({"data"}) /\ sys_pread(p, fd, 0, 1)
        \/ Load({"data"}) /\ sys_getdents64(p, fd)
        \/ Load({"data", "pipes"}) /\ sys_mmap(p, fd, 0)
        \/ Load({"data", "pipes"}) /\ sys_ftruncate(p, fd, 0)

CopyingCalls(p) ==
    \E fd, old \in Fds :
        \/ sys_dup(p, old, fd) /\ UNCHANGED workload
        \/ Load({"pipes"}) /\ sys_dup3(p, old, fd)
        \/ Load({"exec"}) /\ \E start \in Fds, cloexec \in BOOLEAN :
                                  fcntl_DUPFD(p, old, start, fd, cloexec)
        \/ Load({"data", "pipes"}) /\ sys_sendfile(p, fd, old, 1)
        \/ Load({"data"}) /\ sys_copy_file_range(p, old, fd, 1)

OpeningCalls(p) ==
    \E flags \in Openflags :
        \/ Load({"pipes"}) /\ sys_dev(p, flags)
        \/ \E x \in Paths[workload] :
             \/ Load({"data", "names", "pipes"}) /\ sys_open(p, x, flags)
             \/ Load({"exec", "names"}) /\ "O_WRONLY" \notin flags /\ sys_openat(p, NULL, x, flags)

PathCalls(p) ==
    \/ Load({"exec"}) /\ \E dirfd \in Fds : openat_panic(p, dirfd)
    \/ \E x \in Paths[workload] :
         \/ Load({"names"}) /\ sys_chdir(p, x)
         \/ Load({"names"}) /\ x \in Names /\ sys_mkdirat(p, x)
         \/ Load({"names"}) /\ x \in Names /\ sys_remove(p, x)
         \/ Load({"names", "data"}) /\ x \in Names /\ sys_unlinkat(p, x)
         \/ Load({"names"}) /\ (sys_faccessat(p, x) \/ sys_fstatat(p, x))

FilesNext ==
    \E p \in Procs :
        \/ DescriptorCalls(p) \/ CopyingCalls(p) \/ OpeningCalls(p) \/ PathCalls(p)
        \/ Load({"exec", "pipes"}) /\ openat_null(p)
        \/ Load({"pipes"}) /\ sys_pipe2(p)
        \/ Load({"pipes"}) /\ \E ok \in BOOLEAN : pipe_copyout(p, ok)
        \/ Load({"exec"}) /\ sys_prlimit64(p)
        \/ \E q \in Procs : fork(p, q) /\ UNCHANGED workload
        \/ exit(p) /\ UNCHANGED workload
        \/ Load({"exec"}) /\ \E r \in {"no", "out", "append"} : exec(p, r)
        \/ Load({"exec"}) /\ \E x \in Paths["exec"] \ {Root} : exec_redirect(p, x)

FilesSpec == FilesInit /\ [][FilesNext]_fileVars

---------------------------------------------------------------------------
Users(f) == {pf \in Procs \X Fds : ofile[pf[1]][pf[2]] = f}

\* The files that hold the write end (w) or the read end of the pipe pg.
Ends(pg, w) ==
    {f \in FileSlots : ftable[f].ref > 0 /\ ftable[f].type = "PIPE"
                        /\ ftable[f].pipe = pg /\ ftable[f].writable = w}

\* f->ref counts the descriptors of all processes that refer to f, the
\* descriptors that sys_dup3() has overwritten and the mmap() calls of f, whose
\* references nobody drops; and a pipe end is open as long as some file refers
\* to it and no longer.  Whatever fork(), exec(), exit(), a pipe whose copyout()
\* fails or a full table do, no file is closed under a descriptor and none is
\* kept without one but by sys_dup3() and mmap().
FileRefExact ==
    /\ \A f \in FileSlots : ftable[f].ref = Cardinality(Users(f)) + lostFile[f]
    /\ \A pg \in Pages : /\ pipe[pg].readopen = (Ends(pg, FALSE) # {})
                         /\ pipe[pg].writeopen = (Ends(pg, TRUE) # {})

\* The references to a directory entry are the open files and the working
\* directories that name it, and those that three calls forget: sys_faccessat(),
\* sys_unlinkat() below /tmp/testsuite- and sys_fstatat() below /dev/null.  But
\* for these an entry that was unlinked is freed when, and only when, the last
\* of its users goes.
EntryRefExact ==
    \A e \in Entries :
        entry[e].ref = Cardinality({f \in FileSlots : ftable[f].type = "ENTRY" /\ ftable[f].ep = e})
                       + Cardinality({p \in alive : cwd[p] = e}) + lostEntry[e]

\* A descriptor that sys_openat() returned survives exec() unless fcntl()
\* asked for the contrary, whatever the descriptor was used for before.  The
\* exception of the code: sys_openat("/dev/null") returns before it clears the
\* mark, and exec() closes such a descriptor if its number was marked once.
OpenatSurvivesExec ==
    \A p \in alive : \A fd \in openatFd[p] :
        ofile[p][fd] # NULL /\ execClose[p][fd] => ftable[ofile[p][fd]].type = "NULL"

---------------------------------------------------------------------------
(* The inductive invariant *)

FilesTypeOK ==
    /\ ofile \in [Procs -> [Fds -> FileSlots \cup {NULL}]]
    /\ execClose \in [Procs -> [Fds -> BOOLEAN]]
    /\ filelimit \in [Procs -> {NOFILE, LowLimit}]
    /\ cwd \in [Procs -> Entries \cup {NULL}] /\ alive \subseteq Procs
    /\ \A p \in Procs : \/ call[p] \in {<<>>, <<"out">>, <<"append">>}
                        \/ \E fd0, fd1 \in Fds : call[p] = <<"pipe", fd0, fd1>>
    /\ call = [p \in Procs |-> call[p]]
    /\ ftable \in [FileSlots -> File]
    /\ pipe \in [Pages -> [readopen : BOOLEAN, writeopen : BOOLEAN]]
    /\ link \in [Names -> Nodes \cup {NULL}]
    /\ entry \in [Entries -> [ref : Nat, dir : BOOLEAN, size : Nat]]
    /\ lostFile \in [FileSlots -> Nat] /\ lostEntry \in [Entries -> Nat]
    /\ openatFd \in [Procs -> SUBSET Fds]

\* A process has its references while it lives.
HeldByLiving ==
    \A p \in Procs : IF p \in alive THEN cwd[p] # NULL
                     ELSE /\ \A fd \in Fds : ofile[p][fd] = NULL
                          /\ cwd[p] = NULL /\ openatFd[p] = {}

\* A file is of no type when it is free, and has what its type asks for.
SlotsSound ==
    \A f \in FileSlots : /\ ftable[f].ref = 0 => ftable[f].type = "NONE"
                         /\ ftable[f].type = "ENTRY" => ftable[f].ep # NULL
                         /\ ftable[f].type = "PIPE" => ftable[f].pipe # NULL

\* Each end of a pipe is in one file.
OneFilePerEnd == \A pg \in Pages, w \in BOOLEAN : \A f, g \in Ends(pg, w) : f = g

\* What openat() returned is open and has no mark, or is /dev/null; pipe() got
\* other descriptors.
OpenatUnmarked ==
    \A p \in Procs : \A fd \in openatFd[p] :
        /\ ofile[p][fd] # NULL
        /\ execClose[p][fd] => ftable[ofile[p][fd]].type = "NULL"
        /\ \A fd0, fd1 \in Fds : call[p] = <<"pipe", fd0, fd1>> => fd \notin {fd0, fd1}

FilesInv ==
    /\ FilesTypeOK /\ HeldByLiving /\ SlotsSound /\ OneFilePerEnd /\ OpenatUnmarked
    /\ FileRefExact /\ EntryRefExact

=============================================================================
