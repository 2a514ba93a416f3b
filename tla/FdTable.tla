------------------------------ MODULE FdTable ------------------------------
(***************************************************************************)
(* The guest's descriptor table and stdio streams (vmir_libc.c): open,     *)
(* close, fopen, fdopen, fclose, the embedder's vmir_fd_create and         *)
(* vmir_fd_close, libc_initialize and the closing of streams and the table *)
(* by vmir_destroy.                                                        *)
(*                                                                         *)
(* An entry's fh and freelist share memory: the field u.  Closing calls    *)
(* the entry's release callback before the entry is put on the free list,  *)
(* so closing is two steps and a callback may close other descriptors in   *)
(* between; closing is that call stack.  The guest and the embedder close  *)
(* descriptors they were given, once; given is their view.                 *)
(***************************************************************************)
EXTENDS Integers, Sequences, SequencesExt

CONSTANTS
  Handles,  \* handles the host's fsops->open and the embedder can produce
  MaxFds    \* bound: entries the table may grow to

ASSUME FdAssumption == MaxFds \in Nat /\ Handles \cap Int = {}

CLOSED == "closed"                   \* type 0
FILE   == "file"                     \* VMIR_FD_TYPE_FILEHANDLE
SOCKET == "socket"                   \* VMIR_FD_TYPE_SOCKET, VMIR_FD_TYPE_USER

NOFD == -1

VARIABLES
  iu_vfds,      \* the table; descriptor fd is iu_vfds[fd + 1]
  iu_vfd_free,  \* first free descriptor
  iu_vfiles,    \* the streams, each by its fd
  closing,      \* vmir_fd_close calls under way, innermost first
  hostopen,     \* host handles open and not yet released
  given,        \* descriptors handed out, each with its handle
  phase         \* "run", "terminate" or "gone"

vars == <<iu_vfds, iu_vfd_free, iu_vfiles, closing, hostopen, given, phase>>

Fds == 0..(Len(iu_vfds) - 1)
Entry(fd) == iu_vfds[fd + 1]

(* closing: the descriptor, and whether vFILE_close waits for the call *)
Call(fd, stream) == [fd |-> fd, stream |-> stream]
InClose(fd) == \E i \in 1..Len(closing) : closing[i].fd = fd
IsGiven(fd) == \E g \in given : g.fd = fd
IsStream(fd) == \E i \in 1..Len(iu_vfiles) : iu_vfiles[i] = fd

-----------------------------------------------------------------------------
(* vfd_create: the descriptor it returns ... *)
NewFd == IF iu_vfd_free # NOFD THEN iu_vfd_free ELSE Len(iu_vfds)

(* Mutant of NewFree: the head of the free list is not advanced. *)
NewFreeStuck == iu_vfd_free

(* ... and the free list it leaves. *)
NewFree == IF iu_vfd_free # NOFD THEN Entry(iu_vfd_free).u ELSE NOFD

(* vmir_fd_create: the table with the new entry. *)
Install(h, type, release) ==
  LET e == [type |-> type, u |-> h, release |-> release]
  IN  IF iu_vfd_free # NOFD
      THEN [iu_vfds EXCEPT ![iu_vfd_free + 1] = e]
      ELSE Append(iu_vfds, e)

Create(h, type, release) ==
  /\ NewFd < MaxFds
  /\ iu_vfds' = Install(h, type, release)
  /\ iu_vfd_free' = NewFree
  /\ given' = given \cup {[fd |-> NewFd, fh |-> h]}

(* vfd_get(iu, fd, -1) != NULL *)
IsOpen(fd) == fd \in Fds /\ Entry(fd).type # CLOSED

(* vfd->release(iu, vfd->fh), as vmir_fd_release_fh closes the handle. *)
Released(fd) == IF Entry(fd).release THEN hostopen \ {Entry(fd).u} ELSE hostopen

(* vmir_fd_close up to and including the release callback; it returns at   *)
(* once when the descriptor is not open.                                   *)
CloseBegin(fd, stream) ==
  /\ IsOpen(fd)
  /\ hostopen' = Released(fd)
  /\ closing' = <<Call(fd, stream)>> \o closing

Init ==
  /\ iu_vfds = <<>>
  /\ iu_vfd_free = NOFD
  /\ iu_vfiles = <<>>
  /\ closing = <<>>
  /\ hostopen = {}
  /\ given = {}
  /\ phase = "run"

(* No call into libc is under way. *)
Idle == phase = "run" /\ closing = <<>>

(* vFILE_open: fsops->open, vfd_create, then vFILE_open_fd puts the stream *)
(* on iu_vfiles.  The first three calls are those of libc_initialize, for   *)
(* stdin, stdout and stderr; one that fails at fsops->open changes nothing. *)
Fopen(h) ==
  /\ Idle
  /\ Create(h, FILE, TRUE)
  /\ hostopen' = hostopen \cup {h}
  /\ iu_vfiles' = <<NewFd>> \o iu_vfiles
  /\ UNCHANGED <<closing, phase>>

(* vFILE_open_fd gets no memory or no FILE and closes the new descriptor. *)
FopenFails(h) ==
  /\ Idle
  /\ Create(h, FILE, TRUE)
  /\ hostopen' = hostopen
  /\ closing' = <<Call(NewFd, FALSE)>>
  /\ UNCHANGED <<iu_vfiles, phase>>

(* open: vfd_open *)
Open(h) ==
  /\ Idle
  /\ Create(h, FILE, TRUE)
  /\ hostopen' = hostopen \cup {h}
  /\ UNCHANGED <<iu_vfiles, closing, phase>>

(* vmir_fd_create, vmir_fd_create_fh: the embedder adds a descriptor of    *)
(* its own; without a release function the handle stays its own.           *)
EmbedderCreate(h, type, release) ==
  /\ Idle
  /\ Create(h, type, release)
  /\ hostopen' = IF release THEN hostopen \cup {h} ELSE hostopen
  /\ UNCHANGED <<iu_vfiles, closing, phase>>

(* close or vmir_fd_close, by the guest, by the embedder or by the release *)
(* callback of a descriptor that is being closed.                          *)
Close(fd) ==
  /\ phase = "run" \/ closing # <<>>
  /\ IsGiven(fd)
  /\ ~IsStream(fd)
  /\ ~InClose(fd)
  /\ CloseBegin(fd, FALSE)
  /\ UNCHANGED <<iu_vfds, iu_vfd_free, iu_vfiles, given, phase>>

(* fdopen *)
Fdopen(fd) ==
  /\ Idle
  /\ IsGiven(fd)
  /\ ~IsStream(fd)
  /\ iu_vfiles' = <<fd>> \o iu_vfiles
  /\ UNCHANGED <<iu_vfds, iu_vfd_free, closing, hostopen, given, phase>>

(* fdopen gets no memory or no FILE: vFILE_open_fd closes the descriptor   *)
(* the guest passed in.                                                    *)
FdopenFails(fd) ==
  /\ Idle
  /\ IsGiven(fd)
  /\ ~IsStream(fd)
  /\ CloseBegin(fd, FALSE)
  /\ UNCHANGED <<iu_vfds, iu_vfd_free, iu_vfiles, given, phase>>

(* fclose of a stream: vFILE_close *)
Fclose(fd) ==
  /\ Idle
  /\ IsStream(fd)
  /\ CloseBegin(fd, TRUE)
  /\ UNCHANGED <<iu_vfds, iu_vfd_free, iu_vfiles, given, phase>>

(* Mutant of FreeLink: the list behind the descriptor is lost. *)
FreeLinkDropped(head) == NOFD

(* vfd->freelist = iu->iu_vfd_free *)
FreeLink(head) == head

(* iu->iu_vfd_free = fd *)
FreeHead(fd) == fd

(* Mutant of Unlinked: the stream stays on iu_vfiles. *)
UnlinkedNever(call) == iu_vfiles

(* LIST_REMOVE(vf, link) in vFILE_close *)
Unlinked(call) ==
  IF call.stream
  THEN RemoveAt(iu_vfiles, CHOOSE i \in 1..Len(iu_vfiles) : iu_vfiles[i] = call.fd)
  ELSE iu_vfiles

(* The rest of vmir_fd_close, and of vFILE_close around it. *)
CloseEnd ==
  /\ closing # <<>>
  /\ LET call == Head(closing)
         fd   == call.fd
     IN  /\ iu_vfds' = [iu_vfds EXCEPT ![fd + 1] =
                          [type |-> CLOSED, u |-> FreeLink(iu_vfd_free), release |-> @.release]]
         /\ iu_vfd_free' = FreeHead(fd)
         /\ given' = {g \in given : g.fd # fd}
         /\ iu_vfiles' = Unlinked(call)
  /\ closing' = Tail(closing)
  /\ UNCHANGED <<hostopen, phase>>

(* vmir_destroy *)
Destroy ==
  /\ Idle
  /\ phase' = "terminate"
  /\ UNCHANGED <<iu_vfds, iu_vfd_free, iu_vfiles, closing, hostopen, given>>

(* libc_terminate: fclose(LIST_FIRST(&iu->iu_vfiles)) *)
TerminateClose ==
  /\ phase = "terminate"
  /\ closing = <<>>
  /\ iu_vfiles # <<>>
  /\ CloseBegin(Head(iu_vfiles), TRUE)
  /\ UNCHANGED <<iu_vfds, iu_vfd_free, iu_vfiles, given, phase>>

(* VECTOR_CLEAR(&iu->iu_vfds); free(iu) *)
TerminateDone ==
  /\ phase = "terminate"
  /\ closing = <<>>
  /\ iu_vfiles = <<>>
  /\ iu_vfds' = <<>>
  /\ iu_vfd_free' = NOFD
  /\ given' = {}
  /\ phase' = "gone"
  /\ UNCHANGED <<iu_vfiles, closing, hostopen>>

(* The host hands out a handle that is not in use. *)
Fresh == {h \in Handles : h \notin hostopen /\ \A g \in given : g.fh # h}

Next ==
  \/ \E h \in Fresh : Fopen(h) \/ FopenFails(h) \/ Open(h)
  \/ \E h \in Fresh, type \in {FILE, SOCKET}, release \in BOOLEAN :
       EmbedderCreate(h, type, release)
  \/ \E fd \in Fds : Close(fd) \/ Fdopen(fd) \/ FdopenFails(fd) \/ Fclose(fd)
  \/ CloseEnd
  \/ Destroy
  \/ TerminateClose
  \/ TerminateDone

Spec == Init /\ [][Next]_vars

(* vmir_destroy runs to its end, and so does every vmir_fd_close. *)
FairSpec == Spec /\ WF_vars(CloseEnd) /\ WF_vars(TerminateClose) /\ WF_vars(TerminateDone)

-----------------------------------------------------------------------------
Closed == {fd \in Fds : Entry(fd).type = CLOSED}

(* s is the free list: it starts at iu_vfd_free, follows the freelist      *)
(* fields, and ends at -1.                                                 *)
IsFreeList(s) ==
  /\ iu_vfd_free = IF Len(s) = 0 THEN NOFD ELSE s[1]
  /\ \A i \in 1..Len(s) : Entry(s[i]).u = IF i = Len(s) THEN NOFD ELSE s[i+1]

(* The list vfd_create takes descriptors from holds every closed           *)
(* descriptor exactly once, whatever order descriptors were closed in and  *)
(* whatever release callbacks close.                                       *)
FreeListSound ==
  \E n \in 0..Len(iu_vfds) : \E s \in [1..n -> Closed] :
    /\ \A i, j \in 1..n : s[i] = s[j] => i = j
    /\ \A fd \in Closed : \E i \in 1..n : s[i] = fd
    /\ IsFreeList(s)

(* A descriptor in the hands of the guest, of a stream or of the embedder  *)
(* stays open on the handle it was made for until it is closed: no other   *)
(* open is given the same descriptor.                                      *)
GivenStaysOpen ==
  \A g \in given : IsOpen(g.fd) /\ Entry(g.fd).u = g.fh

(* While the table exists every open host handle can still be released     *)
(* through it, and none is released twice.                                 *)
HandlesReachable ==
  phase # "gone" =>
    hostopen = {Entry(fd).u : fd \in {g \in Fds : IsOpen(g) /\ Entry(g).release /\ ~InClose(g)}}

(* Every stream has an open descriptor that is no other stream's until     *)
(* fclose takes it off iu_vfiles (cookie_read and cookie_write rely on it). *)
StreamsOwnTheirFd ==
  /\ \A i \in 1..Len(iu_vfiles) : IsGiven(iu_vfiles[i])
  /\ \A i, j \in 1..Len(iu_vfiles) : iu_vfiles[i] = iu_vfiles[j] => i = j

(* Descriptors, host handles and streams agree: see the three parts. *)
Ownership == GivenStaysOpen /\ HandlesReachable /\ StreamsOwnTheirFd

(* The inductive invariant behind FreeListSound and Ownership: types, what *)
(* holds of the calls to vmir_fd_close under way, and that open entries    *)
(* are handed out, each on a handle of its own.                            *)
VfdEntry == [type : {CLOSED, FILE, SOCKET}, u : Handles \cup Int, release : BOOLEAN]

TypeOK ==
  /\ iu_vfds \in Seq(VfdEntry)
  /\ iu_vfiles \in Seq(Nat)
  /\ closing \in Seq([fd : Nat, stream : BOOLEAN])
  /\ given \subseteq [fd : Nat, fh : Handles]

(* vFILE_close and nobody else closes the descriptor of a stream. *)
ClosingSound ==
  /\ \A i \in 1..Len(closing) : IsOpen(closing[i].fd)
  /\ \A i, j \in 1..Len(closing) : closing[i].fd = closing[j].fd => i = j
  /\ \A i \in 1..Len(closing) : closing[i].stream <=> IsStream(closing[i].fd)

GivenOnce ==
  /\ \A fd \in Fds : IsOpen(fd) => IsGiven(fd)
  /\ \A g, h \in given : g.fh = h.fh => g = h

FdInv == TypeOK /\ FreeListSound /\ Ownership /\ ClosingSound /\ GivenOnce

(* libc_terminate loops until the stream list is empty, which relies on    *)
(* every fclose taking its stream off the list: vmir_destroy returns.      *)
DestroyReturns == phase = "terminate" ~> phase = "gone"
=============================================================================
