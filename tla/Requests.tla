------------------------------- MODULE Requests -------------------------------
(***************************************************************************)
(* The device: HandleCreateClose, which lets only a process with the       *)
(* client's name open it, and HandleDeviceControl, which takes the input   *)
(* of a request from the system buffer and leaves its output there.        *)
(*                                                                         *)
(* The I/O manager is external: with METHOD_BUFFERED the system buffer is  *)
(* as long as the longer of the caller's two buffers, and of the output    *)
(* as many bytes go back to the caller as IoStatus.Information says.  What *)
(* a request does to the watch list is the subject of ProcessWatch and     *)
(* FileWatch; here it comes back with any of its statuses.                 *)
(*                                                                         *)
(* A text is known by the places where the searched name occurs in it, and *)
(* by the place where the name would have to begin to be its suffix.       *)
(***************************************************************************)
EXTENDS Integers

CONSTANTS
  Sizes,        \* lengths in bytes of the buffers of a request
  Texts,        \* image paths of processes, and names of files
  VersionSize,  \* length of the version's text, its terminator included
  MaxItems      \* bound of the items that a list holds (MAX_ITEMS)

ASSUME SizesAssumption == Sizes \subseteq Nat

ASSUME VersionAssumption == VersionSize \in Nat

ASSUME ItemsAssumption == MaxItems \in Nat

ASSUME TextsAssumption == Texts \subseteq [occurs : SUBSET Nat, end : Nat]

VARIABLES
  device,  \* the path of the process that has the device open, or NoText
  irp      \* the request that is being served

vars == <<device, irp>>

NoText == [occurs |-> {}, end |-> 0]

NotFound == -1

Idle == [ pc |-> "idle", code |-> "NONE", inLen |-> 0, outLen |-> 0, text |-> NoText,
          found |-> NotFound, status |-> "STATUS_SUCCESS", information |-> 0, top |-> 0 ]

Codes ==
  { "VERSION", "COUNT_NODES", "ADD_TO_WATCHED", "TERMINATE_WATCHED",
    "DELETE_WATCHED_FILE", "LIST_PROCESSES", "LIST_FILES", "OTHER" }

Failures ==
  { "STATUS_ACCESS_DENIED", "STATUS_BUFFER_TOO_SMALL", "STATUS_INVALID_PARAMETER",
    "STATUS_UNSUCCESSFUL", "STATUS_CANNOT_DELETE", "STATUS_INVALID_DEVICE_REQUEST" }

Init == device = NoText /\ irp = Idle

-----------------------------------------------------------------------------
(* Sizes in bytes                                                          *)

ULONGSize    == 4
LONGLONGSize == 8
WCHARSize    == 2

SizeOfProcessDataBasic   == 4
SizeOfProcessDataEx_v1   == 16
SizeOfProcessDataEx_v2   == 24
SizeOfProcessFileData    == 8
OffsetOfFileName         == 4
MinimalDeleteRequestSize == SizeOfProcessFileData + 4 * WCHARSize

SystemBufferSize == IF irp.inLen > irp.outLen THEN irp.inLen ELSE irp.outLen

Smaller(a, b) == IF a < b THEN a ELSE b

Larger(a, b) == IF a < b THEN b ELSE a

-----------------------------------------------------------------------------
(* Ending a request; top is the end of the part of the buffer it has used  *)

Answer(status, information, top) ==
  irp' = [irp EXCEPT !.pc = "answered", !.status = status,
                     !.information = information, !.top = top]

Fail(status) == Answer(status, 0, irp.top)

\* Fault: the length of the input is not looked at.
InputTooSmallNever(size) == FALSE

\* FetchInputBufferOfMinSize
InputTooSmall(size) == irp.inLen < size

\* IoCompleteRequest
Complete ==
  /\ irp.pc = "answered"
  /\ irp' = Idle
  /\ device' = IF irp.code = "CREATE" /\ irp.status = "STATUS_SUCCESS" THEN irp.text
               ELSE IF irp.code = "CLOSE" THEN NoText
               ELSE device

-----------------------------------------------------------------------------
(* HandleCreateClose, CheckProcessPath and hasSuffix                       *)

\* A path that does not fit into the buffer of 300 bytes is not looked at.
CreateClose(code, text, fits) ==
  /\ irp = Idle
  /\ IF code = "CREATE" THEN device = NoText ELSE device # NoText
  /\ irp' = [Idle EXCEPT !.pc = IF fits THEN "search" ELSE "notFound",
                         !.code = code, !.text = text]
  /\ UNCHANGED device

\* wcsstr
Search ==
  /\ irp.pc = "search"
  /\ \/ /\ irp.text.occurs = {}
        /\ irp' = [irp EXCEPT !.pc = "compare", !.found = NotFound]
     \/ \E i \in irp.text.occurs :
           /\ \A j \in irp.text.occurs : i <= j
           /\ irp' = [irp EXCEPT !.pc = "compare", !.found = i]
  /\ UNCHANGED device

\* Fault: a name that only occurs in the path is enough.
CompareAnywhere ==
  /\ irp.pc = "compare"
  /\ irp' = [irp EXCEPT !.pc = IF irp.found = NotFound THEN "notFound" ELSE "found"]
  /\ UNCHANGED device

\* A turn of the loop: an occurrence that is not the suffix stays the one
\* that is looked at.
Compare ==
  /\ irp.pc = "compare"
  /\ irp' = [irp EXCEPT !.pc = IF irp.found = NotFound THEN "notFound"
                               ELSE IF irp.found = irp.text.end THEN "found"
                               ELSE "compare"]
  /\ UNCHANGED device

\* A file that was renamed is taken for deleted, if it is on the list.
SuffixFound ==
  /\ irp.pc = "found"
  /\ \/ Answer("STATUS_SUCCESS", 0, irp.top)
     \/ irp.code = "DELETE_WATCHED_FILE" /\ Fail("STATUS_CANNOT_DELETE")
  /\ UNCHANGED device

SuffixNotFound ==
  /\ irp.pc = "notFound"
  /\ Fail(IF irp.code = "DELETE_WATCHED_FILE" THEN "STATUS_CANNOT_DELETE"
                                              ELSE "STATUS_ACCESS_DENIED")
  /\ UNCHANGED device

-----------------------------------------------------------------------------
(* HandleDeviceControl                                                     *)

DeviceControl(code, inLen, outLen) ==
  /\ irp = Idle /\ device # NoText
  /\ irp' = [Idle EXCEPT !.pc = "dispatch", !.code = code, !.inLen = inLen, !.outLen = outLen]
  /\ UNCHANGED device

Dispatched(code) == irp.pc = "dispatch" /\ irp.code = code /\ UNCHANGED device

\* FetchDriverVersion and CountNodes
Reply(code, size) ==
  /\ Dispatched(code)
  /\ IF irp.outLen < size THEN Fail("STATUS_BUFFER_TOO_SMALL")
                          ELSE Answer("STATUS_SUCCESS", size, size)

\* FetchProcessData: the newest version of the structure that the input has
\* room for; where its last field ends.
AddProcessWatch ==
  /\ Dispatched("ADD_TO_WATCHED")
  /\ IF InputTooSmall(SizeOfProcessDataBasic) THEN Fail("STATUS_BUFFER_TOO_SMALL")
     ELSE \E status \in {"STATUS_SUCCESS", "STATUS_INVALID_PARAMETER", "STATUS_UNSUCCESSFUL"} :
            Answer(status, 0, IF ~InputTooSmall(SizeOfProcessDataEx_v2) THEN 20
                              ELSE IF ~InputTooSmall(SizeOfProcessDataEx_v1) THEN 16
                              ELSE ULONGSize)

TerminateWatched ==
  /\ Dispatched("TERMINATE_WATCHED")
  /\ IF InputTooSmall(SizeOfProcessDataBasic) THEN Fail("STATUS_BUFFER_TOO_SMALL")
     ELSE \E status \in {"STATUS_SUCCESS", "STATUS_UNSUCCESSFUL"} : Answer(status, 0, ULONGSize)

\* Fault: the length is taken for that of the name.
FileNameLenOfAll == irp.inLen \div WCHARSize

\* actualLen: the terminator is written behind as many characters.
FileNameLen == (irp.inLen - SizeOfProcessFileData) \div WCHARSize

DeleteWatchedFile(name) ==
  LET top == OffsetOfFileName + WCHARSize * (FileNameLen + 1)
  IN  /\ Dispatched("DELETE_WATCHED_FILE")
      /\ IF InputTooSmall(MinimalDeleteRequestSize) THEN Fail("STATUS_BUFFER_TOO_SMALL")
         ELSE \/ \E status \in {"STATUS_SUCCESS", "STATUS_ACCESS_DENIED", "STATUS_UNSUCCESSFUL"} :
                   Answer(status, 0, top)
              \/ irp' = [irp EXCEPT !.pc = "search", !.text = name, !.top = top]

\* Fault: how many items there are is reported, not how many were copied.
ItemsCopiedAll(count, elementSize) == count

\* ItemsList::copyItems
ItemsCopied(count, elementSize) == Smaller(irp.outLen \div elementSize, count)

\* _CopyWatchedList: the buffer is cleared if there is anything to copy.
CopyWatchedList(code, elementSize, count) ==
  /\ Dispatched(code)
  /\ IF InputTooSmall(SizeOfProcessDataBasic) \/ irp.outLen < elementSize
     THEN Fail("STATUS_BUFFER_TOO_SMALL")
     ELSE Answer("STATUS_SUCCESS", ItemsCopied(count, elementSize) * elementSize,
                 Larger(ULONGSize, IF count = 0 THEN 0 ELSE irp.outLen))

Unknown == Dispatched("OTHER") /\ Fail("STATUS_INVALID_DEVICE_REQUEST")

-----------------------------------------------------------------------------
HandlerStep ==
  \/ Search \/ Compare \/ SuffixFound \/ SuffixNotFound
  \/ Reply("VERSION", VersionSize) \/ Reply("COUNT_NODES", ULONGSize)
  \/ AddProcessWatch \/ TerminateWatched
  \/ \E name \in Texts : DeleteWatchedFile(name)
  \/ \E count \in 0 .. MaxItems :
        \/ CopyWatchedList("LIST_PROCESSES", ULONGSize, count)
        \/ CopyWatchedList("LIST_FILES", LONGLONGSize, count)
  \/ Unknown
  \/ Complete

Next ==
  \/ \E code \in {"CREATE", "CLOSE"}, text \in Texts, fits \in BOOLEAN :
        CreateClose(code, text, fits)
  \/ \E code \in Codes, inLen, outLen \in Sizes : DeviceControl(code, inLen, outLen)
  \/ HandlerStep

Spec == Init /\ [][Next]_vars

(* The thread that a request runs in is scheduled.                         *)
FairSpec == Spec /\ WF_vars(HandlerStep)

-----------------------------------------------------------------------------
\* A request is at a step of its handler, with lengths that a caller can
\* give, a status and a place in the text it searches, or none.
TypeOK ==
  /\ device \in Texts \cup {NoText}
  /\ irp \in [ pc : {"idle", "dispatch", "search", "compare", "found", "notFound", "answered"},
               code : Codes \cup {"CREATE", "CLOSE", "NONE"},
               inLen : Sizes \cup {0}, outLen : Sizes \cup {0},
               text : Texts \cup {NoText}, found : Nat \cup {NotFound},
               status : Failures \cup {"STATUS_SUCCESS"}, information : Nat, top : Nat ]

\* No handler reads or writes behind the end of the system buffer, whatever
\* lengths the caller gives: neither the fields of a structure that the input
\* is too short for, nor the terminator of the file name, nor the list.
BufferRespected == irp.top <= SystemBufferSize

\* The I/O manager copies no more to the caller than the caller has room for.
InformationFits == irp.information <= irp.outLen

\* Only a process whose image has the client's name opens the device: a path
\* in which the name merely occurs, or that could not be read, does not do.
OnlyClientOpens == device # NoText => device.end \in device.occurs

-----------------------------------------------------------------------------
\* main.cpp:149, "ACCESS DENIED: cannot open the driver with this process":
\* an open is granted or denied, and every other request is answered too;
\* refuted by a run of its own.
EveryRequestAnswered == irp.pc # "idle" ~> irp.pc = "idle"
=============================================================================
