---------------------------- MODULE RequestsProofs ----------------------------
(***************************************************************************)
(* Theorems about the device's handlers, for every set of buffer lengths   *)
(* and of texts: no handler leaves the system buffer, no answer is longer  *)
(* than the caller's buffer, and only a process with the client's name has *)
(* the device open.                                                        *)
(***************************************************************************)
EXTENDS Requests, TLAPS

\* The place that wcsstr has found is one where the name occurs.
FoundOccurs == irp.pc = "compare" => irp.found \in irp.text.occurs \cup {NotFound}

\* An open is granted only to a path that ends with the name.
GrantedToSuffix ==
  /\ irp.code = "CREATE"
  /\ irp.pc = "found" \/ (irp.pc = "answered" /\ irp.status = "STATUS_SUCCESS")
  => irp.text.end \in irp.text.occurs

\* What a handler has to know of the request it is in.
IInv ==
  /\ TypeOK
  /\ BufferRespected
  /\ InformationFits
  /\ FoundOccurs
  /\ GrantedToSuffix
  /\ OnlyClientOpens

-----------------------------------------------------------------------------
(* Arithmetic of the two computed lengths                                  *)

\* As many whole elements as fit are no longer than the buffer.
LEMMA WholeElementsFit ==
  ASSUME NEW len \in Nat, NEW count \in Nat, NEW size \in {ULONGSize, LONGLONGSize}
  PROVE  /\ Smaller(len \div size, count) * size \in Nat
         /\ Smaller(len \div size, count) * size <= len
<1>1. CASE size = 4
  <2>1. len \div 4 \in Nat /\ (len \div 4) * 4 <= len
    OBVIOUS
  <2>. QED
    BY <1>1, <2>1 DEF Smaller
<1>2. CASE size = 8
  <2>1. len \div 8 \in Nat /\ (len \div 8) * 8 <= len
    OBVIOUS
  <2>. QED
    BY <1>2, <2>1 DEF Smaller
<1>. QED
  BY <1>1, <1>2 DEF ULONGSize, LONGLONGSize

\* The terminator of a file name is inside an input that is long enough.
LEMMA TerminatorFits ==
  ASSUME irp.inLen \in Nat, irp.inLen >= MinimalDeleteRequestSize
  PROVE  /\ OffsetOfFileName + WCHARSize * (FileNameLen + 1) \in Nat
         /\ OffsetOfFileName + WCHARSize * (FileNameLen + 1) <= irp.inLen
BY DEF MinimalDeleteRequestSize, SizeOfProcessFileData, WCHARSize, OffsetOfFileName, FileNameLen

\* The types of the request that is being served.
LEMMA RequestTyped ==
  ASSUME TypeOK
  PROVE  /\ irp.inLen \in Nat /\ irp.outLen \in Nat
         /\ irp.top \in Nat /\ irp.information \in Nat
         /\ irp.text \in Texts \cup {NoText}
         /\ irp.text.occurs \in SUBSET Nat /\ irp.text.end \in Nat
         /\ SystemBufferSize \in Nat
         /\ irp.inLen <= SystemBufferSize /\ irp.outLen <= SystemBufferSize
<1>1. irp.inLen \in Nat /\ irp.outLen \in Nat
  <2>1. irp.inLen \in Sizes \cup {0} /\ irp.outLen \in Sizes \cup {0}
    BY DEF TypeOK
  <2>2. Sizes \cup {0} \subseteq Nat
    BY SizesAssumption
  <2>. QED
    BY <2>1, <2>2
<1>2. irp.text.occurs \in SUBSET Nat /\ irp.text.end \in Nat
  BY TextsAssumption DEF TypeOK, NoText
<1>. QED
  BY <1>1, <1>2 DEF TypeOK, SystemBufferSize

-----------------------------------------------------------------------------
(* The inductive invariant                                                 *)

LEMMA InitIInv == Init => IInv
BY DEF Init, IInv, TypeOK, BufferRespected, InformationFits, FoundOccurs, GrantedToSuffix,
       OnlyClientOpens, Idle, NoText, NotFound, SystemBufferSize

\* A handler that ends a request in progress, with an output that fits and
\* without having left the buffer, keeps the invariant; an open is ended
\* with success only at a path that ends with the name.
LEMMA AnswerIInv ==
  ASSUME IInv, device' = device,
         NEW status \in Failures \cup {"STATUS_SUCCESS"},
         NEW information \in Nat, NEW top \in Nat,
         information <= irp.outLen, top <= SystemBufferSize,
         irp.code = "CREATE" /\ status = "STATUS_SUCCESS" => irp.text.end \in irp.text.occurs,
         Answer(status, information, top)
  PROVE  IInv'
<1>1. TypeOK
  BY DEF IInv
<1>2. irp' = [irp EXCEPT !.pc = "answered", !.status = status,
                         !.information = information, !.top = top]
  BY DEF Answer
<1>3. TypeOK'
  BY <1>1, <1>2 DEF TypeOK
<1>4. /\ irp'.pc = "answered" /\ irp'.status = status
      /\ irp'.information = information /\ irp'.top = top
      /\ irp'.code = irp.code /\ irp'.text = irp.text
      /\ irp'.inLen = irp.inLen /\ irp'.outLen = irp.outLen
  BY <1>1, <1>2 DEF TypeOK
<1>5. BufferRespected' /\ InformationFits'
  BY <1>4 DEF BufferRespected, InformationFits, SystemBufferSize
<1>6. FoundOccurs' /\ GrantedToSuffix' /\ OnlyClientOpens'
  BY <1>4 DEF IInv, FoundOccurs, GrantedToSuffix, OnlyClientOpens
<1>. QED
  BY <1>3, <1>5, <1>6 DEF IInv

\* A request that is refused or fails.
LEMMA FailIInv ==
  ASSUME IInv, device' = device, NEW status \in Failures, Fail(status)
  PROVE  IInv'
<1>1. irp.top \in Nat /\ irp.top <= SystemBufferSize /\ irp.outLen \in Nat
  BY RequestTyped DEF IInv, BufferRespected
<1>2. status # "STATUS_SUCCESS"
  BY DEF Failures
<1>. QED
  BY <1>1, <1>2, AnswerIInv, 0 \in Nat, 0 <= irp.outLen DEF Fail

\* HandleDeviceControl is entered only for requests that are no opens.
LEMMA BeginIInv ==
  ASSUME IInv,
         \/ \E code \in {"CREATE", "CLOSE"}, text \in Texts, fits \in BOOLEAN :
               CreateClose(code, text, fits)
         \/ \E code \in Codes, inLen, outLen \in Sizes : DeviceControl(code, inLen, outLen)
  PROVE  IInv'
<1>1. ASSUME NEW code \in {"CREATE", "CLOSE"}, NEW text \in Texts, NEW fits \in BOOLEAN,
             CreateClose(code, text, fits)
      PROVE  IInv'
  BY <1>1, ZenonT(60) DEF CreateClose, IInv, TypeOK, BufferRespected, InformationFits, FoundOccurs,
              GrantedToSuffix, OnlyClientOpens, Idle, NoText, NotFound, SystemBufferSize
<1>2. ASSUME NEW code \in Codes, NEW inLen \in Sizes, NEW outLen \in Sizes,
             DeviceControl(code, inLen, outLen)
      PROVE  IInv'
  <2>1. inLen \in Nat /\ outLen \in Nat /\ code # "CREATE"
    BY SizesAssumption DEF Codes
  <2>2. TypeOK /\ OnlyClientOpens /\ device' = device /\ irp = Idle
    BY <1>2 DEF IInv, DeviceControl
  <2>3. irp' = [Idle EXCEPT !.pc = "dispatch", !.code = code,
                            !.inLen = inLen, !.outLen = outLen]
    BY <1>2 DEF DeviceControl
  <2>4. TypeOK'
    BY <2>2, <2>3 DEF TypeOK, Idle, NoText, NotFound
  <2>5. /\ irp'.pc = "dispatch" /\ irp'.code = code /\ irp'.outLen = outLen
        /\ irp'.inLen = inLen /\ irp'.top = 0 /\ irp'.information = 0
    BY <2>3 DEF Idle
  <2>. QED
    BY <2>1, <2>2, <2>4, <2>5
       DEF IInv, BufferRespected, InformationFits, FoundOccurs, GrantedToSuffix,
           OnlyClientOpens, SystemBufferSize
<1>. QED
  BY <1>1, <1>2

\* The search for the name moves on within the text of its request.
LEMMA SearchIInv ==
  ASSUME IInv, Search \/ Compare
  PROVE  IInv'
<1>1. /\ TypeOK /\ BufferRespected /\ InformationFits /\ OnlyClientOpens
      /\ FoundOccurs /\ GrantedToSuffix
      /\ irp.text.occurs \in SUBSET Nat
  BY RequestTyped DEF IInv
<1>2. CASE Search
  BY <1>1, <1>2, ZenonT(60)
     DEF Search, IInv, TypeOK, BufferRespected, InformationFits, FoundOccurs,
         GrantedToSuffix, OnlyClientOpens, SystemBufferSize
<1>3. CASE Compare
  <2>1. NotFound # irp.text.end
    BY <1>1, RequestTyped DEF NotFound
  <2>. QED
    BY <1>1, <1>3, <2>1
       DEF Compare, IInv, TypeOK, BufferRespected, InformationFits, FoundOccurs,
           GrantedToSuffix, OnlyClientOpens, SystemBufferSize
<1>. QED
  BY <1>2, <1>3

\* The answers about the suffix: an open that is granted is of a path that
\* ends with the name.
LEMMA SuffixIInv ==
  ASSUME IInv, SuffixFound \/ SuffixNotFound
  PROVE  IInv'
<1>1. /\ irp.top \in Nat /\ irp.top <= SystemBufferSize
      /\ irp.outLen \in Nat /\ 0 \in Nat /\ 0 <= irp.outLen
  BY RequestTyped DEF IInv, BufferRespected
<1>2. device' = device
  BY DEF SuffixFound, SuffixNotFound
<1>3. ASSUME NEW status \in Failures, Fail(status) PROVE IInv'
  BY <1>2, <1>3, FailIInv
<1>4. {"STATUS_CANNOT_DELETE", "STATUS_ACCESS_DENIED"} \subseteq Failures
  BY DEF Failures
<1>5. CASE SuffixFound /\ Answer("STATUS_SUCCESS", 0, irp.top)
  <2>1. irp.code = "CREATE" => irp.text.end \in irp.text.occurs
    BY <1>5 DEF IInv, SuffixFound, GrantedToSuffix
  <2>. QED
    BY <1>1, <1>2, <1>5, <2>1, AnswerIInv
<1>. QED
  BY <1>3, <1>4, <1>5 DEF SuffixFound, SuffixNotFound

\* VERSION and COUNT_NODES: the text or the number, if there is room for it.
LEMMA ReplyIInv ==
  ASSUME IInv, NEW code \in {"VERSION", "COUNT_NODES"}, NEW size \in Nat, Reply(code, size)
  PROVE  IInv'
<1>1. irp.outLen \in Nat /\ irp.outLen <= SystemBufferSize /\ SystemBufferSize \in Nat
  BY RequestTyped DEF IInv
<1>2. device' = device /\ irp.code # "CREATE"
  BY DEF Reply, Dispatched
<1>3. "STATUS_BUFFER_TOO_SMALL" \in Failures
  BY DEF Failures
<1>4. CASE irp.outLen < size
  BY <1>2, <1>3, <1>4, FailIInv DEF Reply
<1>5. CASE ~(irp.outLen < size)
  <2>1. size <= irp.outLen /\ size <= SystemBufferSize
    BY <1>1, <1>5
  <2>. QED
    BY <1>2, <1>5, <2>1, AnswerIInv DEF Reply
<1>. QED
  BY <1>4, <1>5

\* ADD_TO_WATCHED: no field is read that the input is too short for.
LEMMA AddProcessWatchIInv ==
  ASSUME IInv, AddProcessWatch
  PROVE  IInv'
<1>. DEFINE top == IF ~InputTooSmall(SizeOfProcessDataEx_v2) THEN 20
                   ELSE IF ~InputTooSmall(SizeOfProcessDataEx_v1) THEN 16
                   ELSE ULONGSize
<1>1. /\ irp.inLen \in Nat /\ irp.inLen <= SystemBufferSize /\ SystemBufferSize \in Nat
      /\ irp.outLen \in Nat /\ 0 \in Nat /\ 0 <= irp.outLen
  BY RequestTyped DEF IInv
<1>2. device' = device /\ irp.code # "CREATE"
  BY DEF AddProcessWatch, Dispatched
<1>3. {"STATUS_BUFFER_TOO_SMALL", "STATUS_INVALID_PARAMETER", "STATUS_UNSUCCESSFUL"} \subseteq Failures
  BY DEF Failures
<1>4. CASE InputTooSmall(SizeOfProcessDataBasic)
  BY <1>2, <1>3, <1>4, FailIInv DEF AddProcessWatch
<1>5. CASE ~InputTooSmall(SizeOfProcessDataBasic)
  <2>1. top \in Nat /\ top <= SystemBufferSize
    BY <1>1, <1>5 DEF InputTooSmall, SizeOfProcessDataBasic, SizeOfProcessDataEx_v1,
                      SizeOfProcessDataEx_v2, ULONGSize
  <2>2. PICK status \in {"STATUS_SUCCESS", "STATUS_INVALID_PARAMETER", "STATUS_UNSUCCESSFUL"} :
          Answer(status, 0, top)
    BY <1>5 DEF AddProcessWatch
  <2>3. status \in Failures \cup {"STATUS_SUCCESS"}
    BY <1>3
  <2>. HIDE DEF top
  <2>. QED
    BY <1>1, <1>2, <2>1, <2>2, <2>3, AnswerIInv
<1>. QED
  BY <1>4, <1>5

\* TERMINATE_WATCHED
LEMMA TerminateWatchedIInv ==
  ASSUME IInv, TerminateWatched
  PROVE  IInv'
<1>1. /\ irp.inLen \in Nat /\ irp.inLen <= SystemBufferSize /\ SystemBufferSize \in Nat
      /\ irp.outLen \in Nat /\ 0 \in Nat /\ 0 <= irp.outLen
  BY RequestTyped DEF IInv
<1>2. device' = device /\ irp.code # "CREATE"
  BY DEF TerminateWatched, Dispatched
<1>3. {"STATUS_BUFFER_TOO_SMALL", "STATUS_UNSUCCESSFUL"} \subseteq Failures
  BY DEF Failures
<1>4. CASE InputTooSmall(SizeOfProcessDataBasic)
  BY <1>2, <1>3, <1>4, FailIInv DEF TerminateWatched
<1>5. CASE ~InputTooSmall(SizeOfProcessDataBasic)
  <2>1. ULONGSize \in Nat /\ ULONGSize <= SystemBufferSize
    BY <1>1, <1>5 DEF InputTooSmall, SizeOfProcessDataBasic, ULONGSize
  <2>2. PICK status \in {"STATUS_SUCCESS", "STATUS_UNSUCCESSFUL"} : Answer(status, 0, ULONGSize)
    BY <1>5 DEF TerminateWatched
  <2>3. status \in Failures \cup {"STATUS_SUCCESS"}
    BY <1>3
  <2>. QED
    BY <1>1, <1>2, <2>1, <2>2, <2>3, AnswerIInv
<1>. QED
  BY <1>4, <1>5

\* DELETE_WATCHED_FILE: the terminator is written inside the buffer, and a
\* search of the name is for no open.
LEMMA DeleteWatchedFileIInv ==
  ASSUME IInv, NEW name \in Texts, DeleteWatchedFile(name)
  PROVE  IInv'
<1>. DEFINE top == OffsetOfFileName + WCHARSize * (FileNameLen + 1)
<1>1. /\ irp.inLen \in Nat /\ irp.inLen <= SystemBufferSize /\ SystemBufferSize \in Nat
      /\ irp.outLen \in Nat /\ 0 \in Nat /\ 0 <= irp.outLen
  BY RequestTyped DEF IInv
<1>2. device' = device /\ irp.code = "DELETE_WATCHED_FILE"
  BY DEF DeleteWatchedFile, Dispatched
<1>3. {"STATUS_BUFFER_TOO_SMALL", "STATUS_ACCESS_DENIED", "STATUS_UNSUCCESSFUL"} \subseteq Failures
  BY DEF Failures
<1>4. CASE InputTooSmall(MinimalDeleteRequestSize)
  BY <1>2, <1>3, <1>4, FailIInv DEF DeleteWatchedFile
<1>5. CASE ~InputTooSmall(MinimalDeleteRequestSize)
  <2>1. irp.inLen >= MinimalDeleteRequestSize
    BY <1>1, <1>5 DEF InputTooSmall, MinimalDeleteRequestSize, SizeOfProcessFileData, WCHARSize
  <2>2. top \in Nat /\ top <= irp.inLen
    BY <1>1, <2>1, TerminatorFits
  <2>3. top <= SystemBufferSize
    BY <1>1, <2>2
  <2>4. \/ \E status \in {"STATUS_SUCCESS", "STATUS_ACCESS_DENIED", "STATUS_UNSUCCESSFUL"} :
              Answer(status, 0, top)
        \/ irp' = [irp EXCEPT !.pc = "search", !.text = name, !.top = top]
    BY <1>5 DEF DeleteWatchedFile
  <2>. HIDE DEF top
  <2>5. ASSUME NEW status \in {"STATUS_SUCCESS", "STATUS_ACCESS_DENIED", "STATUS_UNSUCCESSFUL"},
               Answer(status, 0, top)
        PROVE  IInv'
    <3>1. status \in Failures \cup {"STATUS_SUCCESS"}
      BY <1>3
    <3>. QED
      BY <1>1, <1>2, <2>2, <2>3, <2>5, <3>1, AnswerIInv
  <2>6. CASE irp' = [irp EXCEPT !.pc = "search", !.text = name, !.top = top]
    <3>1. TypeOK'
      BY <1>2, <2>2, <2>6 DEF IInv, TypeOK
    <3>2. /\ irp'.pc = "search" /\ irp'.code = irp.code /\ irp'.top = top
          /\ irp'.inLen = irp.inLen /\ irp'.outLen = irp.outLen
          /\ irp'.information = irp.information
      BY <2>6 DEF IInv, TypeOK
    <3>. QED
      BY <1>2, <2>3, <3>1, <3>2
         DEF IInv, BufferRespected, InformationFits, FoundOccurs, GrantedToSuffix,
             OnlyClientOpens, SystemBufferSize
  <2>. QED
    BY <2>4, <2>5, <2>6
<1>. QED
  BY <1>4, <1>5

\* LIST_PROCESSES and LIST_FILES: no more is copied or cleared than the
\* caller's buffer holds.
LEMMA CopyWatchedListIInv ==
  ASSUME IInv, NEW code \in {"LIST_PROCESSES", "LIST_FILES"},
         NEW size \in {ULONGSize, LONGLONGSize}, NEW count \in Nat,
         CopyWatchedList(code, size, count)
  PROVE  IInv'
<1>. DEFINE length == ItemsCopied(count, size) * size
            top == Larger(ULONGSize, IF count = 0 THEN 0 ELSE irp.outLen)
<1>1. /\ irp.inLen \in Nat /\ irp.inLen <= SystemBufferSize /\ SystemBufferSize \in Nat
      /\ irp.outLen \in Nat /\ irp.outLen <= SystemBufferSize
  BY RequestTyped DEF IInv
<1>2. device' = device /\ irp.code # "CREATE"
  BY DEF CopyWatchedList, Dispatched
<1>3. "STATUS_BUFFER_TOO_SMALL" \in Failures
  BY DEF Failures
<1>4. CASE InputTooSmall(SizeOfProcessDataBasic) \/ irp.outLen < size
  BY <1>2, <1>3, <1>4, FailIInv DEF CopyWatchedList
<1>5. CASE ~(InputTooSmall(SizeOfProcessDataBasic) \/ irp.outLen < size)
  <2>1. length \in Nat /\ length <= irp.outLen
    BY <1>1, WholeElementsFit DEF ItemsCopied
  <2>2. top \in Nat /\ top <= SystemBufferSize
    BY <1>1, <1>5 DEF Larger, InputTooSmall, SizeOfProcessDataBasic, ULONGSize
  <2>3. Answer("STATUS_SUCCESS", length, top)
    BY <1>5 DEF CopyWatchedList
  <2>. HIDE DEF length, top
  <2>. QED
    BY <1>2, <2>1, <2>2, <2>3, AnswerIInv
<1>. QED
  BY <1>4, <1>5

\* The end of a request: the device is open only to a process whose path has
\* passed the test.
LEMMA CompleteIInv ==
  ASSUME IInv, Complete
  PROVE  IInv'
<1>1. irp' = Idle /\ irp.pc = "answered"
  BY DEF Complete
<1>2. OnlyClientOpens'
  BY <1>1 DEF Complete, IInv, OnlyClientOpens, GrantedToSuffix
<1>3. TypeOK'
  BY <1>1 DEF Complete, IInv, TypeOK, Idle, NoText, NotFound
<1>. QED
  BY <1>1, <1>2, <1>3
     DEF IInv, BufferRespected, InformationFits, FoundOccurs, GrantedToSuffix, Idle,
         SystemBufferSize

LEMMA NextIInv == IInv /\ [Next]_vars => IInv'
<1>. SUFFICES ASSUME IInv, [Next]_vars PROVE IInv'
  OBVIOUS
<1>1. CASE UNCHANGED vars
  BY <1>1 DEF vars, IInv, TypeOK, BufferRespected, InformationFits, FoundOccurs,
              GrantedToSuffix, OnlyClientOpens, SystemBufferSize
<1>2. ASSUME NEW code \in {"CREATE", "CLOSE"}, NEW text \in Texts, NEW fits \in BOOLEAN,
             CreateClose(code, text, fits)
      PROVE  IInv'
  BY <1>2, BeginIInv
<1>3. ASSUME NEW code \in Codes, NEW inLen \in Sizes, NEW outLen \in Sizes,
             DeviceControl(code, inLen, outLen)
      PROVE  IInv'
  BY <1>3, BeginIInv
<1>4. CASE Search \/ Compare
  BY <1>4, SearchIInv
<1>5. CASE SuffixFound \/ SuffixNotFound
  BY <1>5, SuffixIInv
<1>6. CASE Reply("VERSION", VersionSize) \/ Reply("COUNT_NODES", ULONGSize)
  <2>1. VersionSize \in Nat /\ ULONGSize \in Nat
    BY VersionAssumption DEF ULONGSize
  <2>. QED
    BY <1>6, <2>1, ReplyIInv
<1>7. CASE AddProcessWatch
  BY <1>7, AddProcessWatchIInv
<1>8. CASE TerminateWatched
  BY <1>8, TerminateWatchedIInv
<1>9. ASSUME NEW name \in Texts, DeleteWatchedFile(name) PROVE IInv'
  BY <1>9, DeleteWatchedFileIInv
<1>10. ASSUME NEW count \in 0 .. MaxItems,
              \/ CopyWatchedList("LIST_PROCESSES", ULONGSize, count)
              \/ CopyWatchedList("LIST_FILES", LONGLONGSize, count)
       PROVE  IInv'
  <2>1. count \in Nat
    BY ItemsAssumption
  <2>. QED
    BY <1>10, <2>1, CopyWatchedListIInv
<1>11. CASE Unknown
  <2>1. "STATUS_INVALID_DEVICE_REQUEST" \in Failures
    BY DEF Failures
  <2>. QED
    BY <1>11, <2>1, FailIInv DEF Unknown, Dispatched
<1>12. CASE Complete
  BY <1>12, CompleteIInv
<1>. QED
  BY <1>1, <1>2, <1>3, <1>4, <1>5, <1>6, <1>7, <1>8, <1>9, <1>10, <1>11, <1>12
     DEF Next, HandlerStep

LEMMA IInvIsInvariant == Spec => []IInv
<1>1. IInv /\ [Next]_vars => IInv'
  BY NextIInv
<1>. QED
  BY <1>1, InitIInv, PTL DEF Spec

-----------------------------------------------------------------------------
\* A request is always at a step of its handler, with lengths and a status
\* that it can have.
THEOREM RequestsTyped == Spec => []TypeOK
<1>1. IInv => TypeOK
  BY DEF IInv
<1>. QED
  BY <1>1, IInvIsInvariant, PTL

\* Whatever lengths a caller gives, no handler leaves the system buffer: not
\* with the fields of a structure, not with the terminator behind the name
\* of a file, and not with a list.
THEOREM HandlersRespectBuffer == Spec => []BufferRespected
<1>1. IInv => BufferRespected
  BY DEF IInv
<1>. QED
  BY <1>1, IInvIsInvariant, PTL

\* IoStatus.Information is never more than the caller's buffer has room for.
THEOREM AnswersFit == Spec => []InformationFits
<1>1. IInv => InformationFits
  BY DEF IInv
<1>. QED
  BY <1>1, IInvIsInvariant, PTL

\* The device is open only to a process whose path ends with the client's
\* name, for every text.
THEOREM OpenedByClientOnly == Spec => []OnlyClientOpens
<1>1. IInv => OnlyClientOpens
  BY DEF IInv
<1>. QED
  BY <1>1, IInvIsInvariant, PTL
=============================================================================
