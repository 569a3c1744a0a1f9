------------------------- MODULE CallArgumentsProofs -------------------------
(***************************************************************************)
(* Proofs about CallArguments, for calls with any number of parameters.    *)
(*                                                                         *)
(* What the properties say of the moment when Qt runs, and of the end of   *)
(* the call, holds because of what each conversion leaves behind for its   *)
(* own parameter: nothing before it is reached, and after it an entry that *)
(* owns what is on the heap or a parameter that is known to leak, an item  *)
(* that points to what exists, and the reference only if it may be used.   *)
(***************************************************************************)
EXTENDS CallArguments, TLAPS

-----------------------------------------------------------------------------
(* The inductive invariant *)

EntryRecord == [type : EntryTypes, ref : BOOLEAN]
Temps == {"none", "live", "freed", "given"}
Slots == {"unset", "null", "value", "entry", "sink", "temp", "object"}
HeapTypes == {"r_str", "r_qstr", "r_other", "r_qpixmap", "r_smokeobj"}

\* what callers pass
StaticOk ==
    /\ handler => mode = "call"
    /\ \A i \in Positions : /\ mode # "call" => ~params[i].byRef
                            /\ params[i].kind = "find" => handler

\* not converted yet
Fresh(i) == entry[i] = NoEntry /\ temp[i] = "none" /\ slot[i] = "unset"

\* nobody but the entry owns the temporary, if it is not one that is lost
Owned(i) == temp[i] = "live" => \/ Unstored(i)
                                \/ phase # "finished" /\ entry[i].type \in HeapTypes
Borrowed(i) == i \in owed => params[i].given = "object" \/ params[i].kind = "list"
SlotSound(i) ==
    /\ slot[i] = "entry" => entry[i].type = "r_scalar"
    /\ slot[i] = "temp" /\ phase \in {"convert", "qt"} => temp[i] = "live"
\* the reference is kept only for what comes before an error
Referable(i) ==
    entry[i].ref => /\ params[i].byRef /\ ~params[i].const
                    /\ handler \/ \A j \in Positions : j < i => slot[j] # "unset"
WrittenOk(i) ==
    variable[i] # "old" =>
        /\ entry[i].ref
        /\ entry[i].type \in {"r_scalar", "r_str"} => variable[i] = "qt" /\ qtRan

ParameterOk(i) == Owned(i) /\ Borrowed(i) /\ SlotSound(i) /\ Referable(i) /\ WrittenOk(i)

\* how far the call is
Progress ==
    /\ phase = "convert" =>
           /\ \A i \in Positions : i >= at => Fresh(i)
           /\ ~raised => \A i \in Positions : i < at => slot[i] # "unset"
           /\ handler \/ \A i \in Positions : i < at => slot[i] # "unset"
    /\ phase = "qt" => \A i \in Positions : slot[i] # "unset"

CallInv ==
    /\ CallTypeOK /\ StaticOk /\ Progress
    /\ \A i \in Positions : ParameterOk(i)

LEMMA PositionsAre ==
    ASSUME CallTypeOK
    PROVE  /\ MaxParams \in Nat /\ Positions \subseteq 1..MaxParams
           /\ at \in Nat /\ at >= 1
           /\ at \notin Positions => \A i \in Positions : i < at
           /\ at \in Positions => at + 1 \in 1..MaxParams + 1
<1>1. MaxParams \in Nat
  BY ParamsAssumption
<1>2. PICK n \in 1..MaxParams : Positions = 1..n
  BY DEF CallTypeOK
<1>3. at \in Nat /\ at >= 1 /\ at <= MaxParams + 1
  BY <1>1 DEF CallTypeOK
<1>. QED  BY <1>1, <1>2, <1>3

LEMMA InitCall == CallInit => CallInv
<1>. SUFFICES ASSUME CallInit PROVE CallInv
  OBVIOUS
<1>1. PICK n \in 1..MaxParams : params \in [1..n -> Params]
  BY DEF CallInit
<1>2. Positions = 1..n /\ MaxParams \in Nat
  BY <1>1, ParamsAssumption DEF Positions
<1>3. CallTypeOK
  <2>1. NoEntry \in EntryRecord
    BY DEF NoEntry, EntryRecord, EntryTypes
  <2>2. Positions \in {1..k : k \in 1..MaxParams} /\ params \in [Positions -> Params]
    BY <1>1, <1>2
  <2>3. at \in 1..MaxParams + 1
    BY <1>2 DEF CallInit
  <2>. QED  BY <2>1, <2>2, <2>3 DEF CallInit, CallTypeOK, EntryRecord
<1>4. \A i \in Positions : Fresh(i) /\ ParameterOk(i)
  BY DEF CallInit, Fresh, NoEntry, ParameterOk, Owned, Borrowed, SlotSound, Referable, WrittenOk
<1>5. StaticOk
  BY DEF CallInit, StaticOk
<1>6. Progress
  BY <1>2, <1>4 DEF CallInit, Progress
<1>. QED  BY <1>3, <1>4, <1>5, <1>6 DEF CallInv

-----------------------------------------------------------------------------
(* One parameter is converted *)

\* e, tm and sl: the entry, the temporary and the item of the parameter after
\* its conversion; ow: it keeps a reference to private data.
Leaves(e, tm, sl, ow) ==
    /\ entry' = [entry EXCEPT ![at] = e]
    /\ temp' = [temp EXCEPT ![at] = tm]
    /\ slot' = [slot EXCEPT ![at] = sl]
    /\ owed' = IF ow THEN owed \cup {at} ELSE owed
    /\ Static /\ callFault' = callFault

\* what a conversion may leave
Allowed(e, tm, sl, ow) ==
    /\ e \in EntryRecord /\ tm \in {"none", "live"} /\ sl \in Slots /\ ow \in BOOLEAN
    /\ e.ref => P.byRef /\ ~P.const
    /\ tm = "live" => Unstored(at) \/ e.type \in HeapTypes
    /\ ow => P.given = "object" \/ P.kind = "list"
    /\ sl = "entry" => e.type = "r_scalar"
    /\ sl = "temp" => tm = "live"

LEMMA ConversionKeeps ==
    ASSUME CallInv, phase = "convert", at \in Positions,
           NEW e, NEW tm, NEW sl, NEW ow, Leaves(e, tm, sl, ow), Allowed(e, tm, sl, ow),
           Raise \/ (Continue /\ sl # "unset")
    PROVE  CallInv'
<1>1. CallTypeOK /\ StaticOk /\ Progress /\ \A i \in Positions : ParameterOk(i)
  BY DEF CallInv
<1>2. /\ Positions' = Positions /\ params' = params /\ mode' = mode /\ handler' = handler
      /\ variable' = variable /\ qtRan' = qtRan
  BY DEF Leaves, Static, Positions
<1>3. /\ Positions \subseteq 1..MaxParams /\ MaxParams \in Nat /\ at \in Nat
      /\ at + 1 \in 1..MaxParams + 1 /\ 1 \in 1..MaxParams + 1
  BY <1>1, PositionsAre
<1>4. /\ entry \in [Positions -> EntryRecord] /\ temp \in [Positions -> Temps]
      /\ slot \in [Positions -> Slots]
  BY <1>1 DEF CallTypeOK, EntryRecord, Temps, Slots
<1>5. /\ entry'[at] = e /\ temp'[at] = tm /\ slot'[at] = sl
      /\ \A i \in Positions \ {at} : /\ entry'[i] = entry[i] /\ temp'[i] = temp[i]
                                     /\ slot'[i] = slot[i] /\ (i \in owed' => i \in owed)
      /\ at \in owed' => ow \/ at \in owed
  BY <1>4 DEF Leaves
<1>6. /\ phase' \in {"convert", "release"} /\ at' \in {1, at + 1}
      /\ raised' \in BOOLEAN
      /\ phase' = "convert" =>
            /\ at' = at + 1
            /\ handler \/ sl # "unset"
            /\ ~raised' => ~raised /\ sl # "unset"
  BY <1>1 DEF Raise, Continue, CallTypeOK
<1>7. CallTypeOK'
  <2>1. /\ entry' \in [Positions -> EntryRecord]
        /\ temp' \in [Positions -> Temps] /\ slot' \in [Positions -> Slots]
    BY <1>4 DEF Leaves, Allowed, Temps
  <2>2. owed' \subseteq Positions
    BY <1>1 DEF Leaves, CallTypeOK
  <2>3. at' \in 1..MaxParams + 1
    BY <1>3, <1>6
  <2>4. callFault' = callFault
    BY DEF Leaves
  <2>. QED  BY <1>1, <1>2, <1>6, <2>1, <2>2, <2>3, <2>4 DEF CallTypeOK, EntryRecord, Temps, Slots
<1>8. StaticOk'
  BY <1>1, <1>2 DEF StaticOk
<1>9. Progress'
  <2>1. \A i \in Positions : i \in Nat
    BY <1>3
  <2>2. ASSUME phase' = "convert", NEW i \in Positions
        PROVE  /\ i >= at' => Fresh(i)'
               /\ ~raised' /\ i < at' => slot'[i] # "unset"
               /\ handler \/ (i < at' => slot'[i] # "unset")
    <3>1. at' = at + 1 /\ (handler \/ sl # "unset") /\ (~raised' => ~raised /\ sl # "unset")
      BY <1>6, <2>2
    <3>2. i >= at' => i # at /\ i >= at
      BY <1>3, <2>1, <3>1
    <3>3. i < at' => i = at \/ i < at
      BY <1>3, <2>1, <3>1
    <3>4. i >= at' => Fresh(i)'
      BY <1>1, <1>5, <3>2 DEF Progress, Fresh
    <3>5. ~raised' /\ i < at' => slot'[i] # "unset"
      BY <1>1, <1>5, <3>1, <3>3 DEF Progress
    <3>6. handler \/ (i < at' => slot'[i] # "unset")
      BY <1>1, <1>5, <2>2, <3>1, <3>3 DEF Progress
    <3>. QED  BY <3>4, <3>5, <3>6
  <2>. QED  BY <1>2, <1>6, <2>2 DEF Progress
<1>10. ASSUME NEW i \in Positions PROVE ParameterOk(i)'
  <2>1. Unstored(i)' = Unstored(i)
    BY <1>2 DEF Unstored
  <2>2. CASE i # at
    <3>1. ParameterOk(i) /\ i \in Positions \ {at}
      BY <1>1, <2>2
    <3>2. Owned(i)' /\ Borrowed(i)' /\ SlotSound(i)' /\ WrittenOk(i)'
      BY <1>2, <1>5, <1>6, <2>1, <3>1 DEF ParameterOk, Owned, Borrowed, SlotSound, WrittenOk
    <3>3. CASE i < at
      <4>1. \A j \in Positions : j < i => slot'[j] = slot[j]
        BY <1>3, <1>5, <3>3
      <4>. QED  BY <1>2, <1>5, <3>1, <3>2, <4>1 DEF ParameterOk, Referable
    <3>4. CASE i > at
      <4>1. Fresh(i)
        BY <1>1, <1>3, <3>4 DEF Progress
      <4>. QED  BY <1>5, <3>1, <3>2, <4>1 DEF ParameterOk, Referable, Fresh, NoEntry
    <3>. QED  BY <1>3, <2>2, <3>3, <3>4
  <2>3. CASE i = at
    <3>1. Fresh(at) /\ ParameterOk(at)
      BY <1>1, <1>3 DEF Progress
    <3>2. variable[at] = "old"
      BY <3>1 DEF Fresh, ParameterOk, WrittenOk, NoEntry
    <3>3. handler \/ \A j \in Positions : j < at => slot'[j] # "unset"
      BY <1>1, <1>3, <1>5 DEF Progress
    <3>4. Owned(i)' /\ SlotSound(i)'
      BY <1>5, <1>6, <2>1, <2>3 DEF Allowed, Owned, SlotSound
    <3>5. Borrowed(i)'
      BY <1>2, <1>5, <2>3, <3>1 DEF Allowed, Borrowed, ParameterOk, P
    <3>6. Referable(i)'
      BY <1>2, <1>5, <2>3, <3>3 DEF Allowed, Referable, P
    <3>7. WrittenOk(i)'
      BY <1>2, <2>3, <3>2 DEF WrittenOk
    <3>. QED  BY <3>4, <3>5, <3>6, <3>7 DEF ParameterOk
  <2>. QED  BY <2>2, <2>3
<1>. QED  BY <1>2, <1>7, <1>8, <1>9, <1>10 DEF CallInv

\* A parameter that was not converted has nothing yet.
LEMMA NothingDone ==
    ASSUME CallInv, phase = "convert", at \in Positions
    PROVE  /\ P \in Params
           /\ entry = [entry EXCEPT ![at] = NoEntry]
           /\ temp = [temp EXCEPT ![at] = "none"]
           /\ slot = [slot EXCEPT ![at] = "unset"]
<1>1. Fresh(at)
  <2>1. at \in Nat /\ at >= at
    BY PositionsAre DEF CallInv
  <2>. QED  BY <2>1 DEF CallInv, Progress
<1>2. /\ entry \in [Positions -> EntryRecord] /\ temp \in [Positions -> Temps]
      /\ slot \in [Positions -> Slots] /\ params \in [Positions -> Params]
  BY DEF CallInv, CallTypeOK, EntryRecord, Temps, Slots
<1>. QED  BY <1>1, <1>2 DEF Fresh, P

LEMMA ParamFields ==
    ASSUME NEW p \in Params
    PROVE  p.byRef \in BOOLEAN /\ p.const \in BOOLEAN /\ p.kind \in Kinds
BY DEF Params

LEMMA EntryFields ==
    ASSUME CallInv, phase = "convert", at \in Positions, NEW type \in EntryTypes
    PROVE  /\ [Acquired EXCEPT !.type = type] \in EntryRecord
           /\ [Acquired EXCEPT !.type = type].type = type
           /\ [Acquired EXCEPT !.type = type].ref => P.byRef /\ ~P.const
           /\ Acquired \in EntryRecord /\ (Acquired.ref => P.byRef /\ ~P.const)
           /\ NoEntry \in EntryRecord /\ ~NoEntry.ref
<1>1. P.byRef \in BOOLEAN /\ P.const \in BOOLEAN
  BY NothingDone, ParamFields
<1>. QED  BY <1>1 DEF Acquired, NoEntry, EntryRecord, EntryTypes

LEMMA ConvertScalarKeeps == CallInv /\ ConvertScalar => CallInv'
<1>. SUFFICES ASSUME CallInv, ConvertScalar PROVE CallInv'
  OBVIOUS
<1>1. phase = "convert" /\ at \in Positions /\ P.kind = "scalar"
  BY DEF ConvertScalar, Converting, P
<1>2. P.given # "bad"
  BY <1>1, NothingDone DEF Params, Fallible
<1>3. Leaves(NoEntry, "none", "value", FALSE)
  BY <1>1, NothingDone DEF ConvertScalar, Points, Leaves
<1>4. Allowed(NoEntry, "none", "value", FALSE)
  BY <1>1, EntryFields DEF Allowed, Slots, EntryTypes
<1>. QED  BY <1>1, <1>2, <1>3, <1>4, ConversionKeeps DEF ConvertScalar

LEMMA ConvertArgvKeeps == CallInv /\ (ConvertArgv \/ ConvertInEntry) => CallInv'
<1>. SUFFICES ASSUME CallInv, ConvertArgv \/ ConvertInEntry PROVE CallInv'
  OBVIOUS
<1>1. /\ phase = "convert" /\ at \in Positions /\ P.given # "bad"
  <2>1. CASE ConvertArgv
    BY <2>1 DEF ConvertArgv, Converting
  <2>2. CASE ConvertInEntry
    <3>1. phase = "convert" /\ at \in Positions /\ P.kind \in NeedsCall
      BY <2>2 DEF ConvertInEntry, Converting, P
    <3>2. P.given # "bad"
      BY <3>1, NothingDone DEF Params, NeedsCall, Fallible
    <3>. QED  BY <3>1, <3>2
  <2>. QED  BY <2>1, <2>2
<1>2. CASE mode = "call"
  <2>1. PICK sl \in {"sink", "entry"}, type \in {"r_sl", "r_scalar"} :
          /\ Leaves([Acquired EXCEPT !.type = type], "none", sl, FALSE)
          /\ sl = "entry" => type = "r_scalar"
          /\ Continue
    BY <1>1, <1>2, NothingDone DEF ConvertArgv, ConvertInEntry, Holding, Enter, Points, Leaves
  <2>2. Allowed([Acquired EXCEPT !.type = type], "none", sl, FALSE)
    BY <1>1, <2>1, EntryFields DEF Allowed, Slots, EntryTypes
  <2>. QED  BY <1>1, <2>1, <2>2, ConversionKeeps
<1>3. CASE mode # "call"
  <2>1. Leaves(NoEntry, "none", "unset", FALSE) /\ Raise
    BY <1>1, <1>3, NothingDone DEF ConvertArgv, ConvertInEntry, Leaves
  <2>2. Allowed(NoEntry, "none", "unset", FALSE)
    BY <1>1, EntryFields DEF Allowed, Slots, EntryTypes
  <2>. QED  BY <1>1, <2>1, <2>2, ConversionKeeps
<1>. QED  BY <1>2, <1>3

LEMMA ConvertCharsKeeps == CallInv /\ ConvertChars => CallInv'
<1>. SUFFICES ASSUME CallInv, ConvertChars PROVE CallInv'
  OBVIOUS
<1>1. phase = "convert" /\ at \in Positions /\ P.kind = "string" /\ Continue
  BY DEF ConvertChars, Converting, P
<1>2. CASE P.given = "nothing"
  <2>1. Leaves(Acquired, "none", "null", FALSE)
    BY <1>1, <1>2, NothingDone DEF ConvertChars, Enter, Points, Leaves
  <2>2. Allowed(Acquired, "none", "null", FALSE)
    BY <1>1, EntryFields DEF Allowed, Slots, EntryTypes
  <2>. QED  BY <1>1, <2>1, <2>2, ConversionKeeps
<1>3. CASE P.given # "nothing" /\ mode = "return"
  <2>1. Leaves(NoEntry, "live", "temp", FALSE)
    BY <1>1, <1>3, NothingDone DEF ConvertChars, Makes, Points, Leaves
  <2>2. Allowed(NoEntry, "live", "temp", FALSE)
    BY <1>1, <1>3, EntryFields DEF Allowed, Slots, EntryTypes, Unstored
  <2>. QED  BY <1>1, <2>1, <2>2, ConversionKeeps
<1>4. CASE P.given # "nothing" /\ mode # "return"
  <2>. DEFINE e == [Acquired EXCEPT !.type = "r_str"]
  <2>1. Leaves(e, "live", "temp", FALSE)
    BY <1>1, <1>4 DEF ConvertChars, Holding, Enter, Makes, Points, Leaves
  <2>2. Allowed(e, "live", "temp", FALSE)
    <3>1. "r_str" \in EntryTypes
      BY DEF EntryTypes
    <3>2. e \in EntryRecord /\ e.type = "r_str" /\ (e.ref => P.byRef /\ ~P.const)
      BY <1>1, <3>1, EntryFields
    <3>. HIDE DEF e
    <3>. QED  BY <3>2 DEF Allowed, Slots, HeapTypes
  <2>. HIDE DEF e
  <2>. QED  BY <1>1, <2>1, <2>2, ConversionKeeps
<1>. QED  BY <1>2, <1>3, <1>4

LEMMA ConvertBoxedKeeps == CallInv /\ ConvertBoxed => CallInv'
<1>. SUFFICES ASSUME CallInv, ConvertBoxed PROVE CallInv'
  OBVIOUS
<1>1. /\ phase = "convert" /\ at \in Positions /\ P.kind \in Boxed /\ P.given # "bad"
      /\ ~VariantIsNull /\ ~Unresolved /\ P = params[at] /\ Continue
  BY DEF ConvertBoxed, Converting, P
<1>2. mode \in Modes /\ (P.kind = "find" => mode = "call")
  BY <1>1 DEF CallInv, CallTypeOK, StaticOk
<1>. DEFINE ow == P.given = "object"
<1>3. owed' = IF ow THEN owed \cup {at} ELSE owed
  BY DEF ConvertBoxed, Owes
<1>4. CASE ~Stored
  <2>1. Leaves(NoEntry, "live", "temp", ow)
    BY <1>1, <1>3, <1>4, NothingDone DEF ConvertBoxed, Makes, Points, Leaves
  <2>2. Unstored(at)
    BY <1>1, <1>2, <1>4 DEF Unstored, Stored, VariantIsNull, Unresolved, Boxed, Modes
  <2>3. Allowed(NoEntry, "live", "temp", ow)
    BY <1>1, <2>2, EntryFields DEF Allowed, Slots, EntryTypes
  <2>. QED  BY <1>1, <2>1, <2>3, ConversionKeeps
<1>5. CASE Stored
  <2>. DEFINE e == [Acquired EXCEPT !.type = EntryType]
  <2>1. Leaves(e, "live", "temp", ow)
    BY <1>1, <1>3, <1>5 DEF ConvertBoxed, Holding, Enter, Makes, Points, Leaves
  <2>2. Allowed(e, "live", "temp", ow)
    <3>1. EntryType \in EntryTypes /\ EntryType \in HeapTypes
      BY DEF EntryTypes, EntryType, HeapTypes
    <3>2. e \in EntryRecord /\ e.type = EntryType /\ (e.ref => P.byRef /\ ~P.const)
      BY <1>1, <3>1, EntryFields
    <3>. HIDE DEF e
    <3>. QED  BY <3>1, <3>2 DEF Allowed, Slots
  <2>. HIDE DEF e
  <2>. QED  BY <1>1, <2>1, <2>2, ConversionKeeps
<1>. QED  BY <1>4, <1>5

LEMMA ConvertBrushKeeps == CallInv /\ ConvertBrush => CallInv'
<1>. SUFFICES ASSUME CallInv, ConvertBrush PROVE CallInv'
  OBVIOUS
<1>1. phase = "convert" /\ at \in Positions /\ P.kind = "brush" /\ P = params[at]
  BY DEF ConvertBrush, Converting, P
<1>2. P.given # "bad"
  BY <1>1, NothingDone DEF Params, Fallible
<1>3. Leaves(Acquired, "live", "temp", FALSE)
  BY <1>1 DEF ConvertBrush, Enter, Makes, Points, Leaves
<1>4. Allowed(Acquired, "live", "temp", FALSE)
  BY <1>1, EntryFields DEF Allowed, Slots, EntryTypes, Unstored
<1>. QED  BY <1>1, <1>2, <1>3, <1>4, ConversionKeeps DEF ConvertBrush

LEMMA ConvertHandleKeeps == CallInv /\ ConvertHandle => CallInv'
<1>. SUFFICES ASSUME CallInv, ConvertHandle PROVE CallInv'
  OBVIOUS
<1>1. phase = "convert" /\ at \in Positions /\ P.given # "bad"
  BY DEF ConvertHandle, Converting
<1>2. PICK sl \in {"object", "null"} : Leaves(Acquired, "none", sl, FALSE)
  BY <1>1, NothingDone DEF ConvertHandle, Enter, Points, Leaves
<1>3. Allowed(Acquired, "none", sl, FALSE)
  BY <1>1, EntryFields DEF Allowed, Slots, EntryTypes
<1>. QED  BY <1>1, <1>2, <1>3, ConversionKeeps DEF ConvertHandle

LEMMA ConvertCopyKeeps == CallInv /\ ConvertCopy => CallInv'
<1>. SUFFICES ASSUME CallInv, ConvertCopy PROVE CallInv'
  OBVIOUS
<1>1. /\ phase = "convert" /\ at \in Positions /\ P.given # "bad"
      /\ P.kind = "copy" /\ P = params[at] /\ Continue
  BY DEF ConvertCopy, Converting, P
<1>2. CASE P.given = "good" /\ mode # "return"
  <2>1. Leaves(NoEntry, "none", "object", FALSE)
    BY <1>1, <1>2, NothingDone DEF ConvertCopy, Points, Leaves
  <2>2. Allowed(NoEntry, "none", "object", FALSE)
    BY <1>1, EntryFields DEF Allowed, Slots, EntryTypes
  <2>. QED  BY <1>1, <2>1, <2>2, ConversionKeeps
<1>3. CASE ~(P.given = "good" /\ mode # "return") /\ mode # "emit"
  <2>1. Leaves(NoEntry, "live", "temp", FALSE)
    BY <1>1, <1>3, NothingDone DEF ConvertCopy, Makes, Points, Leaves
  <2>2. Unstored(at)
    BY <1>1, <1>3 DEF Unstored, Modes, CallInv, CallTypeOK
  <2>3. Allowed(NoEntry, "live", "temp", FALSE)
    BY <1>1, <2>2, EntryFields DEF Allowed, Slots, EntryTypes
  <2>. QED  BY <1>1, <2>1, <2>3, ConversionKeeps
<1>4. CASE ~(P.given = "good" /\ mode # "return") /\ mode = "emit"
  <2>. DEFINE e == [Acquired EXCEPT !.type = "r_smokeobj"]
  <2>1. Leaves(e, "live", "temp", FALSE)
    BY <1>1, <1>4 DEF ConvertCopy, Holding, Enter, Makes, Points, Leaves
  <2>2. Allowed(e, "live", "temp", FALSE)
    <3>1. "r_smokeobj" \in EntryTypes
      BY DEF EntryTypes
    <3>2. e \in EntryRecord /\ e.type = "r_smokeobj" /\ (e.ref => P.byRef /\ ~P.const)
      BY <1>1, <3>1, EntryFields
    <3>. HIDE DEF e
    <3>. QED  BY <3>2 DEF Allowed, Slots, HeapTypes
  <2>. HIDE DEF e
  <2>. QED  BY <1>1, <2>1, <2>2, ConversionKeeps
<1>. QED  BY <1>2, <1>3, <1>4

LEMMA ConvertBadKeeps == CallInv /\ (ConvertBad \/ ConvertBadList) => CallInv'
<1>. SUFFICES ASSUME CallInv, ConvertBad \/ ConvertBadList PROVE CallInv'
  OBVIOUS
<1>1. phase = "convert" /\ at \in Positions /\ P = params[at] /\ Raise
  BY DEF ConvertBad, ConvertBadList, Converting, P
<1>2. CASE Leaves(Acquired, "none", "unset", FALSE)
  <2>1. Allowed(Acquired, "none", "unset", FALSE)
    BY <1>1, EntryFields DEF Allowed, Slots, EntryTypes
  <2>. QED  BY <1>1, <1>2, <2>1, ConversionKeeps
<1>3. CASE ConvertBad
  <2>1. Leaves(Acquired, "none", "unset", FALSE)
    BY <1>1, <1>3, NothingDone DEF ConvertBad, Enter, Leaves
  <2>. QED  BY <1>2, <2>1
<1>4. CASE ConvertBadList /\ RefuseContainer
  <2>1. Leaves(Acquired, "none", "unset", FALSE)
    BY <1>1, <1>4, NothingDone DEF ConvertBadList, RefuseContainer, Enter, Leaves
  <2>. QED  BY <1>2, <2>1
<1>5. CASE ConvertBadList /\ AbandonList
  <2>1. PICK ow \in BOOLEAN : Leaves(Acquired, "live", "unset", ow)
    BY <1>1, <1>5, NothingDone DEF ConvertBadList, AbandonList, Makes, Enter, Leaves
  <2>2. P.kind = "list" /\ (P.given = "bad" \/ (P.given = "object" /\ P.byRef))
    BY <1>5 DEF ConvertBadList, Converting, Unresolved, P
  <2>3. Allowed(Acquired, "live", "unset", ow)
    BY <1>1, <2>2, EntryFields DEF Allowed, Slots, EntryTypes, Unstored
  <2>. QED  BY <1>1, <2>1, <2>3, ConversionKeeps
<1>. QED  BY <1>3, <1>4, <1>5 DEF ConvertBadList

LEMMA ConvertReferenceKeeps == CallInv /\ ConvertReference => CallInv'
<1>. SUFFICES ASSUME CallInv, ConvertReference PROVE CallInv'
  OBVIOUS
<1>1. phase = "convert" /\ at \in Positions /\ Continue
  BY DEF ConvertReference, Converting
<1>. DEFINE e == [Acquired EXCEPT !.type = "r_other"]
<1>2. Leaves(e, "live", "temp", FALSE)
  BY DEF ConvertReference, Holding, Enter, Makes, Points, Leaves
<1>3. "r_other" \in EntryTypes /\ "r_other" \in HeapTypes
  BY DEF EntryTypes, HeapTypes
<1>4. e \in EntryRecord /\ e.type = "r_other" /\ (e.ref => P.byRef /\ ~P.const)
  BY <1>1, <1>3, EntryFields
<1>. HIDE DEF e
<1>5. Allowed(e, "live", "temp", FALSE)
  BY <1>3, <1>4 DEF Allowed, Slots
<1>. QED  BY <1>1, <1>2, <1>5, ConversionKeeps

-----------------------------------------------------------------------------
(* The call of Qt, and what follows it *)

LEMMA StopKeeps == CallInv /\ (NullVariant \/ NullDevice \/ ConvertUnknown) => CallInv'
<1>. SUFFICES ASSUME CallInv, NullVariant \/ NullDevice \/ ConvertUnknown PROVE CallInv'
  OBVIOUS
<1>1. PICK f \in {"null", "assert"} : Stops(f)
  BY DEF NullVariant, NullDevice, ConvertUnknown
<1>2. /\ callFault' \in {"null", "assert"}
      /\ UNCHANGED <<mode, handler, params, phase, at, entry, temp, slot, variable, owed,
                     qtRan, raised>>
  BY <1>1 DEF Stops, Static
<1>3. CallTypeOK'
  BY <1>2 DEF CallInv, CallTypeOK, Positions
<1>. QED  BY <1>2, <1>3 DEF CallInv, StaticOk, Progress, Positions, Fresh, ParameterOk, Owned,
          Unstored, Borrowed, SlotSound, Referable, WrittenOk

LEMMA PhaseKeeps == CallInv /\ (EnterQt \/ SkipQt \/ LeaveQt) => CallInv'
<1>. SUFFICES ASSUME CallInv, EnterQt \/ SkipQt \/ LeaveQt PROVE CallInv'
  OBVIOUS
<1>1. /\ UNCHANGED <<mode, handler, params, entry, temp, slot, variable, owed, raised, callFault>>
      /\ Positions' = Positions
      /\ phase' = "qt" => phase = "convert" /\ at \notin Positions /\ ~raised
      /\ phase \in {"convert", "qt"} /\ phase' \in {"qt", "release"}
      /\ at' \in {at, 1} /\ qtRan' \in BOOLEAN /\ (qtRan => qtRan')
  BY DEF EnterQt, SkipQt, LeaveQt, Positions, CallInv, CallTypeOK
<1>2. /\ MaxParams \in Nat /\ 1 \in 1..MaxParams + 1
      /\ at \notin Positions => \A i \in Positions : i < at
  <2>1. MaxParams \in Nat
    BY ParamsAssumption
  <2>. QED  BY <2>1, PositionsAre DEF CallInv
<1>3. CallTypeOK'
  BY <1>1, <1>2 DEF CallInv, CallTypeOK
<1>4. Progress'
  BY <1>1, <1>2 DEF CallInv, Progress
<1>5. ASSUME NEW i \in Positions PROVE ParameterOk(i)'
  <2>1. ParameterOk(i)
    BY DEF CallInv
  <2>. QED  BY <1>1, <2>1 DEF ParameterOk, Owned, Unstored, Borrowed, SlotSound, Referable, WrittenOk
<1>6. StaticOk'
  BY <1>1 DEF CallInv, StaticOk
<1>. QED  BY <1>1, <1>3, <1>4, <1>5, <1>6 DEF CallInv

LEMMA WriteBackKeeps == CallInv /\ WriteBack => CallInv'
<1>. SUFFICES ASSUME CallInv, WriteBack PROVE CallInv'
  OBVIOUS
<1>1. /\ phase = "release" /\ phase' = "release" /\ at \in Positions /\ at' = at + 1
      /\ UNCHANGED <<mode, handler, params, entry, slot, owed, qtRan, callFault>>
      /\ Positions' = Positions
  BY DEF WriteBack, Positions
<1>2. /\ entry \in [Positions -> EntryRecord] /\ temp \in [Positions -> Temps]
      /\ variable \in [Positions -> {"old", "qt", "nothing", "mistaken"}]
      /\ at + 1 \in 1..MaxParams + 1 /\ raised \in BOOLEAN
  BY <1>1, PositionsAre DEF CallInv, CallTypeOK, EntryRecord, Temps
<1>3. /\ \A i \in Positions \ {at} : variable'[i] = variable[i] /\ temp'[i] = temp[i]
      /\ ~entry[at].ref => variable'[at] = variable[at]
      /\ entry[at].ref => variable'[at] = Written(entry[at], variable[at])
      /\ temp'[at] = temp[at] \/ temp'[at] = "given"
      /\ raised' \in BOOLEAN
  BY <1>1, <1>2 DEF WriteBack, Refused
<1>4. /\ Written(entry[at], variable[at]) \in {"old", "qt", "nothing", "mistaken"}
      /\ Written(entry[at], variable[at]) # "old" /\ entry[at].type \in {"r_scalar", "r_str"}
             => Written(entry[at], variable[at]) = "qt" /\ qtRan
  BY <1>1, <1>2 DEF Written, EntryRecord, EntryTypes
<1>5. CallTypeOK'
  <2>1. variable' \in [Positions -> {"old", "qt", "nothing", "mistaken"}]
    BY <1>1, <1>2, <1>4 DEF WriteBack
  <2>2. temp' \in [Positions -> Temps]
    BY <1>1, <1>2 DEF WriteBack, Temps
  <2>. QED  BY <1>1, <1>2, <1>3, <2>1, <2>2 DEF CallInv, CallTypeOK, Temps
<1>6. Progress' /\ StaticOk'
  BY <1>1 DEF CallInv, Progress, StaticOk
<1>7. ASSUME NEW i \in Positions PROVE ParameterOk(i)'
  <2>1. ParameterOk(i)
    BY DEF CallInv
  <2>2. Owned(i)' /\ Borrowed(i)' /\ SlotSound(i)' /\ Referable(i)'
    BY <1>1, <1>3, <2>1 DEF ParameterOk, Owned, Unstored, Borrowed, SlotSound, Referable
  <2>3. WrittenOk(i)'
    BY <1>1, <1>3, <1>4, <2>1 DEF ParameterOk, WrittenOk
  <2>. QED  BY <2>2, <2>3 DEF ParameterOk
<1>. QED  BY <1>1, <1>5, <1>6, <1>7 DEF CallInv

\* Whatever an entry owns is freed, or was handed on before.
LEMMA FinishKeeps == CallInv /\ Finish => CallInv'
<1>. SUFFICES ASSUME CallInv, Finish PROVE CallInv'
  OBVIOUS
<1>1. /\ phase = "release" /\ phase' = "finished"
      /\ UNCHANGED <<mode, handler, params, at, entry, slot, variable, owed, qtRan, raised,
                     callFault>>
      /\ Positions' = Positions
      /\ \A i \in Positions : temp'[i] = Release(i)
  BY DEF Finish, Positions
<1>2. CallTypeOK'
  <2>1. temp' \in [Positions -> Temps]
    BY DEF Finish, Release, Temps, CallInv, CallTypeOK
  <2>. QED  BY <1>1, <2>1 DEF CallInv, CallTypeOK, Temps
<1>3. Progress' /\ StaticOk'
  BY <1>1 DEF CallInv, Progress, StaticOk
<1>4. ASSUME NEW i \in Positions PROVE ParameterOk(i)'
  <2>1. ParameterOk(i)
    BY DEF CallInv
  <2>2. Owned(i)'
    BY <1>1, <2>1 DEF ParameterOk, Owned, Unstored, Release, HeapTypes
  <2>3. Borrowed(i)' /\ SlotSound(i)' /\ Referable(i)' /\ WrittenOk(i)'
    BY <1>1, <2>1 DEF ParameterOk, Borrowed, SlotSound, Referable, WrittenOk
  <2>. QED  BY <2>2, <2>3 DEF ParameterOk
<1>. QED  BY <1>1, <1>2, <1>3, <1>4 DEF CallInv

LEMMA StepCall == CallInv /\ [CallNext]_callVars => CallInv'
<1>. SUFFICES ASSUME CallInv, [CallNext]_callVars PROVE CallInv'
  OBVIOUS
<1>1. CASE UNCHANGED callVars
  <2>1. UNCHANGED <<mode, handler, params, phase, at, entry, temp, slot, variable, owed, qtRan,
                    raised, callFault>>
    BY <1>1 DEF callVars
  <2>2. CallTypeOK'
    BY <2>1 DEF CallInv, CallTypeOK, Positions
  <2>. QED  BY <2>1, <2>2 DEF CallInv, StaticOk, Progress, Positions, Fresh, ParameterOk, Owned,
            Unstored, Borrowed, SlotSound, Referable, WrittenOk
<1>2. CASE CallNext
  BY <1>2, ConvertScalarKeeps, ConvertArgvKeeps, ConvertCharsKeeps, ConvertBoxedKeeps,
     ConvertBrushKeeps, ConvertHandleKeeps, ConvertCopyKeeps, ConvertBadKeeps,
     ConvertReferenceKeeps, StopKeeps, PhaseKeeps, WriteBackKeeps, FinishKeeps DEF CallNext
<1>. QED  BY <1>1, <1>2

-----------------------------------------------------------------------------
(* The theorems *)

LEMMA CallAlways == CallSpec => []CallInv
BY InitCall, StepCall, PTL DEF CallSpec

\* CommonQoreMethod and its store keep their types, for calls of every length.
THEOREM CallTyped == CallSpec => []CallTypeOK
<1>1. CallInv => CallTypeOK
  BY DEF CallInv
<1>. QED  BY <1>1, CallAlways, PTL

\* Qt is only called with a whole stack: every item points to something that
\* exists until Qt returns, however many arguments there are and whoever
\* converts them.
THEOREM ArgumentsAlwaysLive == CallSpec => []ArgumentsLive
<1>1. CallInv => ArgumentsLive
  BY DEF CallInv, Progress, ParameterOk, SlotSound, ArgumentsLive
<1>. QED  BY <1>1, CallAlways, PTL

\* At the end of a call every temporary was freed or handed on, whichever
\* argument failed, except those that are known to be lost; the same for the
\* references to private data.
THEOREM TemporariesAlwaysReleased == CallSpec => []TemporariesReleased
<1>1. CallInv => TemporariesReleased
  <2>. SUFFICES ASSUME CallInv, phase = "finished"
                PROVE  /\ \A i \in Positions : temp[i] = "live" => Unstored(i)
                       /\ \A i \in owed : params[i].given = "object" \/ params[i].kind = "list"
    BY DEF TemporariesReleased
  <2>1. owed \subseteq Positions
    BY DEF CallInv, CallTypeOK
  <2>. QED  BY <2>1 DEF CallInv, ParameterOk, Owned, Borrowed
<1>. QED  BY <1>1, CallAlways, PTL

\* A variable passed by reference is changed only for what Qt wrote: never for
\* a const parameter, never for an argument behind one that failed, and a
\* number or a char* only when Qt ran.
THEOREM OnlyQtEverWrites == CallSpec => []OnlyQtWrites
<1>1. CallInv => OnlyQtWrites
  <2>. SUFFICES ASSUME CallInv, NEW i \in Positions, variable[i] # "old"
                PROVE  /\ params[i].byRef /\ ~params[i].const
                       /\ entry[i].type \in {"r_scalar", "r_str"} => variable[i] = "qt" /\ qtRan
                       /\ handler \/ \A j \in Positions : j < i => slot[j] # "unset"
    BY DEF OnlyQtWrites
  <2>. QED  BY DEF CallInv, ParameterOk, Referable, WrittenOk
<1>. QED  BY <1>1, CallAlways, PTL
=============================================================================
