--------------------------- MODULE AtlasPromptProofs ---------------------------
(* The prompt's bound, for every bound, instruction and set of sources.     *)
EXTENDS AtlasPrompt, TLAPS

-----------------------------------------------------------------------------
(* The inductive invariant.                                                 *)

Active == pc \in {"fit", "post", "read"}

(* What the shown texts take and what is left make up what there was.       *)
Accounts ==
    /\ Active => /\ Fixed <= maxPrompt
                 /\ shown = <<>> => used = 0 /\ room = maxPrompt - Fixed
                 /\ shown # <<>> => used + room + 2 = maxPrompt - Fixed
    /\ \A i \in 1 .. Len(shown) : shown[i].length <= maxSource

(* Sources are shown in their order, and all are shown or counted.          *)
Order ==
    /\ \A i \in 1 .. Len(shown) : shown[i].of = i
    /\ Len(shown) <= Len(sources)
    /\ pc = "build" => shown = <<>> /\ used = 0 /\ truncated = 0
    /\ pc \in {"build", "fit"} => index = Len(shown) + 1 /\ omitted = 0
    /\ pc \in {"post", "read"} => Len(shown) + omitted = Len(sources)
    /\ pc # "done" => outcome = "none"

(* A cut is counted, and what was cut is shorter than its source.           *)
Seen ==
    truncated = 0 <=> \A i \in 1 .. Len(shown) : shown[i].length = sources[i]

IInv == TypeOK /\ Accounts /\ Order /\ Seen /\ CompleteMeansSeen

-----------------------------------------------------------------------------
(* The notices have the length of their words and numbers, and the ones     *)
(* the code reserves for are the longest.                                   *)
LEMMA Notices ==
    /\ \A full \in 0 .. MaxLen : \A kept \in 0 .. full :
          /\ CutNotice(full, kept) \in Nat
          /\ CutNotice(full, kept) <= CutNotice(full, 0)
    /\ \A n \in 0 .. MaxSources : \A m \in 0 .. n :
          /\ OmissionNotice(m) \in Nat
          /\ OmissionNotice(m) <= OmissionNotice(n)
<1>1. ASSUME NEW m \in 0 .. MaxLen, NEW n \in 0 .. MaxLen, m <= n
      PROVE  Digits[m] \in Nat /\ Digits[n] \in Nat /\ Digits[m] <= Digits[n]
  BY <1>1, PromptAssumption
<1>2. ASSUME NEW full \in 0 .. MaxLen, NEW kept \in 0 .. full
      PROVE  CutNotice(full, kept) \in Nat /\ CutNotice(full, kept) <= CutNotice(full, 0)
  <2>1. full - kept \in 0 .. MaxLen /\ full - kept <= full /\ full - 0 = full
    BY PromptAssumption
  <2>2. Digits[full - kept] \in Nat /\ Digits[full] \in Nat /\ Digits[full - kept] <= Digits[full]
    BY <1>1, <2>1
  <2> QED BY <2>1, <2>2, PromptAssumption DEF CutNotice
<1>3. ASSUME NEW n \in 0 .. MaxSources, NEW m \in 0 .. n
      PROVE  OmissionNotice(m) \in Nat /\ OmissionNotice(m) <= OmissionNotice(n)
  <2>1. m \in 0 .. MaxLen /\ n \in 0 .. MaxLen /\ m <= n
    BY PromptAssumption
  <2>2. Digits[m] \in Nat /\ Digits[n] \in Nat /\ Digits[m] <= Digits[n]
    BY <1>1, <2>1
  <2> QED BY <2>2, PromptAssumption DEF OmissionNotice
<1> QED BY <1>2, <1>3

(* What is given does not change, and what is kept free is a number.        *)
LEMMA FixedIsNat == TypeOK => Fixed \in Nat
<1> SUFFICES ASSUME TypeOK PROVE Fixed \in Nat
  OBVIOUS
<1>1. instruction \in Nat /\ Heading \in Nat /\ Len(sources) \in 0 .. MaxSources
  BY PromptAssumption DEF TypeOK
<1>2. OmissionNotice(Len(sources)) \in Nat
  BY <1>1, Notices, PromptAssumption
<1>3. Reserve \in Nat
  BY <1>2 DEF Reserve
<1> QED BY <1>1, <1>3 DEF Fixed

(* The source in hand has a length.                                         *)
LEMMA FullIsLength == TypeOK /\ Fitting => Full \in 0 .. MaxLen
<1> SUFFICES ASSUME TypeOK, Fitting PROVE Full \in 0 .. MaxLen
  OBVIOUS
<1> DEFINE Lengths == 0 .. MaxLen
<1>1. sources \in Seq(Lengths) /\ Len(sources) \in Nat /\ index \in 1 .. Len(sources)
  BY DEF TypeOK, Fitting
<1> HIDE DEF Lengths
<1>2. sources[index] \in Lengths
  BY <1>1
<1> QED BY <1>2 DEF Full, Lengths

(* A source is added: the accounts, the order and the count of the cuts     *)
(* go on as they were.                                                      *)
LEMMA Keeping ==
    ASSUME IInv, Fitting, room > 0, NEW length \in Nat, Keep(length),
           length <= Allowed, UNCHANGED <<given, pc, omitted, outcome>>,
           \/ length = Full /\ truncated' = truncated
           \/ length < Full /\ truncated' = truncated + 1
    PROVE  IInv'
<1> USE DEF Fitting, given
<1> DEFINE new == [of |-> index, length |-> length]
<1>1. /\ sources \in Seq(0 .. MaxLen) /\ shown \in Seq([of : Nat, length : Nat])
      /\ index = Len(shown) + 1 /\ index <= Len(sources) /\ omitted = 0 /\ pc = "fit"
      /\ Full \in 0 .. MaxLen /\ maxSource \in Nat /\ maxPrompt \in Nat
      /\ new \in [of : Nat, length : Nat] /\ Len(shown) \in Nat /\ Len(sources) \in Nat
  <2>1. /\ sources \in Seq(0 .. MaxLen) /\ shown \in Seq([of : Nat, length : Nat])
        /\ index = Len(shown) + 1 /\ index <= Len(sources) /\ omitted = 0 /\ pc = "fit"
    BY DEF IInv, TypeOK, Order
  <2>2. Len(shown) \in Nat /\ Len(sources) \in Nat
    BY <2>1
  <2>3. index \in 1 .. Len(sources)
    BY <2>1, <2>2
  <2>4. Full \in 0 .. MaxLen
    BY FullIsLength DEF IInv
  <2>5. maxPrompt \in Nat /\ maxSource \in Nat
    <3>1. maxPrompt \in Prompts /\ maxSource \in 1 .. maxPrompt
      BY DEF IInv, TypeOK
    <3>2. Prompts \subseteq Nat \ {0}
      BY PromptAssumption
    <3> QED BY <3>1, <3>2
  <2>6. new \in [of : Nat, length : Nat]
    BY <2>3, <2>2
  <2> QED BY <2>1, <2>2, <2>4, <2>5, <2>6
<1>2. /\ shown' = Append(shown, new) /\ shown' \in Seq([of : Nat, length : Nat])
      /\ Len(shown') = Len(shown) + 1 /\ shown'[Len(shown) + 1] = new /\ shown' # <<>>
      /\ \A i \in 1 .. Len(shown) : shown'[i] = shown[i]
  BY <1>1 DEF Keep
<1>3. length <= room /\ length <= maxSource
  BY <1>1 DEF Allowed, IInv, TypeOK
<1>4. TypeOK'
  <2>1. room' \in Int /\ room' >= -2 /\ used' \in Nat
    BY <1>3 DEF IInv, TypeOK, Keep
  <2>2. index' \in 1 .. Len(sources') + 1
    BY <1>1 DEF Keep
  <2>3. truncated' \in Nat
    BY DEF IInv, TypeOK
  <2> QED BY <1>1, <1>2, <2>1, <2>2, <2>3 DEF IInv, TypeOK
<1>5. Accounts'
  <2>1. Fixed' = Fixed /\ Fixed \in Nat
    BY FixedIsNat DEF Fixed, Reserve, IInv
  <2>2. used' + room' + 2 = maxPrompt - Fixed
    <3>1. CASE shown = <<>>
      BY <3>1, <1>1, <2>1 DEF IInv, Accounts, Active, Keep, TypeOK
    <3>2. CASE shown # <<>>
      BY <3>2, <1>1, <2>1 DEF IInv, Accounts, Active, Keep, TypeOK
    <3> QED BY <3>1, <3>2
  <2>3. Fixed <= maxPrompt
    BY <1>1 DEF IInv, Accounts, Active
  <2>4. \A i \in 1 .. Len(shown') : shown'[i].length <= maxSource
    BY <1>1, <1>2, <1>3 DEF IInv, Accounts
  <2> QED BY <1>2, <2>1, <2>2, <2>3, <2>4 DEF Accounts
<1>6. Order'
  BY <1>1, <1>2 DEF IInv, Order, Keep
<1>7. Seen'
  <2>1. Seen /\ truncated \in Nat /\ sources[Len(shown) + 1] = Full
    BY <1>1 DEF IInv, TypeOK, Full
  <2>2. CASE length = Full /\ truncated' = truncated
    <3>1. sources' = sources /\ shown'[Len(shown) + 1].length = sources[Len(shown) + 1]
      BY <2>1, <2>2, <1>1, <1>2
    <3>2. (\A i \in 1 .. Len(shown') : shown'[i].length = sources'[i])
             <=> \A i \in 1 .. Len(shown) : shown[i].length = sources[i]
      <4>1. ASSUME \A i \in 1 .. Len(shown) : shown[i].length = sources[i],
                   NEW i \in 1 .. Len(shown')
            PROVE  shown'[i].length = sources'[i]
        <5>1. i \in 1 .. Len(shown) \/ i = Len(shown) + 1
          BY <1>1, <1>2
        <5> QED BY <5>1, <4>1, <3>1, <1>2
      <4>2. ASSUME \A i \in 1 .. Len(shown') : shown'[i].length = sources'[i],
                   NEW i \in 1 .. Len(shown)
            PROVE  shown[i].length = sources[i]
        <5>1. i \in 1 .. Len(shown')
          BY <1>1, <1>2
        <5> QED BY <5>1, <4>2, <3>1, <1>2
      <4> QED BY <4>1, <4>2
    <3> QED BY <2>1, <2>2, <3>2 DEF Seen
  <2>3. CASE length < Full /\ truncated' = truncated + 1
    <3>1. truncated' # 0
      BY <2>1, <2>3
    <3>2. shown'[Len(shown) + 1].length # sources[Len(shown) + 1]
      BY <2>1, <2>3, <1>1, <1>2
    <3> QED BY <3>1, <3>2, <1>1, <1>2 DEF Seen
  <2> QED BY <2>2, <2>3
<1>8. CompleteMeansSeen'
  <2>1. outcome' = "none"
    BY <1>1 DEF IInv, Order
  <2> QED BY <2>1 DEF CompleteMeansSeen
<1> QED BY <1>4, <1>5, <1>6, <1>7, <1>8 DEF IInv

-----------------------------------------------------------------------------
(* Every step keeps the invariant.                                          *)
LEMMA InitHolds == Init => IInv
<1> SUFFICES ASSUME Init PROVE IInv
  OBVIOUS
<1>1. sources \in Seq(0 .. MaxLen) /\ Len(sources) \in 0 .. MaxSources
  <2>1. PICK n \in 0 .. MaxSources : sources \in [1 .. n -> 0 .. MaxLen]
    BY DEF Init
  <2> QED BY <2>1, PromptAssumption
<1>2. TypeOK
  BY <1>1, PromptAssumption DEF Init, TypeOK
<1>3. Accounts /\ Order /\ Seen /\ CompleteMeansSeen
  BY <1>1 DEF Init, Accounts, Active, Order, Seen, CompleteMeansSeen
<1> QED BY <1>2, <1>3 DEF IInv

LEMMA NextKeeps == IInv /\ [Next]_vars => IInv'
<1> SUFFICES ASSUME IInv, [Next]_vars PROVE IInv'
  OBVIOUS
<1>0. Fixed \in Nat /\ Len(sources) \in Nat /\ Len(shown) \in Nat
  BY FixedIsNat DEF IInv, TypeOK
<1>1. CASE Begin
  <2>0. maxPrompt \in Nat
    BY PromptAssumption DEF IInv, TypeOK
  <2>a. /\ UNCHANGED <<sources, instruction, maxPrompt, maxSource>>
        /\ UNCHANGED <<index, shown, used, truncated, omitted>>
    BY <1>1 DEF Begin, given
  <2>b. pc' \in {"build", "fit", "post", "read", "done"}
    BY <1>1 DEF Begin
  <2>c. room' \in Int /\ room' >= -2
    <3>1. room \in Int /\ room >= -2
      BY DEF IInv, TypeOK
    <3>2. room' = room \/ (Fixed <= maxPrompt /\ room' = maxPrompt - Fixed)
      BY <1>1 DEF Begin
    <3> QED BY <3>1, <3>2, <2>0, <1>0
  <2>d. outcome' = outcome \/ outcome' = "ValueError"
    BY <1>1 DEF Begin
  <2>1. TypeOK'
    BY <2>a, <2>b, <2>c, <2>d DEF IInv, TypeOK
  <2>2. Accounts'
    BY <1>1, <1>0 DEF Begin, IInv, Accounts, Active, Order, Fixed, Reserve, given
  <2>3. Order' /\ Seen' /\ CompleteMeansSeen'
    BY <1>1, <1>0 DEF Begin, IInv, Order, Seen, CompleteMeansSeen, given
  <2> QED BY <2>1, <2>2, <2>3 DEF IInv
<1>2. CASE ShowWhole
  <2>1. Full \in Nat
    BY <1>2, FullIsLength DEF ShowWhole, IInv
  <2>2. Fitting /\ room > 0 /\ Keep(Full) /\ Full <= Allowed
        /\ UNCHANGED <<given, pc, omitted, outcome>> /\ truncated' = truncated
    BY <1>2 DEF ShowWhole
  <2> QED BY <2>1, <2>2, Keeping
<1>3. CASE ShowCut
  <2> DEFINE length == Usable + CutNotice(Full, Usable)
  <2>1. Full \in 0 .. MaxLen /\ Allowed \in Int /\ MinUseful \in Nat \ {0}
    <3>1. Full \in 0 .. MaxLen
      BY <1>3, FullIsLength DEF ShowCut, IInv
    <3>2. room \in Int /\ maxSource \in Int
      BY DEF IInv, TypeOK
    <3> QED BY <3>1, <3>2, PromptAssumption DEF Allowed
  <2>2. CutNotice(Full, 0) \in Nat
    BY <2>1, Notices
  <2>3. Usable \in 0 .. Full
    BY <1>3, <2>1, <2>2 DEF ShowCut, Usable
  <2>4. CutNotice(Full, Usable) \in Nat /\ CutNotice(Full, Usable) <= CutNotice(Full, 0)
    BY <2>1, <2>3, Notices
  <2>5. length \in Nat /\ length <= Allowed /\ length < Full
    BY <1>3, <2>1, <2>2, <2>3, <2>4 DEF ShowCut, Usable
  <2>6. Fitting /\ room > 0 /\ Keep(length)
        /\ UNCHANGED <<given, pc, omitted, outcome>> /\ truncated' = truncated + 1
    BY <1>3 DEF ShowCut
  <2> HIDE DEF length
  <2> QED BY <2>5, <2>6, Keeping
<1>4. CASE OmitRest
  <2>1. /\ index = Len(shown) + 1 /\ index <= Len(sources) /\ pc = "fit" /\ pc' = "post"
        /\ omitted' = Len(sources) - index + 1
        /\ UNCHANGED <<given, index, room, shown, used, truncated, outcome>>
    BY <1>4 DEF OmitRest, Fitting, IInv, Order
  <2>2. TypeOK'
    BY <2>1, <1>0 DEF IInv, TypeOK, given
  <2>3. Accounts'
    BY <2>1, <1>0 DEF IInv, Accounts, Active, Fixed, Reserve, given
  <2>4. Order' /\ Seen' /\ CompleteMeansSeen'
    BY <2>1, <1>0 DEF IInv, Order, Seen, CompleteMeansSeen, given
  <2> QED BY <2>2, <2>3, <2>4 DEF IInv
<1>5. CASE AllShown
  <2>1. /\ index = Len(shown) + 1 /\ index > Len(sources) /\ pc = "fit" /\ pc' = "post"
        /\ UNCHANGED <<given, index, room, shown, used, truncated, omitted, outcome>>
    BY <1>5 DEF AllShown, IInv, Order
  <2>2. TypeOK'
    BY <2>1 DEF IInv, TypeOK, given
  <2>3. Accounts'
    BY <2>1 DEF IInv, Accounts, Active, Fixed, Reserve, given
  <2>4. Order' /\ Seen' /\ CompleteMeansSeen'
    BY <2>1, <1>0 DEF IInv, Order, Seen, CompleteMeansSeen, given
  <2> QED BY <2>2, <2>3, <2>4 DEF IInv
<1>6. CASE Post
  <2>1. TypeOK'
    BY <1>6 DEF Post, IInv, TypeOK, given, ProviderErrors
  <2>2. Accounts'
    BY <1>6 DEF Post, IInv, Accounts, Active, Fixed, Reserve, given
  <2>3. Order' /\ Seen' /\ CompleteMeansSeen'
    BY <1>6, <1>0 DEF Post, IInv, Order, Seen, CompleteMeansSeen, given, ProviderErrors
  <2> QED BY <2>1, <2>2, <2>3 DEF IInv
<1>7. CASE ReadReply
  <2>1. TypeOK'
    BY <1>7 DEF ReadReply, IInv, TypeOK, given, ProviderErrors
  <2>2. Accounts' /\ Order' /\ Seen'
    BY <1>7 DEF ReadReply, IInv, Accounts, Active, Order, Seen, given
  <2>3. CompleteMeansSeen'
    <3>1. Len(shown) + omitted = Len(sources) /\ omitted \in Nat
      BY <1>7 DEF ReadReply, IInv, Order, TypeOK
    <3>2. truncated = 0 /\ omitted = 0 <=>
             /\ Len(shown) = Len(sources)
             /\ \A i \in 1 .. Len(shown) : shown[i].length = sources[i]
      BY <3>1, <1>0 DEF IInv, Seen
    <3>3. DOMAIN shown = 1 .. Len(shown)
      BY DEF IInv, TypeOK
    <3> QED BY <1>7, <3>2, <3>3 DEF ReadReply, CompleteMeansSeen, given
  <2> QED BY <2>1, <2>2, <2>3 DEF IInv
<1>8. CASE UNCHANGED vars
  <2>1. TypeOK' /\ Accounts' /\ Order' /\ Seen' /\ CompleteMeansSeen'
    BY <1>8 DEF vars, given, IInv, TypeOK, Accounts, Active, Fixed, Reserve, Order, Seen,
                CompleteMeansSeen
  <2> QED BY <2>1 DEF IInv
<1> QED BY <1>1, <1>2, <1>3, <1>4, <1>5, <1>6, <1>7, <1>8 DEF Next

(* What the accounts say when the prompt is sent.                           *)
LEMMA AccountsImplyBound == IInv => WithinBound /\ ShownIsAPrefix
<1> SUFFICES ASSUME IInv PROVE WithinBound /\ ShownIsAPrefix
  OBVIOUS
<1>1. DOMAIN shown = 1 .. Len(shown) /\ Len(shown) \in Nat /\ Len(sources) \in 0 .. MaxSources
  BY DEF IInv, TypeOK
<1>2. ShownIsAPrefix
  BY <1>1 DEF IInv, Order, ShownIsAPrefix
<1>3. ASSUME pc \in {"post", "read"} PROVE TextLength <= maxPrompt
  <2>1. /\ instruction \in Nat /\ Heading \in Nat /\ used \in Nat /\ room \in Int /\ room >= -2
        /\ maxPrompt \in Nat /\ omitted \in 0 .. Len(sources)
    BY <1>1, <1>3, PromptAssumption DEF IInv, TypeOK, Order
  <2>2. /\ OmissionNotice(omitted) \in Nat /\ OmissionNotice(Len(sources)) \in Nat
        /\ OmissionNotice(omitted) <= OmissionNotice(Len(sources))
    BY <1>1, <2>1, Notices
  <2>3. (IF omitted = 0 THEN 0 ELSE 2 + OmissionNotice(omitted)) <= Reserve /\ Reserve \in Nat
    <3>1. omitted # 0 => sources # <<>>
      BY <2>1
    <3> QED BY <2>1, <2>2, <3>1 DEF Reserve
  <2>4. (IF shown = <<>> THEN 0 ELSE 2 + Heading + 1 + used)
          <= Heading + 3 + (maxPrompt - Fixed)
    BY <1>3, <2>1, FixedIsNat DEF IInv, Accounts, Active
  <2> QED BY <2>1, <2>2, <2>3, <2>4 DEF TextLength, Fixed
<1>4. WithinBound
  BY <1>1, <1>3 DEF WithinBound, IInv, Accounts
<1> QED BY <1>2, <1>4

-----------------------------------------------------------------------------
LEMMA InvariantHolds == Spec => []IInv
<1> QED BY InitHolds, NextKeeps, PTL DEF Spec

(* The variables of build_prompt and execute keep their types, and the room *)
(* is never overdrawn by more than a separator.                             *)
THEOREM PromptTypes == Spec => []TypeOK
<1>1. IInv => TypeOK
  BY DEF IInv
<1> QED BY InvariantHolds, <1>1, PTL

(* However many sources there are, however long, and whatever the limits, a *)
(* prompt that is sent is within max_prompt_chars with all its notices.     *)
THEOREM PromptIsBounded == Spec => []WithinBound
<1> QED BY InvariantHolds, AccountsImplyBound, PTL

(* build_prompt shows a prefix of the sources and counts the rest.          *)
THEOREM PromptShowsAPrefix == Spec => []ShownIsAPrefix
<1> QED BY InvariantHolds, AccountsImplyBound, PTL

(* prompt_complete is true exactly of a prompt that held every source whole. *)
THEOREM CompletenessIsTrue == Spec => []CompleteMeansSeen
<1>1. IInv => CompleteMeansSeen
  BY DEF IInv
<1> QED BY InvariantHolds, <1>1, PTL
=============================================================================
