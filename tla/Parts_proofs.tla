------------------------------ MODULE Parts_proofs -----------------------------
(***************************************************************************)
(* Theorems about four components that use no store: the matching scans    *)
(* for every alphabet, ID length and input; the registration of a client   *)
(* for every pair of server lists; the command line for every number of    *)
(* runs; the shared buckets for every buffer size and expiry.  Each has    *)
(* its own specification and its own inductive invariant.                  *)
(***************************************************************************)
EXTENDS Matching, Registration, Cli, SharedBucket, FiniteSetTheorems, SequenceTheorems, TLAPS

-------------------------------------------------------------------------------
(* Matching.  The invariant says what is behind the scan: every window and     *)
(* every bare label that it has passed and that is an ID registered all the    *)
(* time has been matched.                                                      *)

Chars == NonceChars \union OtherChars
CIDs == [1 .. CIDLength -> CIDChars]

MatchTypes ==
    /\ input \in Seq(Seq(Seq(Chars)))
    /\ part \in Nat \ {0} /\ label \in Nat \ {0} /\ pos \in Nat \ {0} /\ tier \in {1, 2}
    /\ mode = "everywhere" => tier = 1
    /\ matches \in Seq(CIDs)
    /\ always \subseteq registered /\ registered \subseteq ever /\ ever \subseteq CIDs

\* The window of l that begins at p is id and a nonce.
OccursAt(l, p, id) ==
    /\ p + WindowSize - 1 <= Len(l)
    /\ SubSeq(l, p, p + CIDLength - 1) = id
    /\ \A i \in p + CIDLength .. p + WindowSize - 1 : l[i] \in NonceChars

\* The scan has passed window p, or the bare label, of label j of part i.
WindowBehind(i, j, p) ==
    i < part \/ (i = part /\ (tier = 2 \/ j < label \/ (j = label /\ p < pos)))
LabelBehind(i, j) == i < part \/ (i = part /\ tier = 2 /\ j < label)

BehindIsMatched ==
    \A id \in always : \A i \in DOMAIN input : \A j \in DOMAIN input[i] :
        /\ \A p \in 1 .. Len(input[i][j]) :
              WindowBehind(i, j, p) /\ OccursAt(input[i][j], p, id) => id \in Matched
        /\ mode # "everywhere" /\ LabelBehind(i, j) /\ input[i][j] = id => id \in Matched

MatchInv == MatchTypes /\ BehindIsMatched /\ MatchesSound

LEMMA WindowSizes ==
    /\ CIDLength \in Nat \ {0} /\ MinNonceLength \in Nat \ {0} /\ WindowSize \in Nat \ {0}
    /\ WindowSize = CIDLength + MinNonceLength
BY LengthAssumption DEF WindowSize

\* An ID is well-formed, and has the length that the scan looks for.
LEMMA IDIsSequence ==
    ASSUME NEW id \in CIDs
    PROVE  id \in Seq(CIDChars) /\ Len(id) = CIDLength /\ IsCIDBase32(id)
<1>1. id \in Seq(CIDChars) /\ Len(id) = CIDLength /\ DOMAIN id = 1 .. CIDLength
    BY WindowSizes DEF CIDs
<1>2. id # <<>>
    BY <1>1, WindowSizes
<1> QED BY <1>1, <1>2 DEF IsCIDBase32, CIDs

\* What the scan tests of a window is what OccursAt says.
LEMMA WindowTest ==
    ASSUME NEW l \in Seq(Chars), NEW p \in Nat \ {0}, p + WindowSize - 1 <= Len(l)
    PROVE  LET nonce == SubSeq(l, p + CIDLength, p + WindowSize - 1)
           IN IsAlphanumeric(nonce)
                 <=> \A i \in p + CIDLength .. p + WindowSize - 1 : l[i] \in NonceChars
<1> DEFINE nonce == SubSeq(l, p + CIDLength, p + WindowSize - 1)
<1>1. /\ nonce \in Seq(Chars) /\ Len(nonce) = MinNonceLength
      /\ \A i \in 1 .. MinNonceLength : nonce[i] = l[p + CIDLength + i - 1]
    <2>1. p + CIDLength \in 1 .. Len(l) /\ p + WindowSize - 1 \in p + CIDLength .. Len(l)
        BY WindowSizes
    <2>2. Len(nonce) = MinNonceLength /\ nonce \in Seq(Chars)
        BY <2>1, WindowSizes, SubSeqProperties
    <2>3. \A i \in 1 .. Len(nonce) : nonce[i] = l[p + CIDLength + i - 1]
        BY <2>1, WindowSizes, SubSeqProperties
    <2> QED BY <2>2, <2>3
<1> HIDE DEF nonce
<1>2. nonce # <<>> /\ DOMAIN nonce = 1 .. MinNonceLength
    BY <1>1, WindowSizes
<1>3. ASSUME IsAlphanumeric(nonce), NEW i \in p + CIDLength .. p + WindowSize - 1
      PROVE  l[i] \in NonceChars
    <2> DEFINE k == i - (p + CIDLength) + 1
    <2>1. k \in 1 .. MinNonceLength /\ p + CIDLength + k - 1 = i
        BY WindowSizes
    <2>2. nonce[k] \in NonceChars
        BY <1>2, <1>3, <2>1 DEF IsAlphanumeric
    <2> QED BY <1>1, <2>1, <2>2
<1>4. ASSUME \A i \in p + CIDLength .. p + WindowSize - 1 : l[i] \in NonceChars
      PROVE  IsAlphanumeric(nonce)
    <2>1. \A k \in 1 .. MinNonceLength : p + CIDLength + k - 1 \in p + CIDLength .. p + WindowSize - 1
        BY WindowSizes
    <2> QED BY <1>1, <1>2, <1>4, <2>1 DEF IsAlphanumeric
<1> QED BY <1>3, <1>4 DEF nonce

\* A window that occurs carries its ID, and an ID that is carried has a window.
LEMMA OccursIsCarries ==
    ASSUME NEW l \in Seq(Chars), NEW id \in CIDs
    PROVE  Carries(l, id, MinNonceLength) <=> \E p \in 1 .. Len(l) : OccursAt(l, p, id)
<1>1. Len(id) = CIDLength /\ Len(l) \in Nat
    BY IDIsSequence
<1>2. ASSUME NEW before \in 0 .. Len(l),
             before + Len(id) + MinNonceLength <= Len(l),
             SubSeq(l, before + 1, before + Len(id)) = id,
             \A i \in before + Len(id) + 1 .. before + Len(id) + MinNonceLength : l[i] \in NonceChars
      PROVE  \E p \in 1 .. Len(l) : OccursAt(l, p, id)
    <2> DEFINE p == before + 1
    <2>1. /\ p \in 1 .. Len(l) /\ p + WindowSize - 1 = before + Len(id) + MinNonceLength
          /\ p + CIDLength - 1 = before + Len(id) /\ p + CIDLength = before + Len(id) + 1
        BY <1>1, <1>2, WindowSizes
    <2> QED BY <1>2, <2>1 DEF OccursAt
<1>3. ASSUME NEW p \in 1 .. Len(l), OccursAt(l, p, id)
      PROVE  Carries(l, id, MinNonceLength)
    <2> DEFINE before == p - 1
    <2>1. /\ before \in 0 .. Len(l) /\ p + WindowSize - 1 = before + Len(id) + MinNonceLength
          /\ p + CIDLength - 1 = before + Len(id) /\ p + CIDLength = before + Len(id) + 1
          /\ p = before + 1
        BY <1>1, <1>3, WindowSizes
    <2> QED BY <1>3, <2>1 DEF OccursAt, Carries
<1> QED BY <1>2, <1>3 DEF Carries

\* Record adds its candidate if a session has it, and never anything else.
LEMMA RecordAdds ==
    ASSUME MatchTypes, NEW candidate, Record(candidate)
    PROVE  /\ matches' \in Seq(CIDs)
           /\ Matched' = Matched \union ({candidate} \cap registered)
<1>1. matches \in Seq(CIDs) /\ registered \subseteq CIDs
    BY DEF MatchTypes
<1>2. CASE Found(candidate)
    <2>1. matches' = Append(matches, candidate) /\ candidate \in CIDs
        BY <1>1, <1>2 DEF Record, Found
    <2>2. Matched' = Matched \union {candidate}
        BY <1>1, <2>1 DEF Matched
    <2> QED BY <1>1, <1>2, <2>1, <2>2 DEF Found
<1>3. CASE ~Found(candidate)
    BY <1>1, <1>3 DEF Record, Found, Matched
<1> QED BY <1>2, <1>3

LEMMA MatchInitially == MatchInit => MatchInv
<1> SUFFICES ASSUME MatchInit PROVE MatchInv
    OBVIOUS
<1>1. PICK e : e = <<>>
    OBVIOUS
<1>2. matches = e /\ e \in Seq(CIDs) /\ Len(e) = 0
    BY <1>1 DEF MatchInit
<1>3. MatchTypes
    BY <1>2, InputsAssumption, RegistriesAssumption DEF MatchInit, MatchTypes, Chars, CIDs
<1>4. BehindIsMatched
    <2>1. part = 1 /\ tier = 1 /\ label = 1 /\ pos = 1
        BY DEF MatchInit
    <2>2. input \in Seq(Seq(Seq(Chars)))
        BY <1>3 DEF MatchTypes
    <2>3. \A i \in DOMAIN input : \A j \in DOMAIN input[i] : i >= 1 /\ j >= 1 /\ i \in Nat /\ j \in Nat
        BY <2>2
    <2> QED BY <2>1, <2>3 DEF BehindIsMatched, WindowBehind, LabelBehind
<1>5. MatchesSound
    BY <1>2 DEF MatchesSound, Matched
<1> QED BY <1>3, <1>4, <1>5 DEF MatchInv

\* The label the scan is at is one of the input.
LEMMA LabelIsLabel ==
    ASSUME MatchTypes, InLabel
    PROVE  /\ part \in DOMAIN input /\ label \in DOMAIN input[part]
           /\ Label = input[part][label] /\ Label \in Seq(Chars) /\ Len(Label) \in Nat
           /\ Label \in LabelsOf(input)
<1>1. input \in Seq(Seq(Seq(Chars))) /\ part \in 1 .. Len(input)
    BY DEF MatchTypes, InLabel, Scanning
<1>2. input[part] \in Seq(Seq(Chars)) /\ label \in 1 .. Len(input[part])
    BY <1>1 DEF MatchTypes, InLabel, Labels
<1>3. Label = input[part][label] /\ Label \in Seq(Chars)
    BY <1>2 DEF Label, Labels
<1> QED BY <1>1, <1>2, <1>3 DEF LabelsOf

LEMMA LabelTypes ==
    ASSUME MatchTypes, NEW i \in DOMAIN input, NEW j \in DOMAIN input[i]
    PROVE  /\ i \in Nat \ {0} /\ i <= Len(input) /\ j \in Nat \ {0} /\ j <= Len(input[i])
           /\ input[i][j] \in Seq(Chars) /\ Len(input[i][j]) \in Nat
BY DEF MatchTypes

\* A step that moves on without a match keeps the invariant if what it passes
\* has no window and no label in it.
LEMMA MovingOnKeeps ==
    ASSUME MatchInv, MatchTypes', UNCHANGED <<mode, input, matches, always, ever>>,
           ASSUME NEW id \in always, NEW i \in DOMAIN input, NEW j \in DOMAIN input[i],
                  NEW p \in 1 .. Len(input[i][j]),
                  WindowBehind(i, j, p)', OccursAt(input[i][j], p, id)
           PROVE  WindowBehind(i, j, p),
           ASSUME NEW i \in DOMAIN input, NEW j \in DOMAIN input[i],
                  mode # "everywhere", LabelBehind(i, j)'
           PROVE  LabelBehind(i, j)
    PROVE  MatchInv'
<1>1. Matched' = Matched /\ MatchesSound /\ BehindIsMatched
    BY DEF Matched, MatchInv
<1>2. BehindIsMatched'
    <2> SUFFICES ASSUME NEW id \in always, NEW i \in DOMAIN input, NEW j \in DOMAIN input[i]
                 PROVE  /\ \A p \in 1 .. Len(input[i][j]) :
                              WindowBehind(i, j, p)' /\ OccursAt(input[i][j], p, id) => id \in Matched
                        /\ mode # "everywhere" /\ LabelBehind(i, j)' /\ input[i][j] = id
                              => id \in Matched
        BY <1>1 DEF BehindIsMatched, OccursAt
    <2>1. ASSUME NEW p \in 1 .. Len(input[i][j]), WindowBehind(i, j, p)', OccursAt(input[i][j], p, id)
          PROVE  id \in Matched
        BY <1>1, <2>1 DEF BehindIsMatched
    <2>2. ASSUME mode # "everywhere", LabelBehind(i, j)', input[i][j] = id
          PROVE  id \in Matched
        BY <1>1, <2>2 DEF BehindIsMatched
    <2> QED BY <2>1, <2>2
<1>3. MatchesSound'
    BY <1>1 DEF MatchesSound, Mentions
<1> QED BY <1>2, <1>3 DEF MatchInv

LEMMA ScanWindowKeeps == ASSUME MatchInv, ScanWindow PROVE MatchInv'
<1> DEFINE candidate == SubSeq(Label, pos, pos + CIDLength - 1)
           nonce == SubSeq(Label, pos + CIDLength, pos + WindowSize - 1)
           test == IsCIDBase32(candidate) /\ IsAlphanumeric(nonce)
<1>1. /\ InLabel /\ tier = 1 /\ pos + WindowSize - 1 <= Len(Label)
      /\ IF test THEN Record(candidate) ELSE UNCHANGED matches
      /\ pos' = pos + 1
      /\ UNCHANGED <<mode, input, part, tier, label, registered, always, ever>>
    BY DEF ScanWindow, scan
<1>2. MatchTypes /\ BehindIsMatched /\ MatchesSound
    BY DEF MatchInv
<1>3. /\ part \in DOMAIN input /\ label \in DOMAIN input[part]
      /\ Label = input[part][label] /\ Label \in Seq(Chars) /\ Len(Label) \in Nat
      /\ Label \in LabelsOf(input)
    BY <1>1, <1>2, LabelIsLabel
<1>4. pos \in Nat \ {0} /\ pos \in 1 .. Len(Label)
    BY <1>1, <1>2, <1>3, WindowSizes DEF MatchTypes
<1>5. IsAlphanumeric(nonce) <=> \A i \in pos + CIDLength .. pos + WindowSize - 1 : Label[i] \in NonceChars
    BY <1>1, <1>3, <1>4, WindowTest
\* What the window is matched for: an ID that occurs there and has a session.
<1>6. /\ matches' \in Seq(CIDs)
      /\ Matched' = Matched \union (IF test THEN {candidate} \cap registered ELSE {})
    <2>1. CASE test
        BY <1>1, <1>2, <2>1, RecordAdds
    <2>2. CASE ~test
        <3>1. matches' = matches
            BY <1>1, <2>2
        <3> QED BY <1>2, <2>2, <3>1 DEF MatchTypes, Matched
    <2> QED BY <2>1, <2>2
<1>7. \A id \in CIDs : OccursAt(Label, pos, id) => test /\ candidate = id
    BY <1>5, IDIsSequence DEF OccursAt
<1>8. test => OccursAt(Label, pos, candidate)
    BY <1>1, <1>5 DEF OccursAt
<1> HIDE DEF test, candidate
<1>9. MatchTypes'
    BY <1>1, <1>2, <1>6 DEF MatchTypes
<1>10. BehindIsMatched'
    <2> SUFFICES ASSUME NEW id \in always, NEW i \in DOMAIN input, NEW j \in DOMAIN input[i]
                 PROVE  /\ \A p \in 1 .. Len(input[i][j]) :
                              WindowBehind(i, j, p)' /\ OccursAt(input[i][j], p, id) => id \in Matched'
                        /\ mode # "everywhere" /\ LabelBehind(i, j)' /\ input[i][j] = id
                              => id \in Matched'
        BY <1>1 DEF BehindIsMatched, OccursAt
    <2>1. id \in CIDs /\ id \in registered
        BY <1>2 DEF MatchTypes
    <2>2. ASSUME NEW p \in 1 .. Len(input[i][j]), WindowBehind(i, j, p)', OccursAt(input[i][j], p, id)
          PROVE  id \in Matched'
        <3>1. CASE i = part /\ j = label /\ p = pos
            BY <1>3, <1>6, <1>7, <2>1, <2>2, <3>1
        <3>2. CASE WindowBehind(i, j, p)
            BY <1>2, <1>6, <2>2, <3>2 DEF BehindIsMatched
        <3>3. (i = part /\ j = label /\ p = pos) \/ WindowBehind(i, j, p)
            BY <1>1, <1>4, <2>2 DEF WindowBehind
        <3> QED BY <3>1, <3>2, <3>3
    <2>3. ASSUME mode # "everywhere", LabelBehind(i, j)', input[i][j] = id
          PROVE  id \in Matched'
        <3>1. LabelBehind(i, j)
            BY <1>1, <2>3 DEF LabelBehind
        <3> QED BY <1>2, <1>6, <2>3, <3>1 DEF BehindIsMatched
    <2> QED BY <2>2, <2>3
<1>11. MatchesSound'
    <2> SUFFICES ASSUME NEW id \in Matched'
                 PROVE  id \in ever /\ IsCIDBase32(id) /\ Mentions(id)
        BY <1>1 DEF MatchesSound, Mentions
    <2>1. CASE id \in Matched
        BY <1>2, <2>1 DEF MatchesSound
    <2>2. CASE test /\ id = candidate /\ id \in registered
        <3>1. id \in ever /\ id \in CIDs
            BY <1>2, <2>2 DEF MatchTypes
        <3>2. Carries(Label, id, MinNonceLength)
            BY <1>3, <1>4, <1>8, <2>2, <3>1, OccursIsCarries
        <3> QED BY <1>3, <3>1, <3>2, IDIsSequence DEF Mentions
    <2> QED BY <1>6, <2>1, <2>2
<1> QED BY <1>9, <1>10, <1>11 DEF MatchInv

LEMMA BareLabelKeeps == ASSUME MatchInv, BareLabel PROVE MatchInv'
<1> DEFINE test == Len(Label) = CIDLength /\ IsCIDBase32(Label)
<1>1. /\ InLabel /\ tier = 2 /\ label' = label + 1
      /\ IF test THEN Record(Label) ELSE UNCHANGED matches
      /\ UNCHANGED <<mode, input, part, tier, pos, registered, always, ever>>
    BY DEF BareLabel, scan
<1>2. MatchTypes /\ BehindIsMatched /\ MatchesSound
    BY DEF MatchInv
<1>3. /\ part \in DOMAIN input /\ label \in DOMAIN input[part]
      /\ Label = input[part][label] /\ Label \in Seq(Chars)
      /\ Label \in LabelsOf(input)
    BY <1>1, <1>2, LabelIsLabel
<1>4. /\ matches' \in Seq(CIDs)
      /\ Matched' = Matched \union (IF test THEN {Label} \cap registered ELSE {})
    <2>1. CASE test
        BY <1>1, <1>2, <2>1, RecordAdds
    <2>2. CASE ~test
        <3>1. matches' = matches
            BY <1>1, <2>2
        <3> QED BY <1>2, <2>2, <3>1 DEF MatchTypes, Matched
    <2> QED BY <2>1, <2>2
<1>5. \A id \in CIDs : Label = id => test
    BY IDIsSequence
<1> HIDE DEF test
<1>6. MatchTypes'
    BY <1>1, <1>2, <1>4 DEF MatchTypes
<1>7. BehindIsMatched'
    <2> SUFFICES ASSUME NEW id \in always, NEW i \in DOMAIN input, NEW j \in DOMAIN input[i]
                 PROVE  /\ \A p \in 1 .. Len(input[i][j]) :
                              WindowBehind(i, j, p)' /\ OccursAt(input[i][j], p, id) => id \in Matched'
                        /\ mode # "everywhere" /\ LabelBehind(i, j)' /\ input[i][j] = id
                              => id \in Matched'
        BY <1>1 DEF BehindIsMatched, OccursAt
    <2>1. id \in CIDs /\ id \in registered
        BY <1>2 DEF MatchTypes
    <2>2. \A p : WindowBehind(i, j, p)' <=> WindowBehind(i, j, p)
        BY <1>1 DEF WindowBehind
    <2>3. ASSUME mode # "everywhere", LabelBehind(i, j)', input[i][j] = id
          PROVE  id \in Matched'
        <3>1. CASE i = part /\ j = label
            BY <1>3, <1>4, <1>5, <2>1, <2>3, <3>1
        <3>2. CASE LabelBehind(i, j)
            BY <1>2, <1>4, <2>3, <3>2 DEF BehindIsMatched
        <3>3. (i = part /\ j = label) \/ LabelBehind(i, j)
            BY <1>1, <1>2, <2>3, LabelTypes DEF LabelBehind, MatchTypes
        <3> QED BY <3>1, <3>2, <3>3
    <2> QED BY <1>2, <1>4, <2>2, <2>3 DEF BehindIsMatched
<1>8. MatchesSound'
    <2> SUFFICES ASSUME NEW id \in Matched'
                 PROVE  id \in ever /\ IsCIDBase32(id) /\ Mentions(id)
        BY <1>1 DEF MatchesSound, Mentions
    <2>1. CASE id \in Matched
        BY <1>2, <2>1 DEF MatchesSound
    <2>2. CASE id = Label /\ id \in registered
        <3>1. id \in ever /\ id \in CIDs
            BY <1>2, <2>2 DEF MatchTypes
        <3>2. mode # "everywhere"
            BY <1>1, <1>2 DEF MatchTypes
        <3> QED BY <1>3, <2>2, <3>1, <3>2, IDIsSequence DEF Mentions
    <2> QED BY <1>4, <2>1, <2>2
<1> QED BY <1>6, <1>7, <1>8 DEF MatchInv

\* No window is left at the end of a label.
LEMMA WindowsDoneKeeps == ASSUME MatchInv, WindowsDone PROVE MatchInv'
<1>1. /\ InLabel /\ tier = 1 /\ pos + WindowSize - 1 > Len(Label)
      /\ label' = label + 1 /\ pos' = 1
      /\ UNCHANGED <<mode, input, part, tier, matches, registered, always, ever>>
    BY DEF WindowsDone, NextLabel, scan
<1>2. MatchTypes /\ BehindIsMatched /\ MatchesSound
    BY DEF MatchInv
<1>3. part \in DOMAIN input /\ label \in DOMAIN input[part] /\ Label = input[part][label]
      /\ Len(Label) \in Nat
    BY <1>1, <1>2, LabelIsLabel
<1>4. MatchTypes'
    BY <1>1, <1>2 DEF MatchTypes
<1>5. ASSUME NEW id \in always, NEW i \in DOMAIN input, NEW j \in DOMAIN input[i],
             NEW p \in 1 .. Len(input[i][j]),
             WindowBehind(i, j, p)', OccursAt(input[i][j], p, id)
      PROVE  WindowBehind(i, j, p)
    <2>1. CASE i = part /\ j = label
        <3>1. p + WindowSize - 1 <= Len(Label)
            BY <1>3, <1>5, <2>1 DEF OccursAt
        <3>2. p < pos
            BY <1>1, <1>2, <1>3, <3>1, WindowSizes DEF MatchTypes
        <3> QED BY <2>1, <3>2 DEF WindowBehind
    <2>2. CASE ~(i = part /\ j = label)
        <3>1. i \in Nat /\ j \in Nat /\ p \in Nat /\ p >= 1
            BY <1>2, LabelTypes
        <3>2. label \in Nat /\ part \in Nat
            BY <1>2 DEF MatchTypes
        <3> QED BY <1>1, <1>5, <2>2, <3>1, <3>2 DEF WindowBehind
    <2> QED BY <2>1, <2>2
<1>6. ASSUME NEW i \in DOMAIN input, NEW j \in DOMAIN input[i],
             mode # "everywhere", LabelBehind(i, j)'
      PROVE  LabelBehind(i, j)
    BY <1>1, <1>6 DEF LabelBehind
<1> QED BY <1>1, <1>4, <1>5, <1>6, MovingOnKeeps

LEMMA NextTierKeeps == ASSUME MatchInv, NextTier PROVE MatchInv'
<1>1. /\ Scanning /\ label > Len(Labels)
      /\ label' = 1 /\ pos' = 1
      /\ IF tier = 1 /\ mode # "everywhere"
         THEN tier' = 2 /\ UNCHANGED part
         ELSE tier' = 1 /\ part' = part + 1
      /\ UNCHANGED <<mode, input, matches, registered, always, ever>>
    BY DEF NextTier, scan
<1>2. MatchTypes /\ BehindIsMatched /\ MatchesSound
    BY DEF MatchInv
<1>3. part \in DOMAIN input /\ Labels = input[part]
    BY <1>1, <1>2 DEF MatchTypes, Scanning, Labels
<1>4. MatchTypes'
    BY <1>1, <1>2 DEF MatchTypes
<1>5. \A j \in DOMAIN input[part] : j < label
    BY <1>1, <1>2, <1>3, LabelTypes DEF MatchTypes
<1>6. ASSUME NEW id \in always, NEW i \in DOMAIN input, NEW j \in DOMAIN input[i],
             NEW p \in 1 .. Len(input[i][j]),
             WindowBehind(i, j, p)', OccursAt(input[i][j], p, id)
      PROVE  WindowBehind(i, j, p)
    <2>1. i \in Nat /\ j \in Nat /\ j >= 1 /\ p \in Nat /\ p >= 1
        BY <1>2, LabelTypes
    <2>2. part \in Nat /\ tier \in {1, 2}
        BY <1>2 DEF MatchTypes
    <2>3. i <= part
        BY <1>1, <1>6, <2>1, <2>2 DEF WindowBehind
    <2> QED BY <1>5, <2>1, <2>2, <2>3 DEF WindowBehind
<1>7. ASSUME NEW i \in DOMAIN input, NEW j \in DOMAIN input[i],
             mode # "everywhere", LabelBehind(i, j)'
      PROVE  LabelBehind(i, j)
    <2>1. j \in Nat \ {0}
        BY <1>2, LabelTypes
    <2>2. CASE tier = 1
        BY <1>1, <1>7, <2>1, <2>2 DEF LabelBehind
    <2>3. CASE tier = 2
        <3>1. i <= part
            BY <1>1, <1>2, <1>7, <2>3, LabelTypes DEF LabelBehind, MatchTypes
        <3> QED BY <1>2, <1>5, <2>3, <3>1, LabelTypes DEF LabelBehind, MatchTypes
    <2> QED BY <1>2, <2>2, <2>3 DEF MatchTypes
<1> QED BY <1>1, <1>4, <1>6, <1>7, MovingOnKeeps

\* A session that came or went is none of those registered all the time.
LEMMA SessionChangeKeeps == ASSUME MatchInv, SessionChange PROVE MatchInv'
<1>1. PICK id \in UNION Registries :
         /\ registered' = IF id \in registered THEN registered \ {id} ELSE registered \union {id}
         /\ always' = always \ {id}
         /\ ever' = ever \union {id}
    BY DEF SessionChange
<1>2. UNCHANGED <<mode, input, part, tier, label, pos, matches>>
    BY DEF SessionChange, scan
<1>3. id \in CIDs
    BY <1>1, RegistriesAssumption DEF CIDs
<1>4. MatchTypes'
    BY <1>1, <1>2, <1>3 DEF MatchInv, MatchTypes
<1>5. BehindIsMatched'
    BY <1>1, <1>2 DEF MatchInv, BehindIsMatched, WindowBehind, LabelBehind, OccursAt, Matched
<1>6. MatchesSound'
    BY <1>1, <1>2 DEF MatchInv, MatchesSound, Mentions, Matched
<1> QED BY <1>4, <1>5, <1>6 DEF MatchInv

LEMMA MatchStuttering == ASSUME MatchInv, UNCHANGED matchVars PROVE MatchInv'
<1>1. UNCHANGED <<mode, input, part, tier, label, pos, matches, registered, always, ever>>
    BY DEF matchVars
<1>2. MatchTypes'
    BY <1>1 DEF MatchInv, MatchTypes
<1>3. BehindIsMatched'
    BY <1>1 DEF MatchInv, BehindIsMatched, WindowBehind, LabelBehind, OccursAt, Matched
<1>4. MatchesSound'
    BY <1>1 DEF MatchInv, MatchesSound, Mentions, Matched
<1> QED BY <1>2, <1>3, <1>4 DEF MatchInv

\* The scan has matched what it has passed, wherever it is and whatever sessions
\* came and went meanwhile (correlation.go:41-177).
THEOREM MatchInvariant == MatchSpec => []MatchInv
<1>1. MatchInv /\ [MatchNext]_matchVars => MatchInv'
    BY ScanWindowKeeps, WindowsDoneKeeps, BareLabelKeeps, NextTierKeeps, SessionChangeKeeps,
       MatchStuttering DEF MatchNext, Returned
<1> QED BY <1>1, MatchInitially, PTL DEF MatchSpec

\* Whatever is attributed to a session is mentioned by the input, for every
\* alphabet, ID length and input (correlation.go:41-78).
THEOREM AlwaysSound == MatchSpec => []MatchesSound
<1>1. MatchInv => MatchesSound
    BY DEF MatchInv
<1> QED BY <1>1, MatchInvariant, PTL

\* A scan that returns has matched every mentioned session that was there all
\* through, wherever in whichever label, for every alphabet, ID length and input.
THEOREM AlwaysComplete == MatchSpec => []MatchesComplete
<1>1. MatchInv => MatchesComplete
    <2> SUFFICES ASSUME MatchInv, ~Scanning, NEW id \in always, Mentions(id)
                 PROVE  id \in Matched
        BY DEF MatchesComplete
    <2>1. MatchTypes /\ BehindIsMatched /\ id \in CIDs
        BY DEF MatchInv, MatchTypes
    <2>2. PICK l \in LabelsOf(input) : \/ Carries(l, id, MinNonceLength)
                                       \/ mode # "everywhere" /\ l = id
        BY DEF Mentions
    <2>3. PICK i \in DOMAIN input : \E j \in DOMAIN input[i] : l = input[i][j]
        BY DEF LabelsOf
    <2>4. PICK j \in DOMAIN input[i] : l = input[i][j]
        BY <2>3
    <2>5. i < part /\ l \in Seq(Chars)
        BY <2>1, <2>4, LabelTypes DEF Scanning, MatchTypes
    <2>6. CASE Carries(l, id, MinNonceLength)
        <3>1. PICK p \in 1 .. Len(l) : OccursAt(l, p, id)
            BY <2>1, <2>5, <2>6, OccursIsCarries
        <3> QED BY <2>1, <2>4, <2>5, <3>1 DEF BehindIsMatched, WindowBehind
    <2>7. CASE mode # "everywhere" /\ l = id
        BY <2>1, <2>4, <2>5, <2>7 DEF BehindIsMatched, LabelBehind
    <2> QED BY <2>2, <2>6, <2>7
<1> QED BY <1>1, MatchInvariant, PTL

-------------------------------------------------------------------------------
(* Registration.  The invariant says which list is tried with which lengths,   *)
(* that every address that failed is one of a server asked from this list, and *)
(* that no server was passed without a reason.                                 *)

Lists == ServerLists \union {DefaultServers, FallbackServers}

Clients == [id : Nat, length : Nat, nonce : Nat,
            serverURL : {<<>>} \union ({"https", "http"} \X AllServers)]

RegTypes ==
    /\ options.servers \in ServerLists /\ options.lengths \in [id : Nat, nonce : Nat]
    /\ new \in [pc : {"options", "server", "request", "registered", "error"},
                list : Lists \union {<<>>}, start : Nat, i : Nat, scheme : {"https", "http"},
                unauthorized : BOOLEAN]
    /\ client \in Clients

\* The lengths that the servers of a list need, unless the caller named them.
LongEnough(lengths) == client.length >= lengths.id /\ client.nonce >= lengths.nonce

ListInv ==
    IF new.list = <<>>
    THEN new.i = 0 /\ new.pc \notin {"server", "request", "registered"}
    ELSE /\ new.pc # "options"
         /\ new.start < Len(new.list) /\ new.i <= Len(new.list)
         /\ new.pc \in {"request", "registered"} => new.i < Len(new.list)
         /\ IF UserProvided THEN new.list = options.servers
            ELSE \/ new.list = DefaultServers /\ LongEnough(DefaultServerLengths)
                 \/ new.list = FallbackServers /\ LongEnough(FallbackLengths)

FailedInv ==
    \A ip \in failedIPs : \E s \in tried \cap ToSet(new.list) : ip \in address[s]

\* A server that the rotation is past was passed for a reason.
PassedInv ==
    ~new.unauthorized =>
        \A s \in ToSet(new.list) \ ByURL :
            (\E k \in 0 .. new.i - 1 : ServerAt(k) = s) => Considered(s)

RegInv == RegTypes /\ ListInv /\ FailedInv /\ PassedInv /\ ReturnedClientWorks

-------------------------------------------------------------------------------
\* The rotation reaches every place of the list, and no other.
LEMMA RotationWraps ==
    ASSUME NEW n \in Nat \ {0}, NEW start \in Nat, start < n
    PROVE  /\ \A k \in 0 .. n - 1 : ((start + k) % n) + 1 \in 1 .. n
           /\ \A j \in 1 .. n : \E k \in 0 .. n - 1 : ((start + k) % n) + 1 = j
<1>1. \A x \in 0 .. n - 1 : x % n = x
    BY SMT
<1>2. \A x \in n .. 2 * n - 1 : x % n = x - n
    BY SMT
<1>3. \A k \in 0 .. n - 1 : ((start + k) % n) + 1 \in 1 .. n
    <2> SUFFICES ASSUME NEW k \in 0 .. n - 1
                 PROVE  ((start + k) % n) + 1 \in 1 .. n
        OBVIOUS
    <2>1. CASE start + k < n
        <3>1. (start + k) % n = start + k
            BY <1>1, <2>1
        <3> QED BY <2>1, <3>1
    <2>2. CASE start + k >= n
        <3>1. (start + k) % n = start + k - n
            BY <1>2, <2>2
        <3> QED BY <2>2, <3>1
    <2> QED BY <2>1, <2>2
<1>4. ASSUME NEW j \in 1 .. n
      PROVE  \E k \in 0 .. n - 1 : ((start + k) % n) + 1 = j
    <2>1. CASE start < j
        <3>1. j - 1 - start \in 0 .. n - 1 /\ (start + (j - 1 - start)) % n = j - 1
            <4>1. start + (j - 1 - start) = j - 1 /\ j - 1 \in 0 .. n - 1
                OBVIOUS
            <4> QED BY <1>1, <2>1, <4>1
        <3> QED BY <3>1
    <2>2. CASE ~(start < j)
        <3>1. PICK k : k = j - 1 - start + n
            OBVIOUS
        <3>2. k \in 0 .. n - 1 /\ start + k = j - 1 + n /\ j - 1 + n \in n .. 2 * n - 1
            BY <2>2, <3>1
        <3>3. PICK x \in n .. 2 * n - 1 : x = start + k
            BY <3>2
        <3>4. x % n = x - n /\ x - n = j - 1
            BY <1>2, <3>2, <3>3
        <3>5. ((start + k) % n) + 1 = j
            BY <3>3, <3>4
        <3> QED BY <3>2, <3>5
    <2> QED BY <2>1, <2>2
<1> QED BY <1>3, <1>4

LEMMA ListsType ==
    ASSUME NEW list \in Lists, list # <<>>
    PROVE  /\ list \in Seq(ToSet(list)) /\ Len(list) \in Nat \ {0}
           /\ DOMAIN list = 1 .. Len(list) /\ ToSet(list) \subseteq AllServers
<1>1. list \in Seq(ToSet(list))
    BY ListsAssumption DEF Lists
<1>2. ToSet(list) \subseteq AllServers
    BY DEF Lists, AllServers
<1> QED BY <1>1, <1>2

LEMMA ServersOfList ==
    ASSUME RegTypes, ListInv, new.list # <<>>
    PROVE  /\ new.list \in Lists /\ Len(new.list) \in Nat \ {0}
           /\ \A k \in 0 .. Len(new.list) - 1 : ServerAt(k) \in ToSet(new.list)
           /\ \A s \in ToSet(new.list) : \E k \in 0 .. Len(new.list) - 1 : ServerAt(k) = s
<1> DEFINE n == Len(new.list)
           place(k) == ((new.start + k) % n) + 1
<1>1. new.list \in Lists /\ new.start \in Nat /\ new.start < n
    BY DEF RegTypes, ListInv
<1>2. n \in Nat \ {0} /\ DOMAIN new.list = 1 .. n
    BY <1>1, ListsType
<1>3. /\ \A k \in 0 .. n - 1 : place(k) \in 1 .. n
      /\ \A j \in 1 .. n : \E k \in 0 .. n - 1 : place(k) = j
    <2>1. PICK m, b : m = n /\ b = new.start
        OBVIOUS
    <2>2. /\ \A k \in 0 .. m - 1 : ((b + k) % m) + 1 \in 1 .. m
          /\ \A j \in 1 .. m : \E k \in 0 .. m - 1 : ((b + k) % m) + 1 = j
        BY <1>1, <1>2, <2>1, RotationWraps
    <2> QED BY <2>1, <2>2
<1>4. \A k : ServerAt(k) = new.list[place(k)]
    BY DEF ServerAt
<1> HIDE DEF n, place
<1>5. \A k \in 0 .. n - 1 : ServerAt(k) \in ToSet(new.list)
    BY <1>2, <1>3, <1>4 DEF ToSet
<1>6. ASSUME NEW s \in ToSet(new.list)
      PROVE  \E k \in 0 .. n - 1 : ServerAt(k) = s
    <2>1. PICK j \in 1 .. n : new.list[j] = s
        BY <1>2 DEF ToSet
    <2> QED BY <1>3, <1>4, <2>1
<1> QED BY <1>1, <1>2, <1>5, <1>6 DEF n

-------------------------------------------------------------------------------
\* A list is entered at its first server, with no address that failed.
LEMMA EnteredList ==
    ASSUME RegTypes, NEW list \in Lists, Tries(list), failedIPs' = {},
           UNCHANGED <<options, address>>,
           client' \in Clients,
           IF UserProvided THEN list = options.servers
           ELSE \/ list = DefaultServers /\ LongEnough(DefaultServerLengths)'
                \/ list = FallbackServers /\ LongEnough(FallbackLengths)'
    PROVE  RegInv'
<1>1. PICK start \in 0 .. Len(list) - 1 : new' = [NewAt("server") EXCEPT !.list = list, !.start = start]
    BY DEF Tries
<1>2. /\ new' = [pc |-> "server", list |-> list, start |-> start, i |-> 0, scheme |-> "https",
                 unauthorized |-> FALSE]
    BY <1>1 DEF NewAt
<1>3. list # <<>> /\ Len(list) \in Nat
    <2>1. list # <<>>
        <3>1. PICK e : e = <<>>
            OBVIOUS
        <3>2. Len(e) = 0
            BY <3>1
        <3> QED BY <1>1, <3>1, <3>2
    <2> QED BY <2>1, ListsType
<1>4. start \in Nat /\ start < Len(list) /\ 0 <= Len(list)
    BY <1>1, <1>3
<1>5. /\ new'.list = list /\ new'.start = start /\ new'.i = 0 /\ new'.pc = "server"
      /\ new' \in [pc : {"options", "server", "request", "registered", "error"},
                   list : Lists \union {<<>>}, start : Nat, i : Nat, scheme : {"https", "http"},
                   unauthorized : BOOLEAN]
    BY <1>2, <1>4
<1>6. RegTypes'
    BY <1>5 DEF RegTypes
<1>7. ListInv'
    BY <1>3, <1>4, <1>5 DEF ListInv, UserProvided
<1>8. FailedInv' /\ PassedInv' /\ ReturnedClientWorks'
    BY <1>5 DEF FailedInv, PassedInv, ReturnedClientWorks
<1> QED BY <1>6, <1>7, <1>8 DEF RegInv

LEMMA RegInitially == RegInit => RegInv
<1> SUFFICES ASSUME RegInit PROVE RegInv
    OBVIOUS
<1>1. /\ options.servers \in ServerLists /\ options.lengths \in [id : Nat, nonce : Nat]
      /\ new = [pc |-> "options", list |-> <<>>, start |-> 0, i |-> 0, scheme |-> "https",
                unauthorized |-> FALSE]
      /\ client = [id |-> 0, length |-> 0, nonce |-> 0, serverURL |-> <<>>]
      /\ failedIPs = {}
    BY OptionsAssumption DEF RegInit, NewAt, NoClient
<1>2. RegTypes
    BY <1>1 DEF RegTypes, Clients
<1>3. ListInv /\ FailedInv /\ PassedInv /\ ReturnedClientWorks
    BY <1>1 DEF ListInv, FailedInv, PassedInv, ReturnedClientWorks
<1> QED BY <1>2, <1>3 DEF RegInv

\* The chosen lengths suffice for the default servers.
LEMMA OptionsKeeps == ASSUME RegInv, Options PROVE RegInv'
<1>1. RegTypes /\ new.pc = "options" /\ UNCHANGED <<options, address, failedIPs, held, tried>>
    BY DEF Options, RegInv
<1>2. new.list = <<>>
    BY <1>1 DEF RegInv, ListInv
<1>3. failedIPs = {}
    <2>1. ToSet(new.list) = {}
        BY <1>2 DEF ToSet
    <2> QED BY <2>1 DEF RegInv, FailedInv
<1>4. CASE LengthsRefused
    <2>1. new' = [pc |-> "error", list |-> <<>>, start |-> 0, i |-> 0, scheme |-> "https",
                  unauthorized |-> FALSE] /\ UNCHANGED client
        BY <1>4 DEF Options, NewAt
    <2>2. RegTypes'
        BY <1>1, <2>1 DEF RegTypes
    <2>3. ListInv' /\ FailedInv' /\ PassedInv' /\ ReturnedClientWorks'
        BY <1>1, <1>3, <2>1 DEF ListInv, FailedInv, PassedInv, ReturnedClientWorks
    <2> QED BY <2>2, <2>3 DEF RegInv
<1>5. CASE ~LengthsRefused
    <2>1. PICK list : list = IF UserProvided THEN options.servers ELSE DefaultServers
        OBVIOUS
    <2>2. /\ Tries(list)
          /\ client' = [client EXCEPT !.id = 1, !.length = Chosen("id"), !.nonce = Chosen("nonce")]
        BY <1>5, <2>1 DEF Options
    <2>3. list \in Lists
        BY <1>1, <2>1 DEF Lists, RegTypes
    <2>4. Chosen("id") \in Nat /\ Chosen("nonce") \in Nat
        BY <1>1 DEF Chosen, Standard, StandardLengths, DefaultServerLengths, RegTypes
    <2>5. client' \in Clients /\ client'.length = Chosen("id") /\ client'.nonce = Chosen("nonce")
        BY <1>1, <2>2, <2>4 DEF RegTypes, Clients
    <2>6. ~UserProvided => LongEnough(DefaultServerLengths)'
        BY <1>5, <2>4, <2>5 DEF LengthsRefused, LongEnough, DefaultServerLengths
    <2> QED BY <1>1, <1>3, <2>1, <2>2, <2>3, <2>5, <2>6, EnteredList
<1> QED BY <1>4, <1>5

\* Being considered lasts: what was asked from a list stays asked.
LEMMA ConsideredLasts ==
    ASSUME NEW s, Considered(s), new'.list = new.list, tried \subseteq tried', UNCHANGED address
    PROVE  Considered(s)'
BY DEF Considered

LEMMA NextServerKeeps == ASSUME RegInv, NextServer PROVE RegInv'
<1>1. /\ new.pc = "server" /\ new.i < Len(new.list)
      /\ UNCHANGED <<options, address, failedIPs, client, held, tried>>
      /\ RegTypes /\ ListInv /\ FailedInv /\ PassedInv
    BY DEF NextServer, RegInv
<1>2. new.list # <<>>
    BY <1>1 DEF ListInv
<1>3. Len(new.list) \in Nat \ {0} /\ new.i \in Nat
    BY <1>1, <1>2, ServersOfList DEF RegTypes
<1>4. CASE Skipped
    <2>1. new' = [new EXCEPT !.i = @ + 1]
        BY <1>4 DEF NextServer
    <2>2. /\ new'.i = new.i + 1 /\ new'.list = new.list /\ new'.start = new.start
          /\ new'.pc = "server" /\ new'.unauthorized = new.unauthorized
          /\ RegTypes'
        BY <1>1, <1>3, <2>1 DEF RegTypes
    <2>3. ListInv'
        BY <1>1, <1>3, <2>2 DEF ListInv, UserProvided, LongEnough
    <2>4. FailedInv'
        BY <1>1, <2>2 DEF FailedInv
\* Without an address, or with one that failed at a server that was asked.
    <2>5. Current \notin ByURL => Considered(Current)
        BY <1>1, <1>4 DEF Skipped, Lookup, FailedInv, Considered
    <2>6. PassedInv'
        <3> SUFFICES ASSUME ~new.unauthorized, NEW s \in ToSet(new.list) \ ByURL,
                            NEW k \in 0 .. new.i, ServerAt(k) = s
                     PROVE  Considered(s)'
            BY <1>3, <2>2 DEF PassedInv, ServerAt
        <3>1. CASE k = new.i
            BY <1>1, <2>2, <2>5, <3>1, ConsideredLasts DEF Current
        <3>2. CASE k \in 0 .. new.i - 1
            <4>1. Considered(s)
                BY <1>1, <3>2 DEF PassedInv
            <4> QED BY <1>1, <2>2, <4>1, ConsideredLasts
        <3> QED BY <1>3, <3>1, <3>2
    <2>7. ReturnedClientWorks'
        BY <2>2 DEF ReturnedClientWorks
    <2> QED BY <2>2, <2>3, <2>4, <2>6, <2>7 DEF RegInv
<1>5. CASE ~Skipped
    <2>1. PICK scheme \in {"http", "https"} : new' = [new EXCEPT !.pc = "request", !.scheme = scheme]
        BY <1>5 DEF NextServer
    <2>2. /\ new'.i = new.i /\ new'.list = new.list /\ new'.start = new.start
          /\ new'.pc = "request" /\ new'.unauthorized = new.unauthorized
          /\ RegTypes'
        BY <1>1, <1>3, <2>1 DEF RegTypes
    <2>3. ListInv'
        BY <1>1, <1>3, <2>2 DEF ListInv, UserProvided, LongEnough
    <2>4. FailedInv'
        BY <1>1, <2>2 DEF FailedInv
    <2>5. PassedInv'
        BY <1>1, <2>2 DEF PassedInv, ServerAt, Considered
    <2>6. ReturnedClientWorks'
        BY <2>2 DEF ReturnedClientWorks
    <2> QED BY <2>2, <2>3, <2>4, <2>5, <2>6 DEF RegInv
<1> QED BY <1>4, <1>5

\* The server that is asked is one of the list.
LEMMA CurrentIsServer ==
    ASSUME RegTypes, ListInv, new.pc = "request"
    PROVE  /\ new.list # <<>> /\ Len(new.list) \in Nat /\ new.i \in Nat /\ new.i < Len(new.list)
           /\ Current \in ToSet(new.list) /\ Current \in AllServers
<1>1. new.list # <<>> /\ new.i < Len(new.list) /\ new.i \in Nat
    BY DEF ListInv, RegTypes
<1>2. /\ new.list \in Lists /\ Len(new.list) \in Nat \ {0}
      /\ \A k \in 0 .. Len(new.list) - 1 : ServerAt(k) \in ToSet(new.list)
    BY <1>1, ServersOfList
<1>3. Current \in ToSet(new.list)
    BY <1>1, <1>2 DEF Current
<1> QED BY <1>1, <1>2, <1>3, ListsType

LEMMA AcceptedKeeps == ASSUME RegInv, Accepted PROVE RegInv'
<1>1. /\ new.pc = "request"
      /\ held' = held \union {<<Current, client.id>>}
      /\ tried' = tried \union {Current}
      /\ new' = [new EXCEPT !.pc = "registered"]
      /\ client' = [client EXCEPT !.serverURL = <<new.scheme, Current>>]
      /\ UNCHANGED <<options, address, failedIPs>>
      /\ RegTypes /\ ListInv /\ FailedInv /\ PassedInv
    BY DEF Accepted, RegInv
<1>2. Current \in ToSet(new.list) /\ Current \in AllServers /\ new.i < Len(new.list)
      /\ new.list # <<>>
    BY <1>1, CurrentIsServer
<1>3. /\ new'.i = new.i /\ new'.list = new.list /\ new'.start = new.start
      /\ new'.pc = "registered" /\ new'.unauthorized = new.unauthorized
      /\ new' \in [pc : {"options", "server", "request", "registered", "error"},
                   list : Lists \union {<<>>}, start : Nat, i : Nat, scheme : {"https", "http"},
                   unauthorized : BOOLEAN]
    BY <1>1 DEF RegTypes
<1>4. /\ client' \in Clients /\ client'.serverURL[2] = Current
      /\ client'.id = client.id /\ client'.length = client.length /\ client'.nonce = client.nonce
    BY <1>1, <1>2 DEF RegTypes, Clients
<1>5. RegTypes'
    BY <1>1, <1>3, <1>4 DEF RegTypes
<1>6. ListInv'
    BY <1>1, <1>2, <1>3, <1>4 DEF ListInv, UserProvided, LongEnough
<1>7. FailedInv'
    BY <1>1, <1>3 DEF FailedInv
<1>8. PassedInv'
    <2> SUFFICES ASSUME ~new.unauthorized, NEW s \in ToSet(new.list) \ ByURL,
                        NEW k \in 0 .. new.i - 1, ServerAt(k) = s
                 PROVE  Considered(s)'
        BY <1>3 DEF PassedInv, ServerAt
    <2>1. Considered(s)
        BY <1>1 DEF PassedInv
    <2> QED BY <1>1, <1>3, <2>1, ConsideredLasts
\* The lengths of the client are those of the list that this server is in.
<1>9. ReturnedClientWorks'
    <2>1. PICK s : s = Current
        OBVIOUS
    <2>2. client'.serverURL[2] = s /\ <<s, client'.id>> \in held'
        BY <1>1, <1>4, <2>1
    <2>3. ASSUME ~UserProvided
          PROVE  Fits(s)'
        <3>1. \/ new.list = DefaultServers /\ LongEnough(DefaultServerLengths)
              \/ new.list = FallbackServers /\ LongEnough(FallbackLengths)
            BY <1>1, <1>2, <2>3 DEF ListInv
        <3>2. /\ s \in ToSet(DefaultServers) => LongEnough(DefaultServerLengths)
              /\ s \in ToSet(FallbackServers) => LongEnough(FallbackLengths)
            BY <1>2, <2>1, <3>1, ServersAssumption
        <3> QED BY <1>4, <3>2 DEF Fits, LongEnough
    <2>4. ~UserProvided' => Fits(s)'
        BY <1>1, <2>3 DEF UserProvided
    <2> QED BY <2>2, <2>4 DEF ReturnedClientWorks, Fits
<1> QED BY <1>5, <1>6, <1>7, <1>8, <1>9 DEF RegInv

LEMMA NotAcceptedKeeps == ASSUME RegInv, NotAccepted PROVE RegInv'
<1>1. /\ new.pc = "request"
      /\ tried' = tried \union {Current}
      /\ UNCHANGED <<options, address, client>>
      /\ RegTypes /\ ListInv /\ FailedInv /\ PassedInv
    BY DEF NotAccepted, RegInv
<1>2. /\ Current \in ToSet(new.list) /\ new.i < Len(new.list) /\ new.i \in Nat
      /\ Len(new.list) \in Nat /\ new.list # <<>>
    BY <1>1, CurrentIsServer
<1>3. PICK outcome \in {"lost", "unauthorized", "other"} :
         /\ new' = IF FallsBack THEN [new EXCEPT !.scheme = "http"]
                   ELSE IF outcome = "unauthorized"
                   THEN [new EXCEPT !.pc = "server", !.i = Len(new.list), !.unauthorized = TRUE]
                   ELSE [new EXCEPT !.pc = "server", !.i = @ + 1]
         /\ failedIPs' = IF FallsBack \/ outcome = "unauthorized" THEN failedIPs
                         ELSE failedIPs \union Lookup(Current)
    BY DEF NotAccepted
\* It goes on with http, with the next server, or ends the list.
<1>4. /\ new'.list = new.list /\ new'.start = new.start
      /\ new' \in [pc : {"options", "server", "request", "registered", "error"},
                   list : Lists \union {<<>>}, start : Nat, i : Nat, scheme : {"https", "http"},
                   unauthorized : BOOLEAN]
      /\ \/ new'.pc = "request" /\ new'.i = new.i /\ new'.unauthorized = new.unauthorized
         \/ new'.pc = "server" /\ new'.i = Len(new.list) /\ new'.unauthorized
         \/ new'.pc = "server" /\ new'.i = new.i + 1 /\ new'.unauthorized = new.unauthorized
    <2>1. new \in [pc : {"options", "server", "request", "registered", "error"},
                   list : Lists \union {<<>>}, start : Nat, i : Nat, scheme : {"https", "http"},
                   unauthorized : BOOLEAN]
        BY <1>1 DEF RegTypes
    <2>2. CASE FallsBack
        <3>1. new' = [new EXCEPT !.scheme = "http"]
            BY <1>3, <2>2
        <3> QED BY <1>1, <2>1, <3>1
    <2>3. CASE ~FallsBack /\ outcome = "unauthorized"
        <3>1. new' = [new EXCEPT !.pc = "server", !.i = Len(new.list), !.unauthorized = TRUE]
            BY <1>3, <2>3
        <3> QED BY <1>2, <2>1, <3>1
    <2>4. CASE ~FallsBack /\ outcome # "unauthorized"
        <3>1. new' = [new EXCEPT !.pc = "server", !.i = new.i + 1] /\ new.i + 1 \in Nat
            BY <1>2, <1>3, <2>4
        <3> QED BY <2>1, <3>1
    <2> QED BY <2>2, <2>3, <2>4
<1>5. RegTypes'
    BY <1>1, <1>4 DEF RegTypes
<1>6. ListInv'
    BY <1>1, <1>2, <1>4 DEF ListInv, UserProvided, LongEnough
<1>7. FailedInv'
    <2>1. failedIPs' \subseteq failedIPs \union address[Current]
        BY <1>3 DEF Lookup
    <2> QED BY <1>1, <1>2, <1>4, <2>1 DEF FailedInv
<1>8. PassedInv'
    <2> SUFFICES ASSUME ~new'.unauthorized, NEW s \in ToSet(new.list) \ ByURL,
                        NEW k \in 0 .. new.i, ServerAt(k) = s
                 PROVE  Considered(s)'
        BY <1>2, <1>4 DEF PassedInv, ServerAt
    <2>1. CASE k = new.i
        <3>1. s \in tried'
            BY <1>1, <2>1 DEF Current
        <3> QED BY <3>1 DEF Considered
    <2>2. CASE k \in 0 .. new.i - 1
        <3>1. Considered(s)
            BY <1>1, <1>4, <2>2 DEF PassedInv
        <3> QED BY <1>1, <1>4, <3>1, ConsideredLasts
    <2> QED BY <1>2, <2>1, <2>2
<1>9. ReturnedClientWorks'
    BY <1>4 DEF ReturnedClientWorks
<1> QED BY <1>5, <1>6, <1>7, <1>8, <1>9 DEF RegInv

LEMMA ListFailedKeeps == ASSUME RegInv, ListFailed PROVE RegInv'
<1>1. /\ new.pc = "server" /\ new.i = Len(new.list) /\ failedIPs' = {}
      /\ UNCHANGED <<options, address, held, tried>>
      /\ RegTypes /\ ListInv /\ PassedInv
    BY DEF ListFailed, RegInv
<1>2. CASE UserProvided \/ new.list = FallbackServers
    <2>1. new' = [new EXCEPT !.pc = "error"] /\ UNCHANGED client
        BY <1>2 DEF ListFailed
    <2>2. /\ new'.list = new.list /\ new'.start = new.start /\ new'.i = new.i /\ new'.pc = "error"
          /\ new'.unauthorized = new.unauthorized
          /\ new' \in [pc : {"options", "server", "request", "registered", "error"},
                       list : Lists \union {<<>>}, start : Nat, i : Nat, scheme : {"https", "http"},
                       unauthorized : BOOLEAN]
        BY <1>1, <2>1 DEF RegTypes
    <2>3. RegTypes'
        BY <1>1, <2>1, <2>2 DEF RegTypes
    <2>4. ListInv'
        BY <1>1, <2>1, <2>2 DEF ListInv, UserProvided, LongEnough
    <2>5. PassedInv'
        BY <1>1, <2>2 DEF PassedInv, ServerAt, Considered
    <2>6. FailedInv' /\ ReturnedClientWorks'
        BY <1>1, <2>2 DEF FailedInv, ReturnedClientWorks
    <2> QED BY <2>3, <2>4, <2>5, <2>6 DEF RegInv
<1>3. CASE ~(UserProvided \/ new.list = FallbackServers)
    <2>1. Tries(FallbackServers) /\ client' = Fitted
        BY <1>3 DEF ListFailed
    <2>2. PICK id, length, nonce :
             /\ client' = [client EXCEPT !.id = id, !.length = length, !.nonce = nonce]
             /\ id \in Nat /\ length \in Nat /\ nonce \in Nat
             /\ length >= FallbackLengths.id /\ nonce >= FallbackLengths.nonce
        <3>1. PICK id, length, nonce :
                 /\ id = (IF client.length < FallbackLengths.id THEN 2 ELSE client.id)
                 /\ length = IF client.length < FallbackLengths.id THEN FallbackLengths.id
                             ELSE client.length
                 /\ nonce = IF client.nonce < FallbackLengths.nonce THEN FallbackLengths.nonce
                            ELSE client.nonce
            OBVIOUS
        <3>2. client' = [client EXCEPT !.id = id, !.length = length, !.nonce = nonce]
            BY <1>1, <2>1, <3>1 DEF Fitted, RegTypes, Clients
        <3>3. client.id \in Nat /\ client.length \in Nat /\ client.nonce \in Nat
            BY <1>1 DEF RegTypes, Clients
        <3>4. id \in Nat /\ length \in Nat /\ nonce \in Nat /\ length >= 20 /\ nonce >= 13
            BY <3>1, <3>3 DEF FallbackLengths
        <3>5. FallbackLengths.id = 20 /\ FallbackLengths.nonce = 13
            BY DEF FallbackLengths
        <3>6. length >= FallbackLengths.id /\ nonce >= FallbackLengths.nonce
            BY <3>4, <3>5
        <3> QED BY <3>2, <3>4, <3>6
    <2>3. client' \in Clients /\ LongEnough(FallbackLengths)'
        BY <1>1, <2>2 DEF RegTypes, Clients, LongEnough, FallbackLengths
    <2>4. FallbackServers \in Lists
        BY DEF Lists
    <2> QED BY <1>1, <1>3, <2>1, <2>3, <2>4, EnteredList
<1> QED BY <1>2, <1>3

\* New keeps track of the list, the lengths and the addresses that failed
\* (client.go:97-300).
THEOREM RegInvariant == RegSpec => []RegInv
<1>1. RegInv /\ UNCHANGED regVars => RegInv'
    BY DEF RegInv, regVars, RegTypes, ListInv, FailedInv, PassedInv, ReturnedClientWorks, Fits,
           LongEnough, UserProvided, Considered, ServerAt
<1>2. RegInv /\ [RegNext]_regVars => RegInv'
    BY <1>1, OptionsKeeps, NextServerKeeps, AcceptedKeeps, NotAcceptedKeeps, ListFailedKeeps
       DEF RegNext
<1> QED BY <1>2, RegInitially, PTL DEF RegSpec

\* For all server lists, rotations, outcomes and lengths: a client that New
\* returned has its session at the server it will poll (client.go:189-208).
THEOREM ReturnedClientsWork == RegSpec => []ReturnedClientWorks
<1>1. RegInv => ReturnedClientWorks
    BY DEF RegInv
<1> QED BY <1>1, RegInvariant, PTL

\* For all server lists and address books: no server that is written as a name
\* is left out when a list is given up, wherever the rotation started
\* (client.go:219-254).
THEOREM NoNameLeftOut == RegSpec => []NamesConsidered
<1>1. RegInv => NamesConsidered
    <2> SUFFICES ASSUME RegInv, Exhausted, NEW s \in ToSet(new.list) \ ByURL
                 PROVE  Considered(s)
        BY DEF NamesConsidered
    <2>1. RegTypes /\ ListInv /\ PassedInv /\ new.list # <<>> /\ new.i = Len(new.list)
          /\ ~new.unauthorized
        BY DEF RegInv, Exhausted
    <2>2. PICK k \in 0 .. Len(new.list) - 1 : ServerAt(k) = s
        BY <2>1, ServersOfList
    <2> QED BY <2>1, <2>2 DEF PassedInv
<1> QED BY <1>1, RegInvariant, PTL
-------------------------------------------------------------------------------
\* The command line.  What the file names is never the ID of a client that is
\* closed, since an ID is made by one run; and an interaction is in one place only,
\* so that displayCount counts what passed the filters.

Items == [n : Nat, displayed : BOOLEAN]
Working == {"polls", "stops", "saves", "judges", "exits"}

CliTypes ==
    /\ cli \in [pc : {"begin", "load", "new", "ended"} \union Working, run : IDs,
                withFile : BOOLEAN, id : IDs \union {NoID}, count : Nat,
                reason : {"none", "signal", "timeout", "count"}, code : {0, 1}]
    /\ poller \in [pc : {"none", "wait", "callbacks"}, cancelled : BOOLEAN, items : Seq(Items)]
    /\ displayCount \in Nat /\ arrived \in Nat
    /\ kept \in IDs \union {NoID, Unreadable}
    /\ sessions \in [IDs -> Seq(Items) \union {NoID}]
    /\ evicted \subseteq IDs

Collects(id) == Open(id) \/ id \in evicted

\* Whose ID is where.
OwnerInv ==
    /\ cli.pc = "load" => kept # NoID
    /\ cli.pc \in {"load", "saves"} => cli.withFile
    /\ cli.pc \in Working =>
           /\ cli.id \in IDs /\ cli.id <= cli.run
           /\ IF cli.withFile THEN Collects(cli.id) ELSE cli.id = cli.run
    /\ kept \in IDs =>
           /\ kept < cli.run \/ (kept = cli.run /\ cli.withFile /\ cli.pc \in {"judges", "exits", "ended"})
           /\ Collects(kept)

\* What is held for a session, or by the poll goroutine, at place 0.
Holders == 0 .. MaxRuns
Buffer(h) == IF h = 0 THEN poller.items ELSE IF sessions[h] = NoID THEN <<>> ELSE sessions[h]

\* What the filters let through.
Passed == shown \union unwritten

\* What is in a buffer is nowhere else and was not shown.
ApartInv ==
    /\ \A g, h \in Holders : \A i \in DOMAIN Buffer(g), j \in DOMAIN Buffer(h) :
           Buffer(g)[i].n = Buffer(h)[j].n => g = h /\ i = j
    /\ \A h \in Holders : \A i \in DOMAIN Buffer(h) :
           Buffer(h)[i].n \in 1 .. arrived \ Passed

ShownInv ==
    /\ Passed \subseteq 1 .. arrived
    /\ cli.count > 0 => displayCount = Cardinality(Passed)
    /\ cli.pc \in {"begin", "load", "new"} => displayCount = 0 /\ Passed = {}
    /\ cli.pc \notin Working => poller = NoPoller

\* What each reason to stop says of the count.
ReasonInv ==
    /\ cli.pc = "begin" => cli.reason = "none"
    /\ cli.reason = "count" => displayCount >= cli.count
    /\ cli.reason = "timeout" /\ cli.pc \in {"exits", "ended"} /\ cli.code = 0 =>
           displayCount >= cli.count

CliInv == CliTypes /\ OwnerInv /\ ApartInv /\ ShownInv /\ ReasonInv
-------------------------------------------------------------------------------
LEMMA IDFacts ==
    /\ IDs \subseteq Nat \ {0} /\ NoID \notin IDs /\ Unreadable \notin IDs /\ NoID # Unreadable
    /\ Holders = IDs \union {0} /\ 1 \in IDs
    /\ NoID \notin Seq(Items) /\ <<>> \in Seq(Items) /\ <<>> # NoID
<1>1. NoID \notin Seq(Items)
    BY NoIDAssumption DEF Items
<1>2. <<>> \in Seq(Items)
    OBVIOUS
<1>3. IDs \subseteq Nat \ {0} /\ Holders = IDs \union {0} /\ 1 \in IDs
    BY RunsAssumption DEF IDs, Holders
<1>4. NoID \notin IDs /\ Unreadable \notin IDs /\ NoID # Unreadable
    BY NoIDAssumption DEF IDs
<1>5. <<>> # NoID
    BY <1>1, <1>2
<1> QED BY <1>1, <1>2, <1>3, <1>4, <1>5

\* A registration leaves the session collecting, and all others as they are.
LEMMA RegistersCollects ==
    ASSUME CliTypes, NEW id \in IDs, Registers(id)
    PROVE  /\ sessions' \in [IDs -> Seq(Items) \union {NoID}] /\ evicted' \subseteq IDs
           /\ Open(id)' /\ \A other \in IDs : Collects(other) => Collects(other)'
           /\ \A h \in IDs : Buffer(h)' = Buffer(h)
<1>1. CASE Open(id)
    BY <1>1, IDFacts DEF Registers, Open, Collects, CliTypes, Buffer
<1>2. CASE ~Open(id)
    <2>1. sessions' = [sessions EXCEPT ![id] = <<>>] /\ evicted' = evicted \ {id}
        BY <1>2 DEF Registers
    <2>2. sessions' \in [IDs -> Seq(Items) \union {NoID}] /\ sessions'[id] = <<>>
          /\ \A other \in IDs \ {id} : sessions'[other] = sessions[other]
        BY <2>1, IDFacts DEF CliTypes
    <2>3. \A h \in IDs : Buffer(h)' = Buffer(h)
        BY <1>2, <2>2, IDFacts DEF Buffer, Open
    <2> QED BY <2>1, <2>2, <2>3, IDFacts DEF CliTypes, Open, Collects
<1> QED BY <1>1, <1>2

\* What main does, for the types and for whose ID is where.
MainNext == Begin \/ CliRegister \/ Select \/ Stop \/ Save \/ Judge \/ Exit \/ Kill \/ NextRun

LEMMA MainTypes == ASSUME CliTypes, OwnerInv, MainNext PROVE CliTypes'
<1>1. CASE Begin
    BY <1>1, RunsAssumption DEF Begin, CliTypes, Working
<1>2. CASE CliRegister
    <2>1. CASE cli' = [cli EXCEPT !.pc = "ended", !.code = 1] /\ UNCHANGED <<poller, sessions, evicted>>
        BY <1>2, <2>1 DEF CliRegister, CliTypes, Working
    <2>2. CASE \E id \in IDs : (StartsPolling(id) /\ Registers(id)) \/ Fails(id)
        <3>1. PICK id \in IDs : (StartsPolling(id) /\ Registers(id)) \/ Fails(id)
            BY <2>2
        <3>2. /\ sessions' \in [IDs -> Seq(Items) \union {NoID}] /\ evicted' \subseteq IDs
            BY <3>1, RegistersCollects DEF Fails, CliTypes
        <3>3. poller' \in [pc : {"none", "wait", "callbacks"}, cancelled : BOOLEAN, items : Seq(Items)]
            BY <3>1, IDFacts DEF Fails, StartsPolling, NoPoller, CliTypes
        <3>4. cli' \in [pc : {"begin", "load", "new", "ended"} \union Working, run : IDs,
                        withFile : BOOLEAN, id : IDs \union {NoID}, count : Nat,
                        reason : {"none", "signal", "timeout", "count"}, code : {0, 1}]
            BY <3>1 DEF Fails, StartsPolling, CliTypes, Working
        <3> QED BY <1>2, <3>2, <3>3, <3>4 DEF CliRegister, CliTypes
    <2> QED BY <1>2, <2>1, <2>2 DEF CliRegister, CliTypes, OwnerInv
<1>3. CASE Select
    BY <1>3 DEF Select, CliTypes, Working
<1>4. CASE Stop
    BY <1>4 DEF Stop, CliTypes, Working
<1>5. CASE Save
    BY <1>5 DEF Save, CliTypes, OwnerInv, Working
<1>6. CASE Judge
    BY <1>6 DEF Judge, CliTypes, Working
<1>7. CASE Exit
    BY <1>7, IDFacts DEF Exit, CliTypes, Working, NoPoller
<1>8. CASE Kill
    <2>1. poller' \in [pc : {"none", "wait", "callbacks"}, cancelled : BOOLEAN, items : Seq(Items)]
        BY <1>8, IDFacts DEF Kill, NoPoller
    <2>2. kept' \in IDs \union {NoID, Unreadable}
        BY <1>8 DEF Kill, CliTypes, OwnerInv, Working
    <2> QED BY <1>8, <2>1, <2>2 DEF Kill, CliTypes, Working
<1>9. CASE NextRun
    <2>1. cli.run + 1 \in IDs
        BY <1>9, RunsAssumption DEF NextRun, CliTypes, IDs
    <2> QED BY <1>9, <2>1, IDFacts DEF NextRun, CliTypes, Working
<1> QED BY <1>1, <1>2, <1>3, <1>4, <1>5, <1>6, <1>7, <1>9, <1>8 DEF MainNext

LEMMA MainOwner == ASSUME CliTypes, OwnerInv, MainNext PROVE OwnerInv'
<1>1. CASE Begin
    BY <1>1 DEF Begin, CliTypes, OwnerInv, Working, Collects, Open
<1>2. CASE CliRegister
    <2>1. CASE cli' = [cli EXCEPT !.pc = "ended", !.code = 1] /\ UNCHANGED <<poller, sessions, evicted>>
        BY <1>2, <2>1, IDFacts DEF CliRegister, CliTypes, OwnerInv, Working, Collects, Open
    <2>2. CASE cli.pc = "load" /\ kept # Unreadable /\ ((StartsPolling(kept) /\ Registers(kept)) \/ Fails(kept))
        <3>1. kept \in IDs /\ kept < cli.run /\ cli.withFile /\ kept' = kept
            BY <1>2, <2>2 DEF CliTypes, OwnerInv, CliRegister
        <3>2. \A id \in IDs : Collects(id) => Collects(id)'
            BY <2>2, <3>1, RegistersCollects DEF Fails, Collects, Open
        <3>3. cli'.run = cli.run /\ cli'.withFile = cli.withFile
              /\ (cli'.pc = "ended" \/ (cli'.pc = "polls" /\ cli'.id = kept))
            BY <2>2 DEF Fails, StartsPolling, CliTypes
        <3>4. PICK k \in IDs : k = kept
            BY <3>1
        <3>5. Collects(k) /\ Collects(k)'
            BY <3>1, <3>2, <3>4 DEF OwnerInv
        <3>6. kept' \in IDs => kept' < cli'.run /\ Collects(kept)'
            BY <3>1, <3>3, <3>4, <3>5 DEF Collects, Open
        <3>7. cli'.pc = "polls" =>
                 cli'.id \in IDs /\ cli'.id <= cli'.run /\ cli'.withFile /\ Collects(cli.id)'
            <4>1. \A i, j \in IDs : i < j => i <= j
                BY IDFacts
            <4>2. cli.run \in IDs
                BY DEF CliTypes
            <4>3. cli'.pc = "polls" => cli'.id = k
                BY <3>3, <3>4
            <4> QED BY <3>1, <3>3, <3>4, <3>5, <4>1, <4>2, <4>3 DEF Collects, Open
        <3> QED BY <3>3, <3>6, <3>7 DEF OwnerInv, Working
    <2>3. CASE cli.pc = "new" /\ ((StartsPolling(cli.run) /\ Registers(cli.run)) \/ Fails(cli.run))
        <3>1. cli.run \in IDs /\ (kept \in IDs => kept < cli.run) /\ kept' = kept
            BY <1>2, <2>3 DEF CliTypes, OwnerInv, CliRegister
        <3>2. cli'.run = cli.run /\ cli'.withFile = cli.withFile
              /\ (cli'.pc = "ended" \/ (cli'.pc = "polls" /\ cli'.id = cli.run))
            BY <2>3 DEF Fails, StartsPolling, CliTypes
        <3>3. PICK r \in IDs : r = cli.run
            BY <3>1
        <3>4. /\ \A id \in IDs : Collects(id) => Collects(id)'
              /\ cli'.pc = "polls" => Collects(r)'
            <4>1. CASE Registers(r)
                BY <3>3, <4>1, RegistersCollects DEF Collects
            <4>2. CASE cli'.pc = "ended" /\ UNCHANGED <<sessions, evicted>>
                BY <4>2 DEF Collects, Open
            <4> QED BY <2>3, <3>3, <4>1, <4>2 DEF Fails, CliTypes
        <3>5. cli'.pc = "polls" => Collects(cli.id)'
            <4> SUFFICES ASSUME cli'.pc = "polls" PROVE Collects(cli.id)'
                OBVIOUS
            <4>1. cli'.id = r /\ Collects(r)'
                BY <3>2, <3>3, <3>4
            <4> QED BY <4>1 DEF Collects, Open
        <3>6. kept' \in IDs => kept' < cli'.run /\ Collects(kept)'
            BY <2>3, <3>1, <3>2, <3>4 DEF OwnerInv, CliTypes, Collects, Open
        <3>7. cli'.pc = "polls" => cli'.id \in IDs /\ cli'.id <= cli'.run /\ cli'.id = cli'.run
            <4>1. \A id \in IDs : id <= id
                BY IDFacts
            <4> QED BY <3>1, <3>2, <4>1
        <3> QED BY <3>2, <3>5, <3>6, <3>7 DEF OwnerInv, Working
    <2> QED BY <1>2, <2>1, <2>2, <2>3 DEF CliRegister
<1>3. CASE Select
    BY <1>3 DEF Select, CliTypes, OwnerInv, Working, Collects, Open
\* Without a file the client has the ID of this run, which no file has.
<1>4. CASE Stop
    <2>1. cli.pc = "stops" /\ cli.id \in IDs /\ kept' = kept /\ evicted' = evicted
          /\ cli' = [cli EXCEPT !.pc = IF cli.withFile THEN "saves" ELSE "judges"]
        BY <1>4 DEF Stop, OwnerInv, Working
    <2>2. CASE sessions' = sessions
        BY <2>1, <2>2 DEF CliTypes, OwnerInv, Working, Collects, Open
    <2>3. CASE ~KeepsSession /\ sessions' = [sessions EXCEPT ![cli.id] = NoID]
        <3>1. ~cli.withFile /\ cli.id = cli.run /\ (kept \in IDs => kept < cli.run)
            BY <2>1, <2>3 DEF KeepsSession, OwnerInv, CliTypes, Working
        <3>2. kept \in IDs => sessions'[kept] = sessions[kept]
            BY <2>1, <2>3, <3>1, IDFacts DEF CliTypes
        <3>3. cli'.run = cli.run /\ cli'.pc = "judges" /\ ~cli'.withFile /\ cli'.id = cli.id
            BY <2>1, <3>1 DEF CliTypes
        <3> QED BY <2>1, <3>1, <3>2, <3>3 DEF CliTypes, OwnerInv, Working, Collects, Open
    <2> QED BY <1>4, <2>2, <2>3 DEF Stop
<1>5. CASE Save
    <2>1. /\ cli.pc = "saves" /\ cli.withFile /\ cli.id \in IDs /\ cli.id <= cli.run
          /\ Collects(cli.id) /\ kept' \in {cli.id, kept, Unreadable}
          /\ cli' = [cli EXCEPT !.pc = "judges"] /\ UNCHANGED <<sessions, evicted>>
        BY <1>5 DEF Save, OwnerInv, Working
    <2>2. \A id : Collects(id)' = Collects(id)
        BY <2>1 DEF Collects, Open
    <2>3. cli'.run = cli.run /\ cli'.pc = "judges" /\ cli'.withFile /\ cli'.id = cli.id
        BY <2>1 DEF CliTypes
    <2>4. kept' \in IDs => kept' <= cli.run /\ Collects(kept')
        BY <2>1, IDFacts DEF OwnerInv, CliTypes
    <2>5. kept' \in IDs => Collects(kept)'
        BY <2>1, <2>4 DEF Collects, Open
    <2>6. kept' \in IDs => kept' < cli.run \/ kept' = cli.run
        <3>1. cli.run \in Nat /\ \A id \in IDs : id \in Nat
            BY IDFacts DEF CliTypes
        <3>2. \A m, n \in Nat : m <= n => m < n \/ m = n
            OBVIOUS
        <3> QED BY <2>4, <3>1, <3>2
    <2> QED BY <2>1, <2>2, <2>3, <2>5, <2>6 DEF OwnerInv, Working
<1>6. CASE Judge
    BY <1>6 DEF Judge, CliTypes, OwnerInv, Working, Collects, Open
<1>7. CASE Exit
    BY <1>7 DEF Exit, CliTypes, OwnerInv, Working, Collects, Open
<1>8. CASE Kill
    <2>1. /\ cli.pc \in {"load", "new"} \union Working /\ UNCHANGED <<sessions, evicted>>
          /\ cli' = [cli EXCEPT !.pc = "ended", !.code = 1]
        BY <1>8 DEF Kill, Alive, CliTypes
    <2>2. cli'.pc = "ended" /\ cli'.run = cli.run /\ cli'.withFile = cli.withFile
        BY <2>1 DEF CliTypes
    <2>3. \A id : Collects(id)' = Collects(id)
        BY <2>1 DEF Collects, Open
    <2>4. CASE kept' = kept
        BY <2>2, <2>3, <2>4 DEF OwnerInv, Working, Collects, Open
    <2>5. CASE kept' = Unreadable
        BY <2>2, <2>5, IDFacts DEF OwnerInv, Working
    <2>6. CASE cli.pc = "saves" /\ kept' = cli.id
        <3>1. cli.withFile /\ cli.id \in IDs /\ cli.id <= cli.run /\ Collects(cli.id)
            BY <2>6 DEF OwnerInv, Working
        <3>2. cli.run \in Nat /\ IDs \subseteq Nat
            BY IDFacts DEF CliTypes
        <3>3. kept' < cli.run \/ kept' = cli.run
            <4>1. \A m, n \in Nat : m <= n => m < n \/ m = n
                OBVIOUS
            <4> QED BY <2>6, <3>1, <3>2, <4>1
        <3>4. Collects(kept)'
            BY <2>1, <2>6, <3>1 DEF Collects, Open
        <3> QED BY <2>2, <3>1, <3>3, <3>4 DEF OwnerInv, Working
    <2> QED BY <1>8, <2>4, <2>5, <2>6 DEF Kill
<1>9. CASE NextRun
    <2>1. /\ cli'.pc = "begin" /\ cli'.run = cli.run + 1 /\ cli.pc = "ended"
          /\ UNCHANGED <<kept, sessions, evicted>>
        BY <1>9 DEF NextRun
    <2>2. cli.run \in Nat /\ IDs \subseteq Nat
        BY IDFacts DEF CliTypes
    <2>3. kept \in IDs => kept < cli.run + 1 /\ Collects(kept)
        BY <2>2 DEF OwnerInv
    <2> QED BY <2>1, <2>3 DEF OwnerInv, Working, Collects, Open
<1> QED BY <1>1, <1>2, <1>3, <1>4, <1>5, <1>6, <1>7, <1>9, <1>8 DEF MainNext
\* What the goroutines and the server do keeps main and the file as they are, and
\* every session where it is, or evicted.
OtherNext ==
    \/ Drain \/ Display \/ Displayed \/ ReRegister \/ Arrive
    \/ \E id \in IDs : EvictSession(id)

LEMMA OtherKeeps == ASSUME CliTypes, OwnerInv, ShownInv, OtherNext PROVE (CliTypes /\ OwnerInv)'
<1> DEFINE Kept ==
        /\ poller' \in [pc : {"none", "wait", "callbacks"}, cancelled : BOOLEAN, items : Seq(Items)]
        /\ displayCount' \in Nat /\ arrived' \in Nat
        /\ sessions' \in [IDs -> Seq(Items) \union {NoID}] /\ evicted' \subseteq IDs
        /\ \A id \in IDs : Collects(id) => Collects(id)'
<1>1. cli' = cli /\ kept' = kept
    BY DEF OtherNext, Drain, Display, Displayed, ReRegister, Arrive, EvictSession
<1>2. Kept
    <2>1. CASE Drain
        <3>1. cli.id \in IDs /\ sessions[cli.id] \in Seq(Items)
            <4>1. cli.id \in IDs
                BY <2>1 DEF Drain, ShownInv, OwnerInv, NoPoller
            <4> QED BY <2>1, <4>1 DEF Drain, CliTypes, Open
        <3>2. sessions' = [sessions EXCEPT ![cli.id] = <<>>] /\ <<>> \in Seq(Items) /\ <<>> # NoID
            BY <2>1, IDFacts DEF Drain
        <3>3. poller' \in [pc : {"none", "wait", "callbacks"}, cancelled : BOOLEAN, items : Seq(Items)]
            BY <2>1, <3>1 DEF Drain, CliTypes
        <3>4. /\ sessions' \in [IDs -> Seq(Items) \union {NoID}]
              /\ \A id \in IDs : sessions[id] # NoID => sessions'[id] # NoID
            BY <3>1, <3>2 DEF CliTypes
        <3> QED BY <2>1, <3>3, <3>4 DEF Drain, CliTypes, Collects, Open
    <2>2. CASE Display
        <3>1. Tail(poller.items) \in Seq(Items)
            <4>1. PICK s \in Seq(Items) : s = poller.items
                BY DEF CliTypes
            <4>2. s # <<>>
                BY <2>2, <4>1 DEF Display
            <4> QED BY <4>1, <4>2
        <3>2. poller' \in [pc : {"none", "wait", "callbacks"}, cancelled : BOOLEAN, items : Seq(Items)]
            BY <2>2, <3>1 DEF Display, CliTypes
        <3>3. displayCount' \in Nat
            BY <2>2 DEF Display, CliTypes
        <3> QED BY <2>2, <3>2, <3>3 DEF Display, CliTypes, Collects, Open
    <2>3. CASE Displayed
        BY <2>3 DEF Displayed, CliTypes, Collects, Open
    <2>4. CASE ReRegister
        <3>1. cli.id \in IDs /\ Registers(cli.id)
            BY <2>4 DEF ReRegister, CliTypes
        <3>2. PICK id \in IDs : id = cli.id
            BY <3>1
        <3>3. Registers(id)
            BY <3>1, <3>2
        <3> QED BY <2>4, <3>3, RegistersCollects DEF ReRegister, CliTypes
    <2>5. CASE Arrive
        <3>1. PICK id \in IDs, displayed \in BOOLEAN :
                 /\ Open(id)
                 /\ sessions' = [sessions EXCEPT ![id] =
                        Append(@, [n |-> arrived + 1, displayed |-> displayed])]
            BY <2>5 DEF Arrive
        <3>2. [n |-> arrived + 1, displayed |-> displayed] \in Items /\ sessions[id] \in Seq(Items)
            BY <3>1 DEF CliTypes, Items, Open
        <3>3. PICK item \in Items : item = [n |-> arrived + 1, displayed |-> displayed]
            BY <3>2
        <3>4. PICK s \in Seq(Items) : s = Append(sessions[id], item)
            <4>1. PICK old \in Seq(Items) : old = sessions[id]
                BY <3>2
            <4>2. Append(old, item) \in Seq(Items)
                OBVIOUS
            <4> QED BY <4>1, <4>2
        <3>5. s # NoID
            BY IDFacts
        <3>6. /\ sessions' \in [IDs -> Seq(Items) \union {NoID}]
              /\ \A other \in IDs : sessions[other] # NoID => sessions'[other] # NoID
            BY <3>1, <3>3, <3>4, <3>5 DEF CliTypes
        <3> QED BY <2>5, <3>6 DEF Arrive, CliTypes, Collects, Open
    <2>6. ASSUME NEW id \in IDs, EvictSession(id)
          PROVE  Kept
        BY <2>6 DEF EvictSession, CliTypes, Collects, Open
    <2> QED BY <2>1, <2>2, <2>3, <2>4, <2>5, <2>6 DEF OtherNext
<1>3. CliTypes'
    BY <1>1, <1>2 DEF CliTypes
<1>4. OwnerInv'
    <2>1. cli.id \in IDs /\ Collects(cli.id) => Collects(cli.id)'
        BY <1>1, <1>2 DEF Collects, Open
    <2>2. kept \in IDs /\ Collects(kept) => Collects(kept)'
        BY <1>1, <1>2 DEF Collects, Open
    <2> QED BY <1>1, <2>1, <2>2 DEF OwnerInv, Working
<1> QED BY <1>3, <1>4

-------------------------------------------------------------------------------
LEMMA BufferType == CliTypes => \A h \in Holders : Buffer(h) \in Seq(Items)
<1> SUFFICES ASSUME CliTypes, NEW h \in Holders PROVE Buffer(h) \in Seq(Items)
    OBVIOUS
<1>1. CASE h = 0
    BY <1>1 DEF CliTypes, Buffer
<1>2. CASE h # 0
    <2>1. h \in IDs /\ sessions[h] \in Seq(Items) \union {NoID}
        BY <1>2, IDFacts DEF CliTypes
    <2> QED BY <1>2, <2>1, IDFacts DEF Buffer
<1> QED BY <1>1, <1>2

\* Buffers that are lost, while nothing is shown.
LEMMA LostApart ==
    ASSUME ApartInv, arrived' = arrived, Passed' \subseteq Passed,
           \A h \in Holders : Buffer(h)' = Buffer(h) \/ Buffer(h)' = <<>>
    PROVE  ApartInv'
<1>1. \A h \in Holders : \A i \in DOMAIN Buffer(h)' :
         i \in DOMAIN Buffer(h) /\ Buffer(h)'[i] = Buffer(h)[i]
    <2> SUFFICES ASSUME NEW h \in Holders, NEW i \in DOMAIN Buffer(h)'
                 PROVE  i \in DOMAIN Buffer(h) /\ Buffer(h)'[i] = Buffer(h)[i]
        OBVIOUS
    <2>1. CASE Buffer(h)' = <<>>
        <3>1. PICK e : e = <<>>
            OBVIOUS
        <3>2. DOMAIN e = {}
            BY <3>1
        <3> QED BY <2>1, <3>1, <3>2
    <2> QED BY <2>1
<1> QED BY <1>1 DEF ApartInv

\* An answer moves the buffer of a session to the poll goroutine.
LEMMA DrainedApart ==
    ASSUME CliTypes, ApartInv, NEW id \in IDs, arrived' = arrived, Passed' = Passed,
           Buffer(0)' = Buffer(id), Buffer(id)' = <<>>,
           \A h \in IDs \ {id} : Buffer(h)' = Buffer(h)
    PROVE  ApartInv'
<1> DEFINE from(h) == IF h = 0 THEN id ELSE h
<1>1. id \in Holders /\ id # 0 /\ Holders = IDs \union {0}
    BY IDFacts
<1>2. \A i \in DOMAIN Buffer(id)' : FALSE
    <2>1. PICK e : e = <<>>
        OBVIOUS
    <2>2. DOMAIN e = {}
        BY <2>1
    <2> QED BY <2>1, <2>2
<1>3. \A h \in Holders : \A i \in DOMAIN Buffer(h)' :
         h # id /\ from(h) \in Holders /\ i \in DOMAIN Buffer(from(h)) /\ Buffer(h)'[i] = Buffer(from(h))[i]
    <2> SUFFICES ASSUME NEW h \in Holders, NEW i \in DOMAIN Buffer(h)'
                 PROVE  h # id /\ from(h) \in Holders /\ i \in DOMAIN Buffer(from(h))
                        /\ Buffer(h)'[i] = Buffer(from(h))[i]
        OBVIOUS
    <2>1. CASE h = 0
        <3>1. i \in DOMAIN Buffer(0)' /\ Buffer(h)'[i] = Buffer(0)'[i]
            BY <2>1
        <3> QED BY <1>1, <2>1, <3>1
    <2>2. CASE h = id
        <3>1. i \in DOMAIN Buffer(id)'
            BY <2>2
        <3> QED BY <1>2, <3>1
    <2>3. CASE h # 0 /\ h # id
        BY <1>1, <2>3
    <2> QED BY <2>1, <2>2, <2>3
<1>4. \A g, h \in Holders : g # id /\ h # id /\ from(g) = from(h) => g = h
    BY <1>1
<1> HIDE DEF from
<1> QED BY <1>3, <1>4 DEF ApartInv

\* A callback takes the first one from the poll goroutine.
LEMMA ShownApart ==
    ASSUME CliTypes, ApartInv, poller.items # <<>>, arrived' = arrived,
           Passed' \subseteq Passed \union {Head(poller.items).n},
           Buffer(0)' = Tail(poller.items), \A h \in IDs : Buffer(h)' = Buffer(h)
    PROVE  ApartInv'
<1> DEFINE to(h, i) == IF h = 0 THEN i + 1 ELSE i
<1>1. Holders = IDs \union {0} /\ 0 \in Holders /\ Buffer(0) = poller.items /\ poller.items \in Seq(Items)
    BY IDFacts DEF Buffer, CliTypes
<1>2. 1 \in DOMAIN Buffer(0) /\ Head(poller.items) = Buffer(0)[1]
    BY <1>1
<1>3. \A i \in DOMAIN Tail(poller.items) :
         i \in Nat \ {0} /\ i + 1 \in DOMAIN poller.items /\ Tail(poller.items)[i] = poller.items[i + 1]
    BY <1>1
<1>4. \A h \in Holders : \A i \in DOMAIN Buffer(h)' :
         /\ i \in Nat /\ to(h, i) \in DOMAIN Buffer(h) /\ Buffer(h)'[i] = Buffer(h)[to(h, i)]
         /\ ~(h = 0 /\ to(h, i) = 1)
    <2> SUFFICES ASSUME NEW h \in Holders, NEW i \in DOMAIN Buffer(h)'
                 PROVE  /\ i \in Nat /\ to(h, i) \in DOMAIN Buffer(h)
                        /\ Buffer(h)'[i] = Buffer(h)[to(h, i)]
                        /\ ~(h = 0 /\ to(h, i) = 1)
        OBVIOUS
    <2>1. CASE h = 0
        <3>1. i \in DOMAIN Buffer(0)' /\ Buffer(h)'[i] = Buffer(0)'[i] /\ Buffer(h) = Buffer(0)
            BY <2>1
        <3> QED BY <1>1, <1>3, <2>1, <3>1
    <2>2. CASE h # 0
        <3>1. Buffer(h)' = Buffer(h) /\ Buffer(h) \in Seq(Items)
            BY <1>1, <2>2, BufferType
        <3> QED BY <2>2, <3>1
    <2> QED BY <2>1, <2>2
<1>5. \A h \in Holders : \A i, j \in Nat : to(h, i) = to(h, j) => i = j
    OBVIOUS
<1> HIDE DEF to
<1>6. ASSUME NEW g \in Holders, NEW h \in Holders, NEW i \in DOMAIN Buffer(g)',
             NEW j \in DOMAIN Buffer(h)', Buffer(g)'[i].n = Buffer(h)'[j].n
      PROVE  g = h /\ i = j
    <2>1. Buffer(g)[to(g, i)].n = Buffer(h)[to(h, j)].n
        BY <1>4, <1>6
    <2>2. g = h /\ to(g, i) = to(h, j)
        BY <1>4, <2>1 DEF ApartInv
    <2> QED BY <1>4, <1>5, <2>2
<1>7. ASSUME NEW h \in Holders, NEW i \in DOMAIN Buffer(h)'
      PROVE  Buffer(h)'[i].n \in 1 .. arrived \ Passed'
    <2>1. Buffer(h)[to(h, i)].n \in 1 .. arrived \ Passed
        BY <1>4 DEF ApartInv
    <2>2. Buffer(h)[to(h, i)].n # Buffer(0)[1].n
        BY <1>1, <1>2, <1>4 DEF ApartInv
    <2> QED BY <1>2, <1>4, <2>1, <2>2
<1> QED BY <1>6, <1>7 DEF ApartInv

\* An interaction that arrives has a number of its own.
LEMMA ArrivedApart ==
    ASSUME CliTypes, ApartInv, ShownInv, NEW id \in IDs, NEW item,
           item.n = arrived + 1, arrived' = arrived + 1, Passed' = Passed,
           Buffer(id)' = Append(Buffer(id), item),
           \A h \in Holders \ {id} : Buffer(h)' = Buffer(h)
    PROVE  ApartInv'
<1>1. /\ \A h \in Holders : Buffer(h) \in Seq(Items)
      /\ id \in Holders /\ arrived \in Nat /\ Passed \subseteq 1 .. arrived
    BY BufferType, IDFacts DEF CliTypes, ShownInv
<1>2. \A h \in Holders : \A i \in DOMAIN Buffer(h)' :
         \/ i \in DOMAIN Buffer(h) /\ Buffer(h)'[i] = Buffer(h)[i]
         \/ h = id /\ i = Len(Buffer(id)) + 1 /\ Buffer(h)'[i] = item
    <2> SUFFICES ASSUME NEW h \in Holders, NEW i \in DOMAIN Buffer(h)'
                 PROVE  \/ i \in DOMAIN Buffer(h) /\ Buffer(h)'[i] = Buffer(h)[i]
                        \/ h = id /\ i = Len(Buffer(id)) + 1 /\ Buffer(h)'[i] = item
        OBVIOUS
    <2>1. CASE h = id
        <3>0. PICK s \in Seq(Items) : s = Buffer(id)
            BY <1>1
        <3>1. PICK t : t = Append(s, item)
            OBVIOUS
        <3>2. /\ DOMAIN t = 1 .. Len(s) + 1 /\ DOMAIN s = 1 .. Len(s) /\ Len(s) \in Nat
              /\ \A k \in 1 .. Len(s) : t[k] = s[k]
              /\ t[Len(s) + 1] = item
            BY <3>1
        <3>3. Buffer(h)' = t /\ Buffer(h) = s
            BY <2>1, <3>0, <3>1
        <3>4. i \in 1 .. Len(s) \/ i = Len(s) + 1
            BY <3>2, <3>3
        <3> QED BY <2>1, <3>0, <3>2, <3>3, <3>4
    <2>2. CASE h # id
        BY <2>2
    <2> QED BY <2>1, <2>2
<1>3. \A h \in Holders : \A i \in DOMAIN Buffer(h) : Buffer(h)[i].n \in 1 .. arrived \ Passed
    BY DEF ApartInv
<1>4. \A k \in 1 .. arrived : k # arrived + 1 /\ k \in 1 .. arrived + 1
    BY <1>1
<1>5. arrived + 1 \in 1 .. arrived + 1 \ Passed
    BY <1>1
<1>6. \A g, h \in Holders : \A i \in DOMAIN Buffer(g)', j \in DOMAIN Buffer(h)' :
         Buffer(g)'[i].n = Buffer(h)'[j].n => g = h /\ i = j
    BY <1>2, <1>3, <1>4 DEF ApartInv
<1>7. \A h \in Holders : \A i \in DOMAIN Buffer(h)' :
         Buffer(h)'[i].n \in 1 .. arrived + 1 \ Passed
    BY <1>2, <1>3, <1>4, <1>5
<1> QED BY <1>6, <1>7 DEF ApartInv
\* Whatever the step, what is in a buffer is nowhere else.
LEMMA ApartKeeps == ASSUME CliInv, CliNext PROVE ApartInv'
<1>1. CliTypes /\ OwnerInv /\ ApartInv /\ ShownInv
    BY DEF CliInv
<1>2. Holders = IDs \union {0} /\ 0 \notin IDs /\ <<>> # NoID
    BY IDFacts
<1>3. CASE UNCHANGED <<poller, sessions, arrived, Passed>>
    <2>1. \A h \in Holders : Buffer(h)' = Buffer(h)
        BY <1>3 DEF Buffer
    <2> QED BY <1>1, <1>3, <2>1, LostApart
<1>4. CASE CliRegister
    <2>1. CASE UNCHANGED <<poller, sessions, evicted>>
        BY <1>3, <1>4, <2>1 DEF Passed, CliRegister
    <2>2. CASE \E id \in IDs : Registers(id)
        <3>1. \A h \in IDs : Buffer(h)' = Buffer(h)
            BY <1>1, <2>2, RegistersCollects
        <3>2. poller'.items = <<>> \/ poller' = poller
            BY <1>4 DEF CliRegister, StartsPolling, Fails, NoPoller
        <3>3. Buffer(0)' = poller'.items /\ Buffer(0) = poller.items
            BY DEF Buffer
        <3>4. \A h \in Holders : Buffer(h)' = Buffer(h) \/ Buffer(h)' = <<>>
            BY <1>2, <3>1, <3>2, <3>3
        <3> QED BY <1>1, <1>4, <3>4, LostApart DEF Passed, CliRegister
    <2>3. cli.pc = "load" /\ kept # Unreadable => kept \in IDs
        BY <1>1 DEF CliTypes, OwnerInv
    <2>4. cli.run \in IDs
        BY <1>1 DEF CliTypes
    <2> QED BY <1>4, <2>1, <2>2, <2>3, <2>4 DEF CliRegister, Fails
<1>5. CASE Stop
    <2>1. cli.id \in IDs /\ poller'.items = poller.items /\ UNCHANGED <<arrived, Passed>>
        BY <1>1, <1>5 DEF Passed, Stop, CliTypes, OwnerInv, Working
    <2>2. \A h \in IDs : sessions'[h] = sessions[h] \/ sessions'[h] = NoID
        BY <1>1, <1>5, <2>1 DEF Stop, CliTypes
    <2>3. \A h \in Holders : Buffer(h)' = Buffer(h) \/ Buffer(h)' = <<>>
        BY <1>2, <2>1, <2>2 DEF Buffer
    <2> QED BY <1>1, <2>1, <2>3, LostApart
<1>6. CASE Exit
    <2>1. poller'.items = <<>> /\ UNCHANGED <<sessions, arrived, Passed>>
        BY <1>6 DEF Passed, Exit, NoPoller
    <2>2. \A h \in Holders : Buffer(h)' = Buffer(h) \/ Buffer(h)' = <<>>
        BY <2>1 DEF Buffer
    <2> QED BY <1>1, <2>1, <2>2, LostApart
<1>7. CASE NextRun
    <2>1. UNCHANGED <<poller, sessions, arrived>> /\ Passed' \subseteq Passed
        BY <1>7 DEF Passed, NextRun
    <2>2. \A h \in Holders : Buffer(h)' = Buffer(h)
        BY <2>1 DEF Buffer
    <2> QED BY <1>1, <2>1, <2>2, LostApart
<1>8. CASE Drain
    <2>1. PICK id \in IDs : id = cli.id
        BY <1>1, <1>8 DEF Drain, ShownInv, OwnerInv, NoPoller
    <2>2. /\ sessions[id] # NoID /\ sessions' = [sessions EXCEPT ![id] = <<>>]
          /\ UNCHANGED <<arrived, Passed>>
        BY <1>8, <2>1 DEF Passed, Drain, Open
    <2>3. sessions'[id] = <<>> /\ \A h \in IDs \ {id} : sessions'[h] = sessions[h]
        BY <1>1, <2>2 DEF CliTypes
    <2>4. Buffer(id)' = <<>> /\ \A h \in IDs \ {id} : Buffer(h)' = Buffer(h)
        BY <1>2, <2>3 DEF Buffer
    <2>5. CASE poller' = poller
        <3>1. \A h \in Holders : Buffer(h)' = Buffer(h) \/ Buffer(h)' = <<>>
            BY <1>2, <2>4, <2>5 DEF Buffer
        <3> QED BY <1>1, <2>2, <3>1, LostApart
    <2>6. CASE poller' = [poller EXCEPT !.pc = "callbacks", !.items = sessions[cli.id]]
        <3>1. poller'.items = sessions[id]
            BY <1>1, <2>1, <2>6 DEF CliTypes
        <3>2. Buffer(0)' = Buffer(id)
            BY <1>2, <2>2, <3>1 DEF Buffer
        <3> QED BY <1>1, <2>2, <2>4, <3>2, DrainedApart
    <2> QED BY <1>8, <2>5, <2>6 DEF Drain
<1>9. CASE Display
    <2>1. /\ poller.items # <<>> /\ UNCHANGED <<sessions, arrived>>
          /\ Passed' \subseteq Passed \union {Head(poller.items).n}
          /\ poller'.items = Tail(poller.items)
        BY <1>1, <1>9 DEF Passed, Display, CliTypes
    <2>2. Buffer(0)' = Tail(poller.items) /\ \A h \in IDs : Buffer(h)' = Buffer(h)
        BY <1>2, <2>1 DEF Buffer
    <2> QED BY <1>1, <2>1, <2>2, ShownApart
<1>10. CASE Displayed
    <2>1. poller'.items = poller.items /\ UNCHANGED <<sessions, arrived, Passed>>
        BY <1>1, <1>10 DEF Passed, Displayed, CliTypes
    <2>2. \A h \in Holders : Buffer(h)' = Buffer(h)
        BY <2>1 DEF Buffer
    <2> QED BY <1>1, <2>1, <2>2, LostApart
<1>11. CASE ReRegister
    <2>1. PICK id \in IDs : id = cli.id
        BY <1>1, <1>11 DEF ReRegister, CliTypes
    <2>2. Registers(id) /\ UNCHANGED <<poller, arrived, Passed>>
        BY <1>11, <2>1 DEF Passed, ReRegister
    <2>3. \A h \in IDs : Buffer(h)' = Buffer(h)
        BY <1>1, <2>2, RegistersCollects
    <2>4. Buffer(0)' = Buffer(0)
        BY <2>2 DEF Buffer
    <2>5. \A h \in Holders : Buffer(h)' = Buffer(h)
        BY <1>2, <2>3, <2>4
    <2> QED BY <1>1, <2>2, <2>5, LostApart
<1>12. CASE Arrive
    <2>1. PICK id \in IDs, displayed \in BOOLEAN :
             /\ Open(id)
             /\ sessions' = [sessions EXCEPT ![id] =
                    Append(@, [n |-> arrived + 1, displayed |-> displayed])]
        BY <1>12 DEF Arrive
    <2>2. PICK item : item = [n |-> arrived + 1, displayed |-> displayed]
        OBVIOUS
    <2>3. item.n = arrived + 1 /\ arrived' = arrived + 1 /\ UNCHANGED <<poller, Passed>>
        BY <1>12, <2>2 DEF Passed, Arrive
    <2>4. /\ sessions'[id] = Append(sessions[id], item) /\ sessions[id] # NoID
          /\ \A h \in IDs \ {id} : sessions'[h] = sessions[h]
        BY <1>1, <2>1, <2>2 DEF CliTypes, Open
    <2>5. Append(sessions[id], item) # NoID
        <3>1. PICK old \in Seq(Items) : old = sessions[id]
            BY <1>1, <2>4 DEF CliTypes
        <3>2. item \in Items
            BY <1>1, <2>2 DEF CliTypes, Items
        <3>3. Append(old, item) \in Seq(Items)
            BY <3>2
        <3> QED BY <3>1, <3>3, IDFacts
    <2>6. Buffer(id)' = Append(Buffer(id), item) /\ \A h \in Holders \ {id} : Buffer(h)' = Buffer(h)
        BY <1>2, <2>3, <2>4, <2>5 DEF Buffer
    <2> QED BY <1>1, <2>3, <2>6, ArrivedApart
<1>13. ASSUME NEW id \in IDs, EvictSession(id)
       PROVE  ApartInv'
    <2>1. UNCHANGED <<poller, arrived, Passed>>
          /\ \A h \in IDs : sessions'[h] = sessions[h] \/ sessions'[h] = NoID
        BY <1>1, <1>13 DEF Passed, EvictSession, CliTypes
    <2>2. \A h \in Holders : Buffer(h)' = Buffer(h) \/ Buffer(h)' = <<>>
        BY <1>2, <2>1 DEF Buffer
    <2> QED BY <1>1, <2>1, <2>2, LostApart
<1>14. CASE Kill
    <2>1. poller'.items = <<>> /\ UNCHANGED <<sessions, arrived, Passed>>
        BY <1>14 DEF Passed, Kill, NoPoller
    <2>2. \A h \in Holders : Buffer(h)' = Buffer(h) \/ Buffer(h)' = <<>>
        BY <2>1 DEF Buffer
    <2> QED BY <1>1, <2>1, <2>2, LostApart
<1>15. CASE Begin \/ Select \/ Save \/ Judge
    BY <1>3, <1>15 DEF Passed, Begin, Select, Save, Judge
<1> QED BY <1>4, <1>5, <1>6, <1>7, <1>8, <1>9, <1>10, <1>11, <1>12, <1>13, <1>15,
       <1>14 DEF CliNext

LEMMA ShownFinite == CliTypes /\ ShownInv => IsFiniteSet(Passed)
<1> SUFFICES ASSUME CliTypes, ShownInv PROVE IsFiniteSet(Passed)
    OBVIOUS
<1>1. 1 \in Int /\ arrived \in Int
    BY DEF CliTypes
<1>2. IsFiniteSet(1 .. arrived)
    BY <1>1, FS_Interval
<1> QED BY <1>2, FS_Subset DEF ShownInv

\* displayCount is the number of those that passed the filters, in every step.
LEMMA ShownKeeps == ASSUME CliInv, CliNext PROVE ShownInv' /\ ReasonInv'
<1>1. CliTypes /\ OwnerInv /\ ApartInv /\ ShownInv /\ ReasonInv
    BY DEF CliInv
<1>2. arrived \in Nat /\ arrived' \in Nat /\ arrived <= arrived' /\ displayCount \in Nat
    <2>1. arrived' = arrived \/ arrived' = arrived + 1
        BY DEF CliNext, Begin, CliRegister, Select, Stop, Save, Judge, Exit, Kill, NextRun, Drain,
               Display, Displayed, ReRegister, Arrive, EvictSession
    <2> QED BY <1>1, <2>1 DEF CliTypes
<1>3. CASE Display
    <2>1. /\ poller.items # <<>> /\ poller.pc = "callbacks" /\ cli' = cli /\ arrived' = arrived
          /\ Passed' = IF Head(poller.items).displayed THEN Passed \union {Head(poller.items).n}
                       ELSE Passed
          /\ displayCount' = IF Head(poller.items).displayed /\ cli.count > 0 THEN displayCount + 1
                             ELSE displayCount
        BY <1>3 DEF Passed, Display, CountsItem
    <2>2. cli.pc \in Working
        BY <1>1, <2>1 DEF ShownInv, NoPoller
    <2>3. Head(poller.items).n \in 1 .. arrived \ Passed
        <3>1. PICK s \in Seq(Items) : s = poller.items
            BY <1>1 DEF CliTypes
        <3>2. 1 \in DOMAIN s /\ Head(s) = s[1] /\ Buffer(0) = s /\ 0 \in Holders
            BY <2>1, <3>1, IDFacts DEF Buffer
        <3> QED BY <1>1, <3>1, <3>2 DEF ApartInv
    <2>4. /\ Passed' \subseteq 1 .. arrived
          /\ cli.count > 0 => displayCount' = Cardinality(Passed')
        <3>1. IsFiniteSet(Passed)
            BY <1>1, ShownFinite
        <3>2. Cardinality(Passed \union {Head(poller.items).n}) = Cardinality(Passed) + 1
            BY <2>3, <3>1, FS_AddElement
        <3> QED BY <1>1, <2>1, <2>3, <3>2 DEF ShownInv
    <2>5. displayCount' >= displayCount
        BY <1>2, <2>1
    <2>6. ShownInv'
        BY <2>1, <2>2, <2>4 DEF ShownInv, Working
    <2>7. ReasonInv'
        <3>1. \A c \in Nat : displayCount >= c => displayCount' >= c
            BY <1>2, <2>1, <2>5
        <3> QED BY <1>1, <2>1, <3>1 DEF ReasonInv, CliTypes
    <2> QED BY <2>6, <2>7
<1>4. CASE Begin
    <2>1. Cardinality({}) = 0
        BY FS_EmptySet
    <2> QED BY <1>1, <1>4, <2>1 DEF Passed, Begin, CliTypes, ShownInv, ReasonInv, Working
<1>5. CASE CliRegister
    <2>1. /\ cli'.count = cli.count /\ cli'.reason = cli.reason
          /\ UNCHANGED <<displayCount, arrived, Passed>>
          /\ (cli'.pc = "ended" /\ cli'.code = 1 /\ poller' = poller) \/ cli'.pc = "polls"
          /\ cli.pc \in {"load", "new"}
        BY <1>1, <1>5 DEF Passed, CliRegister, StartsPolling, Fails, CliTypes
    <2> QED BY <1>1, <2>1 DEF ShownInv, ReasonInv, Working
<1>6. CASE Select
    BY <1>1, <1>6 DEF Passed, Select, CliTypes, ShownInv, ReasonInv, Working
<1>7. CASE Stop
    BY <1>1, <1>7 DEF Passed, Stop, CliTypes, ShownInv, ReasonInv, Working
<1>8. CASE Save
    BY <1>1, <1>8 DEF Passed, Save, CliTypes, ShownInv, ReasonInv, Working
<1>9. CASE Judge
    <2>1. /\ cli' = [cli EXCEPT !.pc = "exits",
                 !.code = IF cli.reason = "timeout" /\ cli.count > 0 /\ displayCount < cli.count
                          THEN 1 ELSE 0]
          /\ cli.pc = "judges" /\ UNCHANGED <<poller, displayCount, arrived, Passed>>
        BY <1>9 DEF Passed, Judge
    <2>2. /\ cli'.pc = "exits" /\ cli'.reason = cli.reason /\ cli'.count = cli.count
          /\ cli.reason = "timeout" /\ cli'.code = 0 => ~(cli.count > 0 /\ displayCount < cli.count)
        BY <1>1, <2>1 DEF CliTypes
    <2>3. cli.count \in Nat
        BY <1>1 DEF CliTypes
    <2>4. cli.reason = "timeout" /\ cli'.code = 0 => displayCount >= cli.count
        BY <1>2, <2>2, <2>3
    <2> QED BY <1>1, <2>1, <2>2, <2>4 DEF ShownInv, ReasonInv, Working
<1>10. CASE Exit
    BY <1>1, <1>10 DEF Passed, Exit, CliTypes, ShownInv, ReasonInv, Working
<1>11. CASE NextRun
    <2>1. Cardinality({}) = 0
        BY FS_EmptySet
    <2> QED BY <1>1, <1>11, <2>1 DEF Passed, NextRun, ShownInv, ReasonInv, Working
<1>12. CASE Drain \/ Displayed
    <2>1. poller.pc # "none" /\ UNCHANGED <<cli, displayCount, arrived, Passed>>
        BY <1>12 DEF Passed, Drain, Displayed
    <2> QED BY <1>1, <2>1 DEF ShownInv, ReasonInv, NoPoller, Working
<1>13. CASE ReRegister \/ \E id \in IDs : EvictSession(id)
    <2>1. UNCHANGED <<cli, poller, displayCount, arrived, Passed>>
        BY <1>13 DEF Passed, ReRegister, EvictSession
    <2> QED BY <1>1, <2>1 DEF ShownInv, ReasonInv, Working
<1>14. CASE Kill
    <2>1. /\ cli' = [cli EXCEPT !.pc = "ended", !.code = 1] /\ poller' = NoPoller
          /\ UNCHANGED <<displayCount, arrived, Passed>>
        BY <1>14 DEF Passed, Kill
    <2>2. /\ cli'.pc = "ended" /\ cli'.code = 1
          /\ cli'.count = cli.count /\ cli'.reason = cli.reason
        BY <1>1, <2>1 DEF CliTypes
    <2> QED BY <1>1, <2>1, <2>2 DEF ShownInv, ReasonInv, Working
<1>15. CASE Arrive
    <2>1. UNCHANGED <<cli, poller, displayCount, Passed>>
        BY <1>15 DEF Passed, Arrive
    <2>2. Passed \subseteq 1 .. arrived'
        BY <1>1, <1>2 DEF ShownInv
    <2> QED BY <1>1, <2>1, <2>2 DEF ShownInv, ReasonInv, Working
<1> QED BY <1>3, <1>4, <1>5, <1>6, <1>7, <1>8, <1>9, <1>10, <1>11, <1>12, <1>13, <1>15,
       <1>14 DEF CliNext

LEMMA CliInitially == CliInit => CliInv
<1> SUFFICES ASSUME CliInit PROVE CliInv
    OBVIOUS
<1>1. CliTypes
    BY IDFacts DEF CliInit, CliTypes, NoPoller
<1>2. OwnerInv
    BY IDFacts DEF CliInit, OwnerInv, Working
<1>3. \A h \in Holders : \A i \in DOMAIN Buffer(h) : FALSE
    <2>1. PICK e : e = <<>>
        OBVIOUS
    <2>2. \A h \in Holders : Buffer(h) = e
        BY <2>1, IDFacts DEF CliInit, Buffer, NoPoller
    <2>3. DOMAIN e = {}
        BY <2>1
    <2> QED BY <2>2, <2>3
<1>4. ApartInv
    BY <1>3 DEF ApartInv
<1>5. ShownInv /\ ReasonInv
    BY DEF CliInit, Passed, ShownInv, ReasonInv
<1> QED BY <1>1, <1>2, <1>4, <1>5 DEF CliInv

\* Each run leaves the file, the sessions and the count as the next and its caller
\* rely on (main.go:255-389).
THEOREM CliInvariant == CliSpec => []CliInv
<1>1. CliInv /\ UNCHANGED cliVars => CliInv'
    BY DEF CliInv, cliVars, CliTypes, OwnerInv, ApartInv, Passed, ShownInv, ReasonInv, Collects,
           Open, Buffer
<1>2. CliInv /\ CliNext => CliInv'
    <2> SUFFICES ASSUME CliInv, CliNext PROVE CliInv'
        OBVIOUS
    <2>1. MainNext \/ OtherNext
        BY DEF CliNext, MainNext, OtherNext
    <2>2. CliTypes /\ OwnerInv /\ ShownInv
        BY DEF CliInv
    <2>3. CliTypes' /\ OwnerInv'
        BY <2>1, <2>2, MainTypes, MainOwner, OtherKeeps
    <2> QED BY <2>3, ApartKeeps, ShownKeeps DEF CliInv
<1> QED BY <1>1, <1>2, CliInitially, PTL DEF CliSpec

\* For any number of runs, with or without the file, however they end: the ID in
\* the session file has its session at the server, unless the server evicted it
\* (main.go:344-351).
THEOREM FileCollects == CliSpec => []FileKeepsCollecting
<1>1. CliInv => FileKeepsCollecting
    BY DEF CliInv, OwnerInv, Collects, FileKeepsCollecting
<1> QED BY <1>1, CliInvariant, PTL

\* For any count and any interleaving of the callbacks with the timer: a run that
\* says it succeeded had as many pass its filters as it was asked for, displayed or
\* warned about (main.go:310-384).
THEOREM SuccessCounts == CliSpec => []SuccessMeansCount
<1>1. CliInv => SuccessMeansCount
    <2> SUFFICES ASSUME CliInv, cli.pc = "ended", cli.code = 0, cli.reason \in {"timeout", "count"}
                 PROVE  Cardinality(Passed) >= cli.count
        BY DEF SuccessMeansCount, Passed
    <2>1. displayCount >= cli.count /\ cli.count \in Nat
        BY DEF CliInv, ReasonInv, CliTypes
    <2>2. CASE cli.count > 0
        BY <2>1, <2>2 DEF CliInv, ShownInv
    <2>3. CASE cli.count = 0
        <3>1. IsFiniteSet(Passed)
            BY ShownFinite DEF CliInv
        <3>2. Cardinality(Passed) \in Nat
            BY <3>1, FS_CardinalityType
        <3> QED BY <2>3, <3>2
    <2> QED BY <2>1, <2>2, <2>3
<1> QED BY <1>1, CliInvariant, PTL
-------------------------------------------------------------------------------
\* Shared buckets.  The buffer holds consecutive interactions, the last one being
\* the last one captured.  So an offset stands for a position in the sequence of
\* everything captured, First + offset, and a trim, which moves both, leaves that
\* position where it was or takes it forward to the first one that is still there.

\* The interactions captured that are no longer in the buffer: 1 .. First.
First == appended - Len(interactions)

BucketTypeOK ==
    /\ clock \in Nat /\ lastCleanup \in Nat
    /\ interactions \in Seq(Nat)
    /\ offsets \in [Consumers -> Nat]
    /\ lastSeen \in [Consumers -> Int]
    /\ appended \in Nat
    /\ received \in [Consumers -> Seq(Nat)]
    /\ forgotten \in [Consumers -> BOOLEAN]

Consecutive ==
    /\ First \in Nat
    /\ \A i \in DOMAIN interactions : interactions[i] = First + i

\* What c was given ends at its position, and what is buffered before it was given.
ReadUpTo(c) ==
    /\ Increasing(received[c])
    /\ \A j \in DOMAIN received[c] : received[c][j] <= First + offsets[c]
    /\ \A i \in 1 .. offsets[c] : WasGiven(c, First + i)

BucketInv ==
    /\ BucketTypeOK
    /\ Consecutive
    /\ \A c \in Consumers : offsets[c] <= Len(interactions)
    /\ \A c \in Consumers : ~forgotten[c] => ReadUpTo(c)

-------------------------------------------------------------------------------
(* Sequences. *)

LEMMA SuffixProperties ==
    ASSUME NEW S, NEW s \in Seq(S), NEW n \in Nat, n <= Len(s)
    PROVE  LET rest == SubSeq(s, n + 1, Len(s))
           IN /\ rest \in Seq(S) /\ Len(rest) = Len(s) - n
              /\ \A i \in 1 .. Len(s) - n : rest[i] = s[n + i]
<1> DEFINE rest == SubSeq(s, n + 1, Len(s))
<1>1. PICK m \in Int : m = n + 1
    OBVIOUS
<1>2. Len(s) \in Int /\ \A i \in m .. Len(s) : s[i] \in S
    BY <1>1
<1>3. /\ rest \in Seq(S)
      /\ Len(rest) = IF m <= Len(s) THEN Len(s) - m + 1 ELSE 0
      /\ \A i \in 1 .. Len(s) - m + 1 : rest[i] = s[m + i - 1]
    BY <1>1, <1>2, SubSeqProperties
<1> HIDE DEF rest
<1>4. ASSUME NEW i \in 1 .. Len(s) - n
      PROVE  rest[i] = s[n + i]
    <2>1. i \in 1 .. Len(s) - m + 1 /\ m + i - 1 = n + i
        BY <1>1
    <2> QED BY <1>3, <2>1
<1>5. Len(rest) = Len(s) - n
    BY <1>1, <1>3
<1> QED BY <1>3, <1>4, <1>5 DEF rest

LEMMA JoinProperties ==
    ASSUME NEW S, NEW s \in Seq(S), NEW u \in Seq(S)
    PROVE  LET all == s \o u
           IN /\ all \in Seq(S) /\ Len(all) = Len(s) + Len(u)
              /\ \A j \in 1 .. Len(s) : all[j] = s[j]
              /\ \A i \in 1 .. Len(u) : all[Len(s) + i] = u[i]
              /\ \A j \in 1 .. Len(all) : j \in 1 .. Len(s) \/ \E i \in 1 .. Len(u) : j = Len(s) + i
<1> DEFINE all == s \o u
<1>1. /\ all \in Seq(S) /\ Len(all) = Len(s) + Len(u)
      /\ \A i \in 1 .. Len(s) + Len(u) : all[i] = IF i <= Len(s) THEN s[i] ELSE u[i - Len(s)]
    BY ConcatProperties
<1> HIDE DEF all
<1>2. ASSUME NEW i \in 1 .. Len(u)
      PROVE  all[Len(s) + i] = u[i]
    <2>1. /\ Len(s) + i \in 1 .. Len(s) + Len(u) /\ ~(Len(s) + i <= Len(s))
          /\ (Len(s) + i) - Len(s) = i
        OBVIOUS
    <2> QED BY <1>1, <2>1
<1>3. ASSUME NEW j \in 1 .. Len(all), j \notin 1 .. Len(s)
      PROVE  \E i \in 1 .. Len(u) : j = Len(s) + i
    <2>1. j - Len(s) \in 1 .. Len(u) /\ j = Len(s) + (j - Len(s))
        BY <1>1, <1>3
    <2> QED BY <2>1
<1> QED BY <1>1, <1>2, <1>3 DEF all

\* A reader that was given an increasing sequence up to some position is given
\* the run that starts after it.
LEMMA ReadOnwards ==
    ASSUME NEW old \in Seq(Nat), NEW unread \in Seq(Nat), NEW at \in Nat,
           Increasing(old), \A j \in DOMAIN old : old[j] <= at,
           \A i \in DOMAIN unread : unread[i] = at + i
    PROVE  LET all == old \o unread
           IN /\ Increasing(all)
              /\ \A j \in DOMAIN all : all[j] <= at + Len(unread)
              /\ \A j \in DOMAIN old : \E k \in DOMAIN all : all[k] = old[j]
              /\ \A i \in 1 .. Len(unread) : \E k \in DOMAIN all : all[k] = at + i
<1> DEFINE all == old \o unread
<1>1. /\ all \in Seq(Nat) /\ Len(all) = Len(old) + Len(unread)
      /\ \A j \in 1 .. Len(old) : all[j] = old[j]
      /\ \A i \in 1 .. Len(unread) : all[Len(old) + i] = unread[i]
      /\ \A j \in 1 .. Len(all) :
            j \in 1 .. Len(old) \/ \E i \in 1 .. Len(unread) : j = Len(old) + i
    BY JoinProperties
<1> HIDE DEF all
<1>2. ASSUME NEW i \in 1 .. Len(unread)
      PROVE  all[Len(old) + i] = at + i /\ Len(old) + i \in DOMAIN all
    <2>1. i \in DOMAIN unread /\ Len(old) + i \in 1 .. Len(all)
        BY <1>1
    <2> QED BY <1>1, <2>1
<1>3. \A j \in 1 .. Len(old) : all[j] = old[j] /\ all[j] <= at /\ j \in DOMAIN all
    BY <1>1
<1>4. Increasing(all)
    <2> SUFFICES ASSUME NEW j \in 1 .. Len(all), NEW k \in 1 .. Len(all), j < k
                 PROVE  all[j] < all[k]
        BY <1>1 DEF Increasing
    <2>1. CASE k \in 1 .. Len(old)
        <3>1. j \in 1 .. Len(old)
            BY <2>1
        <3> QED BY <1>3, <2>1, <3>1 DEF Increasing
    <2>2. CASE \E i \in 1 .. Len(unread) : k = Len(old) + i
        <3>1. PICK i \in 1 .. Len(unread) : k = Len(old) + i
            BY <2>2
        <3>2. CASE j \in 1 .. Len(old)
            <4>1. all[j] <= at /\ all[k] = at + i
                BY <1>2, <1>3, <3>1, <3>2
            <4>2. all[j] \in Nat
                BY <1>1
            <4> QED BY <4>1, <4>2
        <3>3. CASE \E h \in 1 .. Len(unread) : j = Len(old) + h
            BY <1>2, <3>1, <3>3
        <3> QED BY <1>1, <3>2, <3>3
    <2> QED BY <1>1, <2>1, <2>2
<1>5. ASSUME NEW j \in 1 .. Len(all)
      PROVE  all[j] <= at + Len(unread)
    <2>1. CASE j \in 1 .. Len(old)
        <3>1. all[j] <= at /\ all[j] \in Nat /\ Len(unread) \in Nat
            BY <1>1, <1>3, <2>1
        <3> QED BY <3>1
    <2>2. CASE \E i \in 1 .. Len(unread) : j = Len(old) + i
        BY <1>2, <2>2
    <2> QED BY <1>1, <2>1, <2>2
<1>6. DOMAIN all = 1 .. Len(all) /\ DOMAIN old = 1 .. Len(old)
    BY <1>1
<1> QED BY <1>2, <1>3, <1>4, <1>5, <1>6 DEF all

-------------------------------------------------------------------------------
(* The initial state and the steps. *)

LEMMA BucketInitially == BucketInit => BucketInv
<1> SUFFICES ASSUME BucketInit PROVE BucketInv
    OBVIOUS
<1>1. BucketTypeOK
    BY DEF BucketInit, BucketTypeOK
<1>2. appended = 0 /\ Len(interactions) = 0 /\ DOMAIN interactions = {}
    BY DEF BucketInit
<1>3. Consecutive
    <2>1. First = 0
        BY <1>2 DEF First
    <2> QED BY <1>2, <2>1 DEF Consecutive
<1>4. \A c \in Consumers : ReadUpTo(c)
    BY DEF BucketInit, ReadUpTo, Increasing
<1>5. \A c \in Consumers : offsets[c] <= Len(interactions)
    BY <1>2 DEF BucketInit
<1> QED BY <1>1, <1>3, <1>4, <1>5 DEF BucketInv

\* The buffer and the offsets after an append that does not trim.
LEMMA GrowthKeepsBucketInv ==
    ASSUME BucketInv, AppendInteraction, ~Full(Append(interactions, appended + 1))
    PROVE  BucketInv'
<1>1. /\ appended' = appended + 1 /\ interactions' = Append(interactions, appended + 1)
      /\ UNCHANGED <<offsets, clock, lastSeen, lastCleanup, received, forgotten>>
    BY DEF AppendInteraction
<1>2. BucketTypeOK
    BY DEF BucketInv
<1>3. /\ interactions' \in Seq(Nat) /\ Len(interactions') = Len(interactions) + 1
      /\ \A i \in DOMAIN interactions : interactions'[i] = interactions[i]
      /\ interactions'[Len(interactions) + 1] = appended + 1
    BY <1>1, <1>2 DEF BucketTypeOK
<1>4. BucketTypeOK'
    BY <1>1, <1>2, <1>3 DEF BucketTypeOK
<1>5. First' = First
    BY <1>1, <1>2, <1>3 DEF BucketTypeOK, First
<1>6. Consecutive'
    <2> SUFFICES ASSUME NEW i \in 1 .. Len(interactions) + 1
                 PROVE  interactions'[i] = First + i
        BY <1>3, <1>5 DEF BucketInv, Consecutive
    <2>1. CASE i \in DOMAIN interactions
        BY <1>3, <2>1 DEF BucketInv, Consecutive
    <2>2. CASE i = Len(interactions) + 1
        BY <1>2, <1>3, <2>2 DEF BucketTypeOK, First
    <2> QED BY <1>2, <2>1, <2>2 DEF BucketTypeOK
<1>7. \A c \in Consumers : ~forgotten'[c] => ReadUpTo(c)'
    BY <1>1, <1>5 DEF BucketInv, ReadUpTo, WasGiven
<1>8. \A c \in Consumers : offsets'[c] <= Len(interactions')
    BY <1>1, <1>2, <1>3 DEF BucketInv, BucketTypeOK
<1> QED BY <1>4, <1>6, <1>7, <1>8 DEF BucketInv

\* The older half goes: First and every offset move by maxBuffer.
LEMMA TrimKeepsBucketInv ==
    ASSUME BucketInv, AppendInteraction, Full(Append(interactions, appended + 1))
    PROVE  BucketInv'
<1>0. PICK grown : grown = Append(interactions, appended + 1)
    OBVIOUS
<1>1. /\ appended' = appended + 1 /\ interactions' = Trimmed(grown)
      /\ offsets' = [c \in Consumers |-> Shifted(offsets[c])]
      /\ UNCHANGED <<clock, lastSeen, lastCleanup, received, forgotten>>
      /\ MaxBuffer > 0 /\ Len(grown) >= 2 * MaxBuffer
    BY <1>0 DEF AppendInteraction, Full
<1>2. BucketTypeOK /\ MaxBuffer \in Nat
    BY <1>1, BucketAssumption DEF BucketInv
<1>3. /\ grown \in Seq(Nat) /\ Len(grown) = Len(interactions) + 1
      /\ \A i \in DOMAIN interactions : grown[i] = interactions[i]
      /\ grown[Len(interactions) + 1] = appended + 1
    BY <1>0, <1>2 DEF BucketTypeOK
<1>4. \A i \in 1 .. Len(grown) : grown[i] = First + i
    <2> SUFFICES ASSUME NEW i \in 1 .. Len(interactions) + 1 PROVE grown[i] = First + i
        BY <1>3
    <2>1. CASE i \in DOMAIN interactions
        BY <1>3, <2>1 DEF BucketInv, Consecutive
    <2>2. CASE i = Len(interactions) + 1
        BY <1>2, <1>3, <2>2 DEF BucketTypeOK, First
    <2> QED BY <1>2, <2>1, <2>2 DEF BucketTypeOK
<1>5. /\ interactions' \in Seq(Nat) /\ Len(interactions') = Len(grown) - MaxBuffer
      /\ \A i \in 1 .. Len(grown) - MaxBuffer : interactions'[i] = grown[MaxBuffer + i]
    <2>1. MaxBuffer <= Len(grown)
        BY <1>1, <1>2
    <2> QED BY <1>1, <1>2, <1>3, <2>1, SuffixProperties DEF Trimmed
<1>6. First' = First + MaxBuffer /\ First \in Nat
    BY <1>1, <1>2, <1>3, <1>5 DEF BucketTypeOK, First, BucketInv, Consecutive
<1>7. ASSUME NEW c \in Consumers
      PROVE  offsets'[c] \in Nat /\ offsets'[c] <= Len(interactions')
    <2>1. offsets[c] \in Nat /\ offsets[c] + 1 <= Len(grown) /\ Len(grown) \in Nat
        BY <1>2, <1>3 DEF BucketInv, BucketTypeOK
    <2>2. offsets'[c] = Shifted(offsets[c]) /\ Len(interactions') = Len(grown) - MaxBuffer
        BY <1>1, <1>5
    <2> QED BY <1>1, <1>2, <2>1, <2>2 DEF Shifted
<1>8. BucketTypeOK'
    BY <1>1, <1>2, <1>5, <1>7 DEF BucketTypeOK
<1>9. Consecutive'
    <2>1. ASSUME NEW i \in 1 .. Len(grown) - MaxBuffer
          PROVE  interactions'[i] = First' + i
        <3>1. MaxBuffer + i \in 1 .. Len(grown) /\ Len(grown) \in Nat
            BY <1>2, <1>3
        <3> QED BY <1>2, <1>4, <1>5, <1>6, <3>1
    <2>2. DOMAIN interactions' = 1 .. Len(grown) - MaxBuffer
        BY <1>5
    <2>3. First' \in Nat
        BY <1>2, <1>6
    <2> QED BY <2>1, <2>2, <2>3 DEF Consecutive
<1>10. ASSUME NEW c \in Consumers, ~forgotten'[c]
       PROVE  ReadUpTo(c)'
    <2>1. ReadUpTo(c) /\ received' = received /\ offsets[c] \in Nat
        BY <1>1, <1>2, <1>10 DEF BucketInv, BucketTypeOK
    <2>2. received[c] \in Seq(Nat)
        BY <1>2 DEF BucketTypeOK
    <2>3. CASE offsets[c] > MaxBuffer
        <3>1. offsets'[c] = offsets[c] - MaxBuffer
            BY <1>1, <2>3 DEF Shifted
        <3>2. First' + offsets'[c] = First + offsets[c]
            BY <1>2, <1>6, <2>1, <3>1
        <3>3. \A i \in 1 .. offsets'[c] : WasGiven(c, First' + i)
            <4> SUFFICES ASSUME NEW i \in 1 .. offsets'[c] PROVE WasGiven(c, First' + i)
                OBVIOUS
            <4>1. MaxBuffer + i \in 1 .. offsets[c] /\ First' + i = First + (MaxBuffer + i)
                BY <1>2, <1>6, <2>1, <3>1
            <4> QED BY <2>1, <4>1 DEF ReadUpTo
        <3> QED BY <2>1, <3>2, <3>3 DEF ReadUpTo, WasGiven
    <2>4. CASE ~(offsets[c] > MaxBuffer)
        <3>1. offsets'[c] = 0 /\ First + offsets[c] <= First' + 0
            BY <1>1, <1>2, <1>6, <2>1, <2>4 DEF Shifted
        <3>2. \A j \in DOMAIN received[c] : received[c][j] <= First' + 0
            BY <1>2, <1>6, <2>1, <2>2, <3>1 DEF ReadUpTo
        <3> QED BY <2>1, <3>1, <3>2 DEF ReadUpTo
    <2> QED BY <2>3, <2>4
<1> QED BY <1>7, <1>8, <1>9, <1>10 DEF BucketInv

\* A read takes the consumer to the end of the buffer.
LEMMA ReadKeepsBucketInv ==
    ASSUME BucketInv, NEW c \in Consumers, ReadFrom(c)
    PROVE  BucketInv'
<1>0. PICK unread, n, old : unread = Unread(c) /\ n = offsets[c] /\ old = received[c]
    OBVIOUS
<1>1. /\ received' = [received EXCEPT ![c] = old \o unread]
      /\ offsets' = [d \in Consumers |-> IF d \in Removed(c) THEN 0
                                         ELSE IF d = c THEN Len(interactions)
                                         ELSE offsets[d]]
      /\ lastSeen' = [d \in Consumers |-> IF d \in Removed(c) THEN -1 ELSE SeenBy(c)[d]]
      /\ lastCleanup' = IF CleanupDue THEN clock ELSE lastCleanup
      /\ forgotten' = [d \in Consumers |-> forgotten[d] \/ d \in Removed(c)]
      /\ UNCHANGED <<clock, interactions, appended>>
    BY <1>0 DEF ReadFrom
<1>2. /\ BucketTypeOK /\ Consecutive /\ First' = First /\ Len(interactions) \in Nat
      /\ n \in Nat /\ n <= Len(interactions) /\ old \in Seq(Nat) /\ Len(old) \in Nat
    BY <1>0, <1>1 DEF BucketInv, BucketTypeOK, First
<1>3. /\ unread \in Seq(Nat) /\ Len(unread) = Len(interactions) - n
      /\ \A i \in DOMAIN unread : unread[i] = (First + n) + i
    <2>1. /\ unread \in Seq(Nat) /\ Len(unread) = Len(interactions) - n
          /\ \A i \in 1 .. Len(interactions) - n : unread[i] = interactions[n + i]
        BY <1>0, <1>2, SuffixProperties DEF BucketTypeOK, Unread
    <2>2. ASSUME NEW i \in DOMAIN unread
          PROVE  unread[i] = (First + n) + i
        <3>1. i \in 1 .. Len(interactions) - n
            BY <2>1, <2>2
        <3>2. n + i \in 1 .. Len(interactions) /\ DOMAIN interactions = 1 .. Len(interactions)
            BY <1>2, <3>1 DEF BucketTypeOK
        <3>3. unread[i] = First + (n + i) /\ First \in Nat
            BY <1>2, <2>1, <3>1, <3>2 DEF Consecutive
        <3> QED BY <1>2, <3>1, <3>3
    <2> QED BY <2>1, <2>2
<1>4. received'[c] = old \o unread /\ old \o unread \in Seq(Nat)
    BY <1>1, <1>2, <1>3, JoinProperties DEF BucketTypeOK
<1>5. BucketTypeOK'
    <2>1. received' \in [Consumers -> Seq(Nat)]
        BY <1>0, <1>1, <1>2, <1>4 DEF BucketTypeOK
    <2>2. lastSeen' \in [Consumers -> Int] /\ lastCleanup' \in Nat
        BY <1>1, <1>2 DEF BucketTypeOK, SeenBy
    <2>3. offsets' \in [Consumers -> Nat]
        BY <1>1, <1>2 DEF BucketTypeOK
    <2>4. forgotten' \in [Consumers -> BOOLEAN]
        BY <1>1, <1>2 DEF BucketTypeOK
    <2> QED BY <1>1, <1>2, <2>1, <2>2, <2>3, <2>4 DEF BucketTypeOK
<1>6. \A d \in Consumers : offsets'[d] <= Len(interactions')
    BY <1>1, <1>2 DEF BucketInv
<1>7. Consecutive'
    BY <1>1, <1>2 DEF Consecutive
<1>8. ASSUME NEW d \in Consumers, d # c, ~forgotten'[d]
      PROVE  ReadUpTo(d)'
    <2>1. ~forgotten[d] /\ received'[d] = received[d] /\ offsets'[d] = offsets[d]
        BY <1>1, <1>2, <1>8 DEF BucketTypeOK
    <2> QED BY <1>2, <2>1 DEF BucketInv, ReadUpTo, WasGiven
<1>9. ASSUME ~forgotten'[c]
      PROVE  ReadUpTo(c)'
    <2>1. ReadUpTo(c) /\ offsets'[c] = Len(interactions)
        BY <1>1, <1>9 DEF BucketInv
    <2>2. First + n \in Nat /\ First \in Nat
        BY <1>2 DEF Consecutive
    <2>3. PICK at \in Nat : at = First + n
        BY <2>2
    <2>4. PICK all : all = old \o unread
        OBVIOUS
    <2>8. /\ Increasing(old) /\ \A j \in DOMAIN old : old[j] <= at
          /\ \A i \in DOMAIN unread : unread[i] = at + i
        BY <1>0, <1>3, <2>1, <2>3 DEF ReadUpTo
    <2>5. /\ Increasing(all)
          /\ \A j \in DOMAIN all : all[j] <= at + Len(unread)
          /\ \A j \in DOMAIN old : \E k \in DOMAIN all : all[k] = old[j]
          /\ \A i \in 1 .. Len(unread) : \E k \in DOMAIN all : all[k] = at + i
        BY <1>2, <1>3, <2>4, <2>8, ReadOnwards
    <2>6. at + Len(unread) = First + Len(interactions)
        BY <1>2, <1>3, <2>2, <2>3
    <2>7. ASSUME NEW i \in 1 .. Len(interactions)
          PROVE  \E k \in DOMAIN all : all[k] = First + i
        <3>1. CASE i <= n
            <4>1. i \in 1 .. n
                BY <1>2, <3>1
            <4>2. PICK j \in DOMAIN old : old[j] = First + i
                BY <1>0, <2>1, <4>1 DEF ReadUpTo, WasGiven
            <4> QED BY <2>5, <4>2
        <3>2. CASE i > n
            <4>1. i - n \in 1 .. Len(unread) /\ First + i = at + (i - n)
                BY <1>2, <1>3, <2>2, <2>3, <3>2
            <4> QED BY <2>5, <4>1
        <3> QED BY <1>2, <3>1, <3>2
    <2> QED BY <1>2, <1>4, <2>1, <2>4, <2>5, <2>6, <2>7 DEF ReadUpTo, WasGiven
<1> QED BY <1>5, <1>6, <1>7, <1>8, <1>9 DEF BucketInv

-------------------------------------------------------------------------------
(* The theorems. *)

LEMMA BucketNextKeeps == BucketInv /\ [BucketNext]_bucketVars => BucketInv'
<1> SUFFICES ASSUME BucketInv, [BucketNext]_bucketVars PROVE BucketInv'
    OBVIOUS
<1>1. CASE Tick \/ UNCHANGED bucketVars
    BY <1>1 DEF Tick, bucketVars, BucketInv, BucketTypeOK, Consecutive, First, ReadUpTo, WasGiven
<1> QED BY <1>1, GrowthKeepsBucketInv, TrimKeepsBucketInv, ReadKeepsBucketInv DEF BucketNext

\* The buffer is a run of consecutive interactions, and every offset lies in it
\* (storage.go:495-560).
THEOREM BucketInvariant == BucketSpec => []BucketInv
BY BucketInitially, BucketNextKeeps, PTL DEF BucketSpec

\* A client that the bucket has not forgotten gets each shared interaction once,
\* in order, and the ones still buffered without a gap, whatever trims and
\* cleanups lie between its reads (storage.go:495-560).
THEOREM AlwaysInOrderOnce == BucketSpec => []InOrderOnce
<1>1. BucketInv => InOrderOnce
    <2> SUFFICES ASSUME BucketInv, NEW c \in Consumers, ~forgotten[c]
                 PROVE  /\ Increasing(received[c])
                        /\ \A i \in DOMAIN interactions :
                              (i <= offsets[c]) <=> WasGiven(c, interactions[i])
        BY DEF InOrderOnce
    <2>1. ReadUpTo(c) /\ First \in Nat /\ offsets[c] \in Nat /\ received[c] \in Seq(Nat)
        BY DEF BucketInv, Consecutive, BucketTypeOK
    <2>2. ASSUME NEW i \in DOMAIN interactions
          PROVE  (i <= offsets[c]) <=> WasGiven(c, interactions[i])
        <3>1. i \in Nat /\ i >= 1 /\ interactions[i] = First + i
            BY DEF BucketInv, BucketTypeOK, Consecutive
        <3> QED BY <2>1, <3>1 DEF ReadUpTo, WasGiven
    <2> QED BY <2>1, <2>2 DEF ReadUpTo
<1> QED BY <1>1, BucketInvariant, PTL
===============================================================================
