------------------------------- MODULE Matching -------------------------------
(***************************************************************************)
(* How an incoming request is attributed to sessions: the scans of         *)
(* oobsrv/correlation.go, character by character over short labels, while  *)
(* sessions come and go between two lookups (lookup is HasCorrelationID,   *)
(* called once per candidate without any lock held across the scan).       *)
(*                                                                         *)
(* An input is a sequence of parts, a part a sequence of labels, a label a *)
(* sequence of characters.  A host name (MatchCorrelationID) is one part   *)
(* of dot-separated labels; a raw request (MatchCorrelationIDEverywhere)   *)
(* is one part of delimiter-separated chunks; an LDAP base DN              *)
(* (MatchLDAPCorrelationID) has one part per piece between '=' and ','.    *)
(* Input is lower-cased before it is scanned, so case does not appear.     *)
(***************************************************************************)
EXTENDS Naturals, Sequences, FiniteSets

CONSTANTS
    CIDChars,       \* cidAlphabetTable: 0-9, a-v
    NonceChars,     \* alphanumericTable: 0-9, a-z
    OtherChars,     \* any other character of a label
    CIDLength,      \* cfg.CorrelationIdLength
    MinNonceLength, \* minNonceLength, 3 in the code
    Modes,          \* the scans to run, of "host", "everywhere" and "ldap"
    Inputs(_),      \* the inputs of a mode
    Registries,     \* the sets of IDs that may be registered at the start
    MaxChanges      \* bound: sessions that come or go during a scan

ASSUME AlphabetAssumption == CIDChars \subseteq NonceChars /\ NonceChars \cap OtherChars = {}
ASSUME LengthAssumption == CIDLength \in Nat \ {0} /\ MinNonceLength \in Nat \ {0}
ASSUME InputsAssumption ==
    \A m \in Modes : Inputs(m) \subseteq Seq(Seq(Seq(NonceChars \union OtherChars)))
\* handleRegister cuts an ID to its length and refuses other characters.
ASSUME RegistriesAssumption == \A ids \in Registries : ids \subseteq [1 .. CIDLength -> CIDChars]

VARIABLES
    mode, input,   \* the scan and what it scans
    part, tier, label, pos, \* where the scan is
    matches,       \* Match.UniqueID, in the order found
    registered,    \* IDs HasCorrelationID reports now
    always, ever,  \* history: IDs registered all through, and at any time
    changes        \* sessions that came or went so far

matchVars == <<mode, input, part, tier, label, pos, matches, registered, always, ever, changes>>
scan == <<mode, input>>

WindowSize == CIDLength + MinNonceLength

IsCIDBase32(s) == s # <<>> /\ \A i \in DOMAIN s : s[i] \in CIDChars
\* Faulty variant: the nonce is not looked at.
IsAnything(s) == s # <<>>

IsAlphanumeric(s) == s # <<>> /\ \A i \in DOMAIN s : s[i] \in NonceChars
Matched == {matches[i] : i \in DOMAIN matches}

Labels == input[part]
Label == Labels[label]

MatchInit ==
    /\ mode \in Modes
    /\ input \in Inputs(mode)
    /\ registered \in Registries
    /\ always = registered /\ ever = registered
    /\ part = 1 /\ tier = 1 /\ label = 1 /\ pos = 1
    /\ matches = <<>>
    /\ changes = 0

\* No scan.
MatchIdle ==
    /\ mode = "none" /\ input = <<>> /\ registered = {}
    /\ always = {} /\ ever = {}
    /\ part = 1 /\ tier = 1 /\ label = 1 /\ pos = 1
    /\ matches = <<>> /\ changes = 0

Scanning == part <= Len(input)
InLabel == Scanning /\ label <= Len(Labels)

\* The scan goes on to the next label.
NextLabel == label' = label + 1 /\ pos' = 1 /\ UNCHANGED <<part, tier, matches>>

\* A candidate is looked up unless it is matched already (LDAP and everywhere
\* test that first, the host scan drops the duplicate after the lookup).
Found(candidate) == candidate \in registered /\ candidate \notin Matched

Record(candidate) ==
    matches' = IF Found(candidate) THEN Append(matches, candidate) ELSE matches

\* Tier 1: one window of the label.
ScanWindow ==
    LET candidate == SubSeq(Label, pos, pos + CIDLength - 1)
        nonce == SubSeq(Label, pos + CIDLength, pos + WindowSize - 1)
    IN /\ InLabel /\ tier = 1
       /\ pos + WindowSize - 1 <= Len(Label)
       /\ IF IsCIDBase32(candidate) /\ IsAlphanumeric(nonce)
          THEN Record(candidate)
          ELSE UNCHANGED matches
       /\ pos' = pos + 1
       /\ UNCHANGED <<scan, part, tier, label, registered, always, ever, changes>>

\* Faulty variant: the last window of a label is left out.
WindowsDoneEarly ==
    /\ InLabel /\ tier = 1
    /\ pos + WindowSize > Len(Label)
    /\ NextLabel
    /\ UNCHANGED <<scan, registered, always, ever, changes>>

\* Tier 1: no window is left in the label, or it is too short for one.
WindowsDone ==
    /\ InLabel /\ tier = 1
    /\ pos + WindowSize - 1 > Len(Label)
    /\ NextLabel
    /\ UNCHANGED <<scan, registered, always, ever, changes>>

\* Tier 2: a label that is an ID and nothing else.
BareLabel ==
    /\ InLabel /\ tier = 2
    /\ label' = label + 1
    /\ IF Len(Label) = CIDLength /\ IsCIDBase32(Label)
       THEN Record(Label)
       ELSE UNCHANGED matches
    /\ UNCHANGED <<scan, part, tier, pos, registered, always, ever, changes>>

\* All labels of the part are done: tier 2 (the raw scan has none), then the
\* next part.
NextTier ==
    /\ Scanning /\ label > Len(Labels)
    /\ IF tier = 1 /\ mode # "everywhere"
       THEN tier' = 2 /\ UNCHANGED part
       ELSE tier' = 1 /\ part' = part + 1
    /\ label' = 1 /\ pos' = 1
    /\ UNCHANGED <<scan, matches, registered, always, ever, changes>>

\* Another request registers, evicts or deletes a session meanwhile.
SessionChange ==
    /\ Scanning
    /\ changes < MaxChanges
    /\ changes' = changes + 1
    /\ \E id \in UNION Registries :
          /\ registered' = IF id \in registered THEN registered \ {id}
                                                ELSE registered \union {id}
          /\ always' = always \ {id}
          /\ ever' = ever \union {id}
    /\ UNCHANGED <<scan, part, tier, label, pos, matches>>

\* The scan has returned.
Returned == ~Scanning /\ UNCHANGED matchVars

MatchNext == ScanWindow \/ WindowsDone \/ BareLabel \/ NextTier \/ SessionChange \/ Returned

MatchSpec == MatchInit /\ [][MatchNext]_matchVars

-------------------------------------------------------------------------------
(* What the scans are for, said without windows and tiers. *)

\* label carries id followed by a nonce of at least n characters somewhere.
Carries(l, id, n) ==
    \E before \in 0 .. Len(l) :
        /\ before + Len(id) + n <= Len(l)
        /\ SubSeq(l, before + 1, before + Len(id)) = id
        /\ \A i \in before + Len(id) + 1 .. before + Len(id) + n : l[i] \in NonceChars

LabelsOf(in) == UNION {{in[i][j] : j \in DOMAIN in[i]} : i \in DOMAIN in}

\* id occurs in the input in a form the mode accepts.
Mentions(id) ==
    \E l \in LabelsOf(input) : \/ Carries(l, id, MinNonceLength)
                               \/ mode # "everywhere" /\ l = id

\* A match is a well-formed ID that the input mentions and that was registered at
\* some time during the scan: nothing is attributed to a session by accident of
\* window or label boundaries (correlation.go:41-78).
MatchesSound ==
    \A id \in Matched : id \in ever /\ IsCIDBase32(id) /\ Mentions(id)

\* When a scan returns, every session that was registered all through and that
\* the input mentions has been matched, wherever in whichever label.
MatchesComplete ==
    ~Scanning => \A id \in always : Mentions(id) => id \in Matched
===============================================================================
