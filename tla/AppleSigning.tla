---------------------------- MODULE AppleSigning ----------------------------
(***************************************************************************)
(* signApple (internal/pack/iosbuild.go): the provisioning profiles of the *)
(* machine are tried in order until one fits the application, and the      *)
(* application is signed by an identity that profile names.                *)
(***************************************************************************)
EXTENDS Naturals, Sequences, SequencesExt

CONSTANTS
    Profiles,     \* what a profile may be
    Installed,    \* the identities in the keychain
    Required,     \* the entitlements the application needs
    MaxProfiles   \* bound: profiles on the machine

VARIABLES
    profiles,     \* iosProvisioningProfiles, in order
    at,           \* the one looked at
    embedded,     \* the profile copied into the application, 0 for none
    matched, missing,  \* matchedBundle, missingRequired
    unread,       \* the profiles something of which could not be read
    result        \* "none" while it looks

vars == <<profiles, at, embedded, matched, missing, unread, result>>

Init ==
    /\ profiles \in UNION {[1 .. n -> Profiles] : n \in 0 .. MaxProfiles}
    /\ at = 1 /\ embedded = 0 /\ matched = FALSE /\ missing = FALSE /\ unread = {} /\ result = "none"

-----------------------------------------------------------------------------
Looking == result = "none" /\ at \in DOMAIN profiles
Profile == profiles[at]
Matches(p) == ~p.expired /\ p.app
matchingAppleIdentity(p) == SelectSeq(p.certificates, LAMBDA c : c \in Installed)
missingEntitlement(p) == Required \ p.entitlements

Continue == at' = at + 1 /\ UNCHANGED <<profiles, result>>

\* Decoding, the dates, the prefix, the identifier or the certificates could not be read.
Unreadable ==
    /\ Looking /\ Continue
    /\ unread' = unread \cup {at}
    /\ matched' \in {matched, matched \/ Matches(Profile)}
    /\ UNCHANGED <<embedded, missing>>

NotThisOne ==
    /\ Looking /\ Continue
    /\ ~Matches(Profile) \/ matchingAppleIdentity(Profile) = <<>>
    /\ matched' = (matched \/ Matches(Profile))
    /\ UNCHANGED <<embedded, missing, unread>>

Candidate == Looking /\ Matches(Profile) /\ matchingAppleIdentity(Profile) # <<>>

\* Mutant: a profile copied before is not copied over.
EmbedsFirst == embedded' = IF embedded = 0 THEN at ELSE embedded

\* The profile is in the application before its entitlements are looked at.
Embeds == embedded' = at

EntitlementsUnread ==
    /\ Candidate /\ Embeds /\ Continue
    /\ matched' = TRUE /\ unread' = unread \cup {at} /\ UNCHANGED missing

LacksOne ==
    /\ Candidate /\ Embeds /\ Continue
    /\ missingEntitlement(Profile) # {}
    /\ matched' = TRUE /\ missing' = TRUE /\ UNCHANGED unread

\* The copy, the entitlements file or codesign may fail, and then no other is tried.
Signs(outcome) ==
    /\ Candidate /\ Embeds /\ missingEntitlement(Profile) = {}
    /\ result' = outcome /\ matched' = TRUE
    /\ UNCHANGED <<profiles, at, missing, unread>>

Refuses ==
    /\ result = "none" /\ at \notin DOMAIN profiles
    /\ result' = IF missing THEN "no entitlement" ELSE IF matched THEN "no identity" ELSE "no profile"
    /\ UNCHANGED <<profiles, at, embedded, matched, missing, unread>>

Next ==
    \/ Unreadable \/ NotThisOne \/ EntitlementsUnread \/ LacksOne
    \/ Signs("signed") \/ Signs("failed") \/ Refuses
Spec == Init /\ [][Next]_vars

-----------------------------------------------------------------------------
Fits(p) == Matches(p) /\ matchingAppleIdentity(p) # <<>> /\ missingEntitlement(p) = {}

\* The application is signed under the profile it carries, one that is for it,
\* has not expired and grants what it needs; and it is refused only when no
\* profile that could be read is such a one (signApple).
SignedAsEmbedded ==
    /\ result = "signed" => embedded = at /\ Fits(profiles[embedded])
    /\ result \in {"no entitlement", "no identity", "no profile"} =>
           \A i \in DOMAIN profiles : Fits(profiles[i]) => i \in unread
    /\ result = "no entitlement" => \E i \in DOMAIN profiles : Matches(profiles[i]) /\ missingEntitlement(profiles[i]) # {}
=============================================================================
