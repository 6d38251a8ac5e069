-------------------------------- MODULE MCParts ---------------------------------
(* For TLC, the components that need no store: one of them runs, the initial   *)
(* state says which, and the others stay as they start.                        *)
EXTENDS Matching, SmtpSession, Responses, SharedBucket, Lifecycle, UserAgents,
        Registration, Cli, TLC

CONSTANT MaxReceived   \* bound: length of a bucket consumer's history

VARIABLE component     \* the one that runs

\* Matching: labels up to one character longer than a window, so that a window
\* slides, with a foreign character anywhere, or at the ends of the longest; before
\* or after it an ID of its own; one ID, or all.
MCIDs == [1 .. CIDLength -> CIDChars]

MCInputs(m) ==
    LET chars == NonceChars \union OtherChars
        longest == {<<c>> \o l \o <<d>> : c, d \in chars, l \in [1 .. WindowSize - 1 -> NonceChars]}
        long == longest \union UNION {[1 .. k -> chars] : k \in 0 .. WindowSize}
        short == {<<>>, <<"a", "b">>, <<"b", "b">>}
    IN IF m = "ldap" THEN {<< <<l>>, <<s>> >> : l \in long, s \in short}
                     ELSE {<< <<s, l>> >> : l \in long, s \in short}

MCRegistries == {{<<"a", "b">>}, MCIDs}

\* Responses: a domain, one below it, and one of the same length.
MCDomains == {<<"oast", "net">>, <<"sub", "oast", "net">>, <<"oast", "org">>}
MCWidth == [l \in {"oast", "net", "org", "sub"} |-> IF l = "oast" THEN 4 ELSE 3]
MCNames ==
    {<<"net">>} \union
    {pre \o d : d \in MCDomains,
               pre \in {<<>>, <<"ns1">>, <<"www">>, <<"aws">>, <<"_acme-challenge">>, <<"a", "b">>}}

\* No file, a file that overrides a name the server hands out, and one of all types.
MCFiles ==
    {<<>>,
     <<"ns1">> :> {[type |-> "A", value |-> <<"ip4">>], [type |-> "AAAA", value |-> <<"ip4">>]},
     <<"www">> :> {[type |-> t, value |-> <<"host">>] : t \in {"A", "CNAME", "MX", "TXT", "NS"}}}

\* Registration: servers that share an address, that do not, and that have none.
MCDefaults == <<"d1", "d2">>
MCFallbacks == <<"f1">>
MCLists == {<<>>, MCDefaults, <<"u1", "u2", "u3">>}

MCAddressBooks ==
    {[s \in {"d1", "d2", "f1", "u1", "u2", "u3"} |->
        IF s \in {"d1", "u1"} THEN one ELSE IF s \in {"d2", "u2"} THEN two ELSE {"a2"}] :
        one, two \in {{}, {"a1"}, {"a2"}, {"a1", "a2"}}}

MCLengths == {[id |-> 0, nonce |-> 0], [id |-> 3, nonce |-> 0], [id |-> 20, nonce |-> 13],
              [id |-> 16, nonce |-> 13]}

-------------------------------------------------------------------------------
partVars == <<matchVars, smtpVars, respVars, bucketVars, lifeVars, uaVars, regVars, cliVars>>

Fixed(name) ==
    /\ component = name
    /\ BucketInit /\ SmtpInit /\ LifeInit /\ UaInit /\ CliInit

PartsInit ==
    \/ Fixed("matching") /\ MatchInit /\ RespIdle /\ RegIdle
    \/ Fixed("responses") /\ MatchIdle /\ RespInit /\ RegIdle
    \/ Fixed("registration") /\ MatchIdle /\ RespIdle /\ RegInit
    \/ \E name \in {"bucket", "smtp", "lifecycle", "userAgents", "cli"} :
          Fixed(name) /\ MatchIdle /\ RespIdle /\ RegIdle

\* Reads of a bucket, up to the bound.
BucketPart ==
    \/ Tick \/ AppendInteraction
    \/ \E c \in Consumers : Len(received[c]) + Len(interactions) <= MaxReceived /\ ReadFrom(c)

\* The process is gone, or all maps are used up, or the bound on runs is.
Ended ==
    \/ component = "lifecycle" /\ main.pc \in {"closed", "exited"}
    \/ /\ component = "userAgents"
       /\ flusher.pc = "gone" \/ (flusher.pc = "waits" /\ Active = MaxWindows)
       /\ flusher.stopped
       /\ \A r \in Records : record[r].pc = "done"
    \/ component = "registration" /\ new.pc \in {"registered", "error"}
    \/ component = "cli" /\ cli.pc = "ended" /\ cli.run = MaxRuns

PartsNext ==
    \/ /\ component = "matching" /\ MatchNext
       /\ UNCHANGED <<smtpVars, respVars, bucketVars, lifeVars, uaVars, regVars, cliVars, component>>
    \/ /\ component = "smtp" /\ SmtpNext
       /\ UNCHANGED <<matchVars, respVars, bucketVars, lifeVars, uaVars, regVars, cliVars, component>>
    \/ /\ component = "responses" /\ RespNext
       /\ UNCHANGED <<matchVars, smtpVars, bucketVars, lifeVars, uaVars, regVars, cliVars, component>>
    \/ /\ component = "bucket" /\ BucketPart
       /\ UNCHANGED <<matchVars, smtpVars, respVars, lifeVars, uaVars, regVars, cliVars, component>>
    \/ /\ component = "lifecycle" /\ LifeNext
       /\ UNCHANGED <<matchVars, smtpVars, respVars, bucketVars, uaVars, regVars, cliVars, component>>
    \/ /\ component = "userAgents" /\ UaNext
       /\ UNCHANGED <<matchVars, smtpVars, respVars, bucketVars, lifeVars, regVars, cliVars, component>>
    \/ /\ component = "registration" /\ RegNext
       /\ UNCHANGED <<matchVars, smtpVars, respVars, bucketVars, lifeVars, uaVars, cliVars, component>>
    \/ /\ component = "cli" /\ CliNext
       /\ UNCHANGED <<matchVars, smtpVars, respVars, bucketVars, lifeVars, uaVars, regVars, component>>
    \/ Ended /\ UNCHANGED <<partVars, component>>

PartsSpec == PartsInit /\ [][PartsNext]_<<partVars, component>>

\* For a look at what deviates, one component alone.
SmtpAlone == Fixed("smtp") /\ MatchIdle /\ RespIdle /\ RegIdle /\ [][PartsNext]_<<partVars, component>>
RegistrationAlone == Fixed("registration") /\ MatchIdle /\ RespIdle /\ RegInit /\ [][PartsNext]_<<partVars, component>>
===============================================================================
