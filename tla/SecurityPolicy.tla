--------------------------- MODULE SecurityPolicy ---------------------------
(***************************************************************************)
(* src/src/security/SecurityManager.ts: which URLs, redirects, server names *)
(* and resolved addresses a client may use.                                *)
(*                                                                         *)
(* A URL is a record [protocol, host, port, credentials, injected]: its    *)
(* user information and the patterns of #detectURLInjection only matter as *)
(* present or absent, and port is the one written in it, or None.  A host  *)
(* is [labels, address]: a name is a sequence of labels, and an address    *)
(* None; a literal address is [form, parts].  Text is left out: the        *)
(* spellings of an address (octal, hexadecimal, percent-encoded) are taken *)
(* as parsed.  An allow list of hosts that is absent is the pattern "*".   *)
(***************************************************************************)
EXTENDS Undefined, Integers, SequencesExt, TLC

-----------------------------------------------------------------------------
\* Addresses: the parts are bytes, of an IPv4 address or of one mapped into IPv6.
\* Of the other IPv6 addresses the form says what the code tells apart.
Forms == {"ipv4", "mapped", "::1", "fd00:ec2::254", "fe80:", "fc00:", "global6"}
Addresses ==
    [form : {"ipv4", "mapped"}, parts : [1..4 -> 0..255]]
    \cup [form : Forms \ {"ipv4", "mapped"}, parts : {<<>>}]

canonicalAddress(a) == IF a.form = "mapped" THEN [a EXCEPT !.form = "ipv4"] ELSE a
Is4(a) == a.form = "ipv4"

Private(p) ==
    \/ p[1] \in {0, 10}
    \/ p[1] = 100 /\ p[2] \in 64..127
    \/ p[1] = 172 /\ p[2] \in 16..31
    \/ p[1] = 192 /\ p[2] = 168

ipv4Category(p) ==
    IF p \in {<<169, 254, 169, 254>>, <<100, 100, 100, 200>>} THEN "metadata"
    ELSE IF p[1] = 127 THEN "loopback"
    ELSE IF p[1] = 169 /\ p[2] = 254 THEN "link-local"
    ELSE IF Private(p) THEN "private" ELSE "public"

MetadataNames == {<<"metadata">>, <<"metadata", "google", "internal">>}

hostCategory(h) ==
    IF h.address = None
    THEN IF h.labels = <<"localhost">> THEN "loopback"
         ELSE IF h.labels \in MetadataNames THEN "metadata" ELSE "public"
    ELSE LET a == h.address
         IN CASE a.form \in {"ipv4", "mapped"} -> ipv4Category(a.parts)
              [] a.form = "::1" -> "loopback"
              [] a.form = "fd00:ec2::254" -> "metadata"
              [] a.form = "fe80:" -> "link-local"
              [] a.form = "fc00:" -> "private"
              [] a.form = "global6" -> "public"

\* A mapped address counts as public here; hostCandidates unwraps those in URLs.
isPrivateOrInternalHost(h) ==
    IF h.address # None /\ ~Is4(h.address)
    THEN h.address.form \in {"::1", "fd00:ec2::254", "fe80:", "fc00:"}
    ELSE hostCategory(h) # "public"

AddressHost(a) == [labels |-> <<>>, address |-> a]
CanonicalHost(h) == IF h.address = None THEN h ELSE AddressHost(canonicalAddress(h.address))
hostCandidates(h) == {h, CanonicalHost(h)}

\* A range is [form, parts, prefix]; the leading prefix bits of the bytes agree.
Bits(prefix, i) ==
    LET n == prefix - 8 * (i - 1) IN IF n < 0 THEN 0 ELSE IF n > 8 THEN 8 ELSE n
Units == <<256, 128, 64, 32, 16, 8, 4, 2, 1>>
cidrContains(range, address) ==
    LET a == canonicalAddress(address)
    IN /\ a.form = range.form
       /\ \A i \in DOMAIN range.parts :
              LET unit == Units[Bits(range.prefix, i) + 1]
              IN a.parts[i] \div unit = range.parts[i] \div unit

\* A pattern is [wild, labels]: "*.x" and ".x" also match x itself.
AnyHost == {[wild |-> TRUE, labels |-> <<>>]}
matchesHostPattern(h, pattern) ==
    h.labels = pattern.labels \/ (pattern.wild /\ IsSuffix(pattern.labels, h.labels))
MatchesAny(h, patterns) == \E pattern \in patterns : matchesHostPattern(h, pattern)

-----------------------------------------------------------------------------
\* The configuration: what is given, over the defaults of a profile or preset.

profileDefaults(profile) ==
    LET guarded == profile # "legacy"
    IN [profile |-> profile,
        protocols |-> IF profile = "strict" THEN {"https"} ELSE {"http", "https"},
        enforceHTTPS |-> guarded, blockPrivateIPs |-> guarded, blockLinkLocalIPs |-> guarded,
        blockLoopbackIPs |-> guarded, blockMetadataIPs |-> guarded,
        blockDangerousPorts |-> guarded, allowLocalhost |-> ~guarded,
        enableSSRFProtection |-> TRUE, blockRedirectToPrivateIP |-> TRUE,
        allowedHosts |-> AnyHost, deniedHosts |-> {}, blocklist |-> {}]

egressPreset(mode) ==
    CASE mode \in {"public-api", "webhook-target"} ->
            [protocols |-> {"https"}, ports |-> {443}, requireHttps |-> TRUE,
             requirePublicDns |-> TRUE, blockCloudMetadata |-> TRUE]
      [] mode \in {"internal-service", "legacy-migration"} ->
            [protocols |-> {"http", "https"}, blockCloudMetadata |-> TRUE]
      [] mode = "custom" -> <<>>

normalizeEgressPolicy(mode, given) ==
    given @@ egressPreset(mode) @@
        [protocols |-> {}, requireHttps |-> FALSE, requirePublicDns |-> FALSE,
         blockCloudMetadata |-> FALSE, allowedHosts |-> AnyHost, deniedHosts |-> {},
         allowedCidrs |-> None, deniedCidrs |-> {}, ports |-> None,
         allowRedirectsTo |-> AnyHost, allowedSni |-> AnyHost]

\* SecurityManager's constructor; `production` is the process's NODE_ENV.
Manager(profile, given, mode, egress, production) ==
    given @@ profileDefaults(profile) @@
        [egress |-> normalizeEgressPolicy(mode, egress), production |-> production]

-----------------------------------------------------------------------------
\* The checks, each TRUE where the code does not throw.

EgressAddressAllowed(p, h) ==
    LET c == CanonicalHost(h)
    IN /\ ~(p.egress.blockCloudMetadata /\ hostCategory(c) = "metadata")
       /\ c.address # None =>
              /\ \A range \in p.egress.deniedCidrs : ~cidrContains(range, c.address)
              /\ p.egress.allowedCidrs # None =>
                     \E range \in p.egress.allowedCidrs : cidrContains(range, c.address)
       /\ p.egress.requirePublicDns => hostCategory(c) = "public"

urlPort(u) == IF u.port # None THEN u.port ELSE IF u.protocol = "https" THEN 443 ELSE 80

validateEgressURL(p, u) ==
    /\ p.egress.protocols = {} \/ u.protocol \in p.egress.protocols
    /\ p.egress.requireHttps => u.protocol = "https"
    /\ MatchesAny(u.host, p.egress.allowedHosts) /\ ~MatchesAny(u.host, p.egress.deniedHosts)
    /\ MatchesAny(u.host, p.egress.allowedSni)
    /\ p.egress.ports # None => urlPort(u) \in p.egress.ports
    /\ EgressAddressAllowed(p, u.host)

isEgressAllowedAddress(p, h) ==
    /\ p.egress.allowedCidrs # None /\ h.address # None
    /\ \E range \in p.egress.allowedCidrs : cidrContains(range, h.address)

assertHostAllowed(p, h) ==
    LET category == hostCategory(h)
    IN \/ ~isPrivateOrInternalHost(h)
       \/ isEgressAllowedAddress(p, h) /\ category # "metadata" /\ ~p.egress.requirePublicDns
       \/ /\ category = "metadata" => ~p.blockMetadataIPs
          /\ category = "loopback" => ~p.blockLoopbackIPs /\ (p.allowLocalhost \/ ~p.blockPrivateIPs)
          /\ category = "link-local" => ~p.blockLinkLocalIPs
          /\ category = "private" => ~p.blockPrivateIPs

DANGEROUS_PORTS == {22, 23, 25, 53, 110, 143, 3306, 5432, 6379, 27017, 11211}

validateSSRF(p, u) ==
    /\ MatchesAny(u.host, p.allowedHosts) /\ ~MatchesAny(u.host, p.deniedHosts)
    /\ \A h \in hostCandidates(u.host) : EgressAddressAllowed(p, h) /\ assertHostAllowed(p, h)
    /\ p.blockDangerousPorts => u.port \notin DANGEROUS_PORTS

validateURL(p, u) ==
    /\ u.protocol \in p.protocols
    /\ validateEgressURL(p, u)
    /\ u.credentials => p.profile = "legacy"
    /\ p.enforceHTTPS /\ (p.profile = "strict" \/ p.production) => u.protocol = "https"
    /\ p.enableSSRFProtection => validateSSRF(p, u)
    /\ ~u.injected

validateSocketURL(p, u) ==
    /\ u.protocol = "http" /\ ~u.injected
    /\ u.credentials => p.profile = "legacy"

validateRedirect(p, from, to) ==
    /\ ~(p.enforceHTTPS /\ from.protocol = "https" /\ to.protocol = "http")
    /\ validateEgressURL(p, to)
    /\ p.blockRedirectToPrivateIP /\ p.enableSSRFProtection => validateSSRF(p, to)
    /\ MatchesAny(to.host, p.egress.allowRedirectsTo)

validateResolvedAddress(p, address) ==
    p.enableSSRFProtection =>
        EgressAddressAllowed(p, AddressHost(address)) /\ assertHostAllowed(p, AddressHost(address))
validateSNI(p, servername) == servername # None => MatchesAny(servername, p.egress.allowedSni)

\* validateRequest, as far as it decides; the blocklist and the server name are
\* looked at for the caller's URL only.
validateRequest(p, r) ==
    IF r.socketPath THEN validateSocketURL(p, r.url)
    ELSE /\ validateURL(p, r.url) /\ validateSNI(p, r.servername)
         /\ r.url.host.labels \notin p.blocklist
=============================================================================
