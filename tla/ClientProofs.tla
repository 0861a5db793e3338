----------------------------- MODULE ClientProofs -----------------------------
(***************************************************************************)
(* Theorems about the parts around a client's pipeline: credentials and    *)
(* contacts over any chain of redirects between any targets (Redirects),   *)
(* settings over any chain of clients (Settings), the race of a signal, a  *)
(* token and a timeout (FetchExchange), when a connection of the           *)
(* platform's WebSocket is given up, for any number of attempts            *)
(* (NativeSocket), the marks of background revalidations, for any numbers  *)
(* of keys, requests and tasks (BrowserClient), and what is counted and    *)
(* told of any number of requests (Telemetry, BrowserClient).              *)
(***************************************************************************)
EXTENDS Redirects, FetchExchange, NativeSocket, BrowserClient, Telemetry, Settings, Lists,
        FiniteSetTheorems, TLAPS

-----------------------------------------------------------------------------
\* Redirects.  Only the asking of an answer is in CredentialsStayHome; the invariant
\* says the same of every stage.

\* A sensitive header is where it was meant to go.
AtHome(headers, u) ==
    \A k \in DOMAIN headers \cap Sensitive : Origin(headers[k]) = Origin(u)

Homely ==
    /\ DOMAIN request = {"url", "method", "data", "socketPath", "servername", "headers", "hops"}
    /\ AtHome(request.headers, request.url)
    /\ request.method = "GET" /\ request.hops > 0 => ~request.data

\* Stripping a second time is what keeps the hook from putting credentials back.
LEMMA StrippedAtHome ==
  ASSUME NEW headers, NEW from, NEW to, NEW dropped,
         \A k \in DOMAIN headers \cap Sensitive :
             Origin(from) = Origin(to) => Origin(headers[k]) = Origin(to)
  PROVE  AtHome(stripRedirectHeaders(headers, from, to, dropped), to)
<1> DEFINE left == stripRedirectHeaders(headers, from, to, dropped)
<1> SUFFICES ASSUME NEW k \in DOMAIN left \cap Sensitive
             PROVE  Origin(left[k]) = Origin(to)
  BY DEF AtHome
<1>1. k \in DOMAIN headers /\ k \notin Stripped(from, to, dropped) /\ left[k] = headers[k]
  BY DEF stripRedirectHeaders, Without
<1>2. Origin(from) = Origin(to)
  BY <1>1 DEF Stripped
<1>3. QED
  BY <1>1, <1>2

\* What the hook leaves is at home if the origin did not change.
LEMMA HookedAtHome ==
  ASSUME NEW headers, NEW from, NEW to, NEW shown,
         AtHome(headers, from), Origin(from) = Origin(to),
         \A k \in DOMAIN shown : k \in DOMAIN headers /\ shown[k] = headers[k],
         NEW given \in Hooked(shown, from, to)
  PROVE  AtHome(given, to)
<1>1. CASE given = shown
  BY <1>1 DEF AtHome
<1>2. ASSUME NEW kinds \in {Kinds, {"secret"}}, NEW u \in {from, to},
             given = [k \in DOMAIN shown \cup kinds |-> IF k \in kinds THEN u ELSE shown[k]]
      PROVE  AtHome(given, to)
  <2> SUFFICES ASSUME NEW k \in DOMAIN given \cap Sensitive
               PROVE  Origin(given[k]) = Origin(to)
    BY DEF AtHome
  <2>1. Origin(u) = Origin(to)
    OBVIOUS
  <2>2. CASE k \in kinds
    BY <1>2, <2>1, <2>2
  <2>3. CASE k \notin kinds
    BY <1>2, <2>3 DEF AtHome
  <2>4. QED
    BY <2>2, <2>3
<1>3. QED
  BY <1>1, <1>2 DEF Hooked

LEMMA FollowHomely ==
  ASSUME Homely, NEW status \in RedirectStatuses, NEW to \in Targets, Follow(status, to)
  PROVE  Homely'
<1> DEFINE next == Redirected(status, to)
           dropped == next.method # request.method
<1>1. CASE UNCHANGED request
  BY <1>1 DEF Homely, AtHome
<1>2. ASSUME NEW headers \in Hooked(next.headers, request.url, to),
             request' = [next EXCEPT !.headers =
                 stripRedirectHeaders(headers, request.url, to, dropped)]
      PROVE  Homely'
  <2>1. /\ request'.url = next.url /\ request'.method = next.method /\ request'.data = next.data
        /\ request'.headers = stripRedirectHeaders(headers, request.url, to, dropped)
        /\ DOMAIN request' = DOMAIN request
    BY <1>2 DEF Redirected, Homely
  <2>2. next.url = to /\ (next.method = "GET" => ~next.data)
    BY DEF Redirected, Homely
  <2>3. next.headers = stripRedirectHeaders(request.headers, request.url, to, dropped)
    BY DEF Redirected, Homely
  <2>4. \A k \in DOMAIN next.headers :
            k \in DOMAIN request.headers /\ next.headers[k] = request.headers[k]
    BY <2>3 DEF stripRedirectHeaders, Without
  <2>5. Origin(request.url) = Origin(to) => AtHome(headers, to)
    BY <1>2, <2>4, HookedAtHome DEF Homely
  <2>6. AtHome(request'.headers, to)
    BY <2>1, <2>5, StrippedAtHome DEF AtHome
  <2>7. QED
    BY <2>1, <2>2, <2>6 DEF Homely
<1>3. QED
  BY <1>1, <1>2 DEF Follow

LEMMA HomelyInit == RedirectInit => Homely
<1> SUFFICES ASSUME NEW u \in Targets, NEW method, NEW data, NEW socketPath,
                    request = [url |-> u, method |-> method, data |-> data,
                               socketPath |-> socketPath, servername |-> None,
                               headers |-> [k \in Kinds |-> u], hops |-> 0]
             PROVE  Homely
  BY DEF RedirectInit
<1>1. /\ request.url = u /\ request.hops = 0 /\ request.headers = [k \in Kinds |-> u]
      /\ DOMAIN request = {"url", "method", "data", "socketPath", "servername", "headers", "hops"}
  OBVIOUS
<1>2. \A k \in DOMAIN request.headers \cap Sensitive : request.headers[k] = u
  BY <1>1
<1>3. AtHome(request.headers, request.url)
  BY <1>1, <1>2 DEF AtHome
<1>4. QED
  BY <1>1, <1>3 DEF Homely

\* Over any chain of redirects no credential reaches an origin it was not meant for
\* (#dispatchWithRedirects, redirect.ts), with any hook, any targets and any number of hops.
THEOREM CredentialsKept == RedirectSpec => []CredentialsStayHome
<1>1. Homely /\ [RedirectNext]_redirectVars => Homely'
  <2> SUFFICES ASSUME Homely, [RedirectNext]_redirectVars PROVE Homely'
    OBVIOUS
  <2>1. CASE UNCHANGED request
    BY <2>1 DEF Homely, AtHome
  <2>2. ASSUME NEW status \in RedirectStatuses, NEW to \in Targets, Follow(status, to)
        PROVE  Homely'
    BY <2>2, FollowHomely
  <2>3. CASE Check \/ Look \/ Connect \/ Answer \/ Finish
    BY <2>1, <2>3 DEF Check, Look, Connect, Answer, Finish
  <2>4. CASE UNCHANGED redirectVars
    BY <2>1, <2>4 DEF redirectVars
  <2>5. QED
    BY <2>2, <2>3, <2>4 DEF RedirectNext
<1>2. Homely => CredentialsStayHome
  BY DEF Homely, AtHome, CredentialsStayHome
<1>3. QED
  BY <1>1, <1>2, HomelyInit, PTL DEF RedirectSpec

-----------------------------------------------------------------------------
\* Redirects: what the categories of addresses come to, by ranges, and what is
\* contacted.

Four == [1..4 -> 0..255]

\* What an IPv4 block asks of the four bytes of an address.
LEMMA BlockBytes ==
    ASSUME NEW p \in Four, NEW a, a.form = "ipv4", a.parts = p, NEW q \in Four
    PROVE  /\ cidrContains(Block(q, 32), a) <=> p = q
           /\ cidrContains(Block(q, 16), a) <=> (p[1] = q[1] /\ p[2] = q[2])
           /\ cidrContains(Block(q, 12), a) <=> (p[1] = q[1] /\ p[2] \div 16 = q[2] \div 16)
           /\ cidrContains(Block(q, 10), a) <=> (p[1] = q[1] /\ p[2] \div 64 = q[2] \div 64)
           /\ cidrContains(Block(q, 8), a) <=> p[1] = q[1]
<1> DEFINE Agree(unit, i) == p[i] \div unit = q[i] \div unit
<1>1. /\ p[1] \in 0..255 /\ p[2] \in 0..255 /\ p[3] \in 0..255 /\ p[4] \in 0..255
      /\ q[1] \in 0..255 /\ q[2] \in 0..255 /\ q[3] \in 0..255 /\ q[4] \in 0..255
      /\ p = q <=> (p[1] = q[1] /\ p[2] = q[2] /\ p[3] = q[3] /\ p[4] = q[4])
  BY DEF Four
<1>2. \A prefix : cidrContains(Block(q, prefix), a) <=>
          /\ Agree(Units[Bits(prefix, 1) + 1], 1) /\ Agree(Units[Bits(prefix, 2) + 1], 2)
          /\ Agree(Units[Bits(prefix, 3) + 1], 3) /\ Agree(Units[Bits(prefix, 4) + 1], 4)
  <2>1. TAKE prefix
  <2>2. canonicalAddress(a) = a /\ DOMAIN q = 1..4
    BY DEF canonicalAddress, Four
  <2>3. cidrContains(Block(q, prefix), a) <=> \A i \in 1..4 : Agree(Units[Bits(prefix, i) + 1], i)
    BY <2>2 DEF cidrContains, Block
  <2> HIDE DEF Agree
  <2>4. QED
    BY <2>3
<1>3. \A m, n \in 0..255 : (m \div 1 = n \div 1 <=> m = n) /\ m \div 256 = n \div 256
  OBVIOUS
<1>4. \A i \in 1..4 : (Agree(1, i) <=> p[i] = q[i]) /\ Agree(256, i)
  <2>1. TAKE i \in 1..4
  <2> DEFINE m == p[i]  n == q[i]
  <2>2. m \in 0..255 /\ n \in 0..255
    BY DEF Four
  <2> HIDE DEF m, n
  <2>3. (m \div 1 = n \div 1 <=> m = n) /\ m \div 256 = n \div 256
    BY <1>3, <2>2
  <2>4. QED
    BY <2>3 DEF m, n
<1>5. /\ Units[1] = 256 /\ Units[3] = 64 /\ Units[5] = 16 /\ Units[9] = 1
  BY DEF Units
<1>6. /\ Bits(32, 1) = 8 /\ Bits(32, 2) = 8 /\ Bits(32, 3) = 8 /\ Bits(32, 4) = 8
      /\ Bits(16, 1) = 8 /\ Bits(16, 2) = 8 /\ Bits(16, 3) = 0 /\ Bits(16, 4) = 0
      /\ Bits(12, 1) = 8 /\ Bits(12, 2) = 4 /\ Bits(12, 3) = 0 /\ Bits(12, 4) = 0
      /\ Bits(10, 1) = 8 /\ Bits(10, 2) = 2 /\ Bits(10, 3) = 0 /\ Bits(10, 4) = 0
      /\ Bits(8, 1) = 8 /\ Bits(8, 2) = 0 /\ Bits(8, 3) = 0 /\ Bits(8, 4) = 0
  BY DEF Bits
<1>7. /\ Agree(16, 2) <=> p[2] \div 16 = q[2] \div 16
      /\ Agree(64, 2) <=> p[2] \div 64 = q[2] \div 64
  OBVIOUS
<1>8. 8 + 1 = 9 /\ 4 + 1 = 5 /\ 2 + 1 = 3 /\ 0 + 1 = 1
  OBVIOUS
<1> HIDE DEF Agree
<1>9. cidrContains(Block(q, 32), a) <=> p = q
  BY <1>1, <1>2, <1>4, <1>5, <1>6
<1>10. cidrContains(Block(q, 16), a) <=> (p[1] = q[1] /\ p[2] = q[2])
  BY <1>2, <1>4, <1>5, <1>6
<1>11. cidrContains(Block(q, 12), a) <=> (p[1] = q[1] /\ p[2] \div 16 = q[2] \div 16)
  BY <1>2, <1>4, <1>5, <1>6, <1>7
<1>12. cidrContains(Block(q, 10), a) <=> (p[1] = q[1] /\ p[2] \div 64 = q[2] \div 64)
  BY <1>2, <1>4, <1>5, <1>6, <1>7
<1>13. cidrContains(Block(q, 8), a) <=> p[1] = q[1]
  BY <1>2, <1>4, <1>5, <1>6
<1>14. QED
  BY <1>9, <1>10, <1>11, <1>12, <1>13

\* The categories of ipv4Category are the blocks they are named for.
LEMMA Blocks4 ==
    ASSUME NEW p \in Four, NEW a, a.form = "ipv4", a.parts = p
    PROVE  /\ In(a, MetadataBlocks) <=> ipv4Category(p) = "metadata"
           /\ In(a, InternalBlocks.loopback) <=> ipv4Category(p) = "loopback"
           /\ In(a, InternalBlocks.linkLocal) <=> (p[1] = 169 /\ p[2] = 254)
           /\ In(a, InternalBlocks.private) <=> Private(p)
<1> DEFINE metadata == <<169, 254, 169, 254>>  alibaba == <<100, 100, 100, 200>>
           local == <<127, 0, 0, 0>>           link == <<169, 254, 0, 0>>
           zero == <<0, 0, 0, 0>>              ten == <<10, 0, 0, 0>>
           shared == <<100, 64, 0, 0>>         hundred == <<172, 16, 0, 0>>
           home == <<192, 168, 0, 0>>
<1>1. p[1] \in 0..255 /\ p[2] \in 0..255
  BY DEF Four
<1>2. /\ metadata \in Four /\ alibaba \in Four /\ local \in Four /\ link \in Four /\ zero \in Four
      /\ ten \in Four /\ shared \in Four /\ hundred \in Four /\ home \in Four
  BY DEF Four
<1>3. /\ local[1] = 127 /\ link[1] = 169 /\ link[2] = 254 /\ zero[1] = 0 /\ ten[1] = 10
      /\ shared[1] = 100 /\ shared[2] = 64 /\ hundred[1] = 172 /\ hundred[2] = 16
      /\ home[1] = 192 /\ home[2] = 168
  OBVIOUS
<1>4. p \in {metadata, alibaba} => (p[1] = 169 /\ p[2] = 254) \/ (p[1] = 100 /\ p[2] = 100)
  OBVIOUS
<1>5. /\ ipv4Category(p) = "metadata" <=> p \in {metadata, alibaba}
      /\ ipv4Category(p) = "loopback" <=> p[1] = 127
  BY <1>4 DEF ipv4Category
<1>6. In(a, MetadataBlocks) <=>
        cidrContains(Block(metadata, 32), a) \/ cidrContains(Block(alibaba, 32), a)
  BY DEF In, MetadataBlocks
<1>7. In(a, InternalBlocks.loopback) <=> cidrContains(Block(local, 8), a)
  BY DEF In, InternalBlocks
<1>8. In(a, InternalBlocks.linkLocal) <=> cidrContains(Block(link, 16), a)
  BY DEF In, InternalBlocks
<1>9. In(a, InternalBlocks.private) <=>
        \/ cidrContains(Block(zero, 8), a) \/ cidrContains(Block(ten, 8), a)
        \/ cidrContains(Block(shared, 10), a) \/ cidrContains(Block(hundred, 12), a)
        \/ cidrContains(Block(home, 16), a)
  BY DEF In, InternalBlocks
<1>10. /\ p[2] \div 64 = 64 \div 64 <=> p[2] \in 64..127
       /\ p[2] \div 16 = 16 \div 16 <=> p[2] \in 16..31
  BY <1>1
<1> HIDE DEF metadata, alibaba, local, link, zero, ten, shared, hundred, home
<1>11. \A q \in Four :
         /\ cidrContains(Block(q, 32), a) <=> p = q
         /\ cidrContains(Block(q, 16), a) <=> (p[1] = q[1] /\ p[2] = q[2])
         /\ cidrContains(Block(q, 12), a) <=> (p[1] = q[1] /\ p[2] \div 16 = q[2] \div 16)
         /\ cidrContains(Block(q, 10), a) <=> (p[1] = q[1] /\ p[2] \div 64 = q[2] \div 64)
         /\ cidrContains(Block(q, 8), a) <=> p[1] = q[1]
  BY BlockBytes
<1>12. In(a, MetadataBlocks) <=> ipv4Category(p) = "metadata"
  BY <1>2, <1>5, <1>6, <1>11
<1>13. In(a, InternalBlocks.loopback) <=> ipv4Category(p) = "loopback"
  BY <1>2, <1>3, <1>5, <1>7, <1>11
<1>14. In(a, InternalBlocks.linkLocal) <=> (p[1] = 169 /\ p[2] = 254)
  BY <1>2, <1>3, <1>8, <1>11
<1>15. In(a, InternalBlocks.private) <=> Private(p)
  BY <1>2, <1>3, <1>9, <1>10, <1>11 DEF Private
<1>16. QED
  BY <1>12, <1>13, <1>14, <1>15

\* Addresses as they are connected to: not one mapped into IPv6.
Plain == {a \in Addresses : a.form # "mapped"}

\* What hostCategory calls an address, in the terms of Permitted.
LEMMA Categories ==
    ASSUME NEW a \in Plain, None \notin Addresses
    PROVE  LET category == hostCategory(AddressHost(a))
               h == AddressHost(a)
           IN  /\ CanonicalHost(h) = h /\ h.address = a /\ a # None
               /\ (In(a, MetadataBlocks) \/ a.form = "fd00:ec2::254") <=> category = "metadata"
               /\ (In(a, InternalBlocks.loopback) \/ a.form = "::1") <=> category = "loopback"
               /\ (In(a, InternalBlocks.linkLocal) \/ a.form = "fe80:") =>
                      category \in {"metadata", "link-local"}
               /\ (In(a, InternalBlocks.private) \/ a.form = "fc00:") =>
                      category \in {"metadata", "private"}
               /\ isPrivateOrInternalHost(h) <=> category # "public"
               /\ category \in {"public", "metadata", "loopback", "link-local", "private"}
<1> DEFINE h == AddressHost(a)
           category == hostCategory(h)
<1>1. /\ h.address = a /\ a # None /\ canonicalAddress(a) = a /\ CanonicalHost(h) = h
  BY DEF AddressHost, Plain, canonicalAddress, CanonicalHost
<1>2. CASE a.form = "ipv4"
  <2>1. a.parts \in Four
    BY <1>2 DEF Plain, Addresses, Four
  <2>2. category = ipv4Category(a.parts)
    BY <1>1, <1>2 DEF hostCategory
  <2>3. isPrivateOrInternalHost(h) <=> category # "public"
    BY <1>1, <1>2 DEF isPrivateOrInternalHost, Is4
  <2>4. /\ (a.parts[1] = 169 /\ a.parts[2] = 254) => category \in {"metadata", "link-local"}
        /\ Private(a.parts) => category \in {"metadata", "private"}
        /\ category \in {"public", "metadata", "loopback", "link-local", "private"}
    BY <2>2 DEF ipv4Category, Private
  <2>5. QED
    BY <1>1, <1>2, <2>1, <2>2, <2>3, <2>4, Blocks4
<1>3. CASE a.form # "ipv4"
  <2>1. a.form \in {"::1", "fd00:ec2::254", "fe80:", "fc00:", "global6"}
    BY <1>3 DEF Plain, Addresses, Forms
  <2>2. category = CASE a.form = "::1" -> "loopback" [] a.form = "fd00:ec2::254" -> "metadata"
                     [] a.form = "fe80:" -> "link-local" [] a.form = "fc00:" -> "private"
                     [] a.form = "global6" -> "public"
    BY <1>1, <2>1 DEF hostCategory
  <2>3. isPrivateOrInternalHost(h) <=> a.form \in {"::1", "fd00:ec2::254", "fe80:", "fc00:"}
    BY <1>1, <1>3 DEF isPrivateOrInternalHost, Is4
  <2>4. \A q, n : ~cidrContains(Block(q, n), a)
    BY <1>1, <1>3 DEF cidrContains, Block
  <2>5. /\ ~In(a, MetadataBlocks) /\ ~In(a, InternalBlocks.loopback)
        /\ ~In(a, InternalBlocks.linkLocal) /\ ~In(a, InternalBlocks.private)
    BY <2>4 DEF In, MetadataBlocks, InternalBlocks
  <2>6. QED
    BY <1>1, <2>1, <2>2, <2>3, <2>5
<1>4. QED
  BY <1>2, <1>3

\* An address in the clear that both checks of addresses let pass is one the policy
\* permits, by ranges.
LEMMA CheckedIsPermitted ==
    ASSUME NEW a \in Plain, None \notin Addresses, NEW p,
           EgressAddressAllowed(p, AddressHost(a)), assertHostAllowed(p, AddressHost(a))
    PROVE  Permitted(p, a)
<1> DEFINE h == AddressHost(a)
           category == hostCategory(h)
           metadata == In(a, MetadataBlocks) \/ a.form = "fd00:ec2::254"
           internal == [loopback  |-> In(a, InternalBlocks.loopback) \/ a.form = "::1",
                        linkLocal |-> In(a, InternalBlocks.linkLocal) \/ a.form = "fe80:",
                        private   |-> In(a, InternalBlocks.private) \/ a.form = "fc00:"]
           granted  == p.egress.allowedCidrs # None /\ In(a, p.egress.allowedCidrs)
<1>1. /\ CanonicalHost(h) = h /\ h.address = a /\ a # None
      /\ metadata <=> category = "metadata"
      /\ internal.loopback <=> category = "loopback"
      /\ internal.linkLocal => category \in {"metadata", "link-local"}
      /\ internal.private => category \in {"metadata", "private"}
      /\ isPrivateOrInternalHost(h) <=> category # "public"
  BY Categories
<1>2. /\ ~(p.egress.blockCloudMetadata /\ category = "metadata")
      /\ \A range \in p.egress.deniedCidrs : ~cidrContains(range, a)
      /\ p.egress.allowedCidrs # None => \E range \in p.egress.allowedCidrs : cidrContains(range, a)
      /\ p.egress.requirePublicDns => category = "public"
  BY <1>1 DEF EgressAddressAllowed
<1>3. \/ category = "public"
      \/ granted /\ category # "metadata"
      \/ /\ category = "metadata" => ~p.blockMetadataIPs
         /\ category = "loopback" => ~p.blockLoopbackIPs
         /\ category = "link-local" => ~p.blockLinkLocalIPs
         /\ category = "private" => ~p.blockPrivateIPs
  BY <1>1 DEF assertHostAllowed, isEgressAllowedAddress, In
<1>4. metadata => ~p.blockMetadataIPs /\ ~p.egress.blockCloudMetadata
  BY <1>1, <1>2, <1>3
<1>5. metadata \/ granted \/
      /\ p.blockLoopbackIPs => ~internal.loopback
      /\ p.blockLinkLocalIPs => ~internal.linkLocal
      /\ p.blockPrivateIPs => ~internal.private
  BY <1>1, <1>3
<1>6. p.egress.requirePublicDns => ~metadata /\ \A kind \in DOMAIN internal : ~internal[kind]
  <2>1. p.egress.requirePublicDns =>
            ~metadata /\ ~internal.loopback /\ ~internal.linkLocal /\ ~internal.private
    BY <1>1, <1>2
  <2>2. DOMAIN internal = {"loopback", "linkLocal", "private"}
    OBVIOUS
  <2> HIDE DEF internal
  <2>3. QED
    BY <2>1, <2>2
<1>7. p.egress.allowedCidrs # None => granted
  BY <1>2 DEF In
<1>8. ~In(a, p.egress.deniedCidrs)
  BY <1>2 DEF In
<1>9. QED
  BY <1>4, <1>5, <1>6, <1>7, <1>8 DEF Permitted

\* An address written into a URL that passed the checks is permitted, also one mapped
\* into IPv6: its canonical form is one of the host's candidates.
LEMMA LiteralIsPermitted ==
    ASSUME NEW a \in Addresses, None \notin Addresses, NEW p, NEW h, h.address = a,
           \A k \in hostCandidates(h) : EgressAddressAllowed(p, k) /\ assertHostAllowed(p, k)
    PROVE  Permitted(p, a)
<1> DEFINE c == canonicalAddress(a)
<1>1. AddressHost(c) \in hostCandidates(h)
  BY DEF hostCandidates, CanonicalHost
<1>2. c \in Plain /\ canonicalAddress(c) = c
  <2>1. CASE a.form = "mapped"
    <3>1. a \in [form : {"ipv4", "mapped"}, parts : [1..4 -> 0..255]]
      BY <2>1 DEF Addresses
    <3>2. c = [form |-> "ipv4", parts |-> a.parts]
      BY <2>1, <3>1 DEF canonicalAddress
    <3>3. QED
      BY <3>1, <3>2 DEF Plain, Addresses, canonicalAddress
  <2>2. CASE a.form # "mapped"
    BY <2>2 DEF Plain, canonicalAddress
  <2>3. QED
    BY <2>1, <2>2
<1>3. Permitted(p, c)
  BY <1>1, <1>2, CheckedIsPermitted
<1>4. \A range : cidrContains(range, a) <=> cidrContains(range, c)
  BY <1>2 DEF cidrContains
<1>5. \A blocks : In(a, blocks) <=> In(c, blocks)
  BY <1>4 DEF In
<1>6. \A form \in {"fd00:ec2::254", "::1", "fe80:", "fc00:"} : a.form = form <=> c.form = form
  BY DEF canonicalAddress, Addresses
<1>7. QED
  BY <1>3, <1>5, <1>6 DEF Permitted

\* What holds of the host of a URL that was let pass, at the start or as a redirect.
Guarded ==
    /\ request.url.protocol \in policy.protocols
    /\ policy.enableSSRFProtection =>
           \A h \in hostCandidates(request.url.host) :
               EgressAddressAllowed(policy, h) /\ assertHostAllowed(policy, h)
    /\ request.hops > 0 => MatchesAny(request.url.host, policy.egress.allowRedirectsTo)
    /\ policy.enforceHTTPS /\ origin.protocol = "https" => request.url.protocol = "https"

ContactInv ==
    /\ client \in DOMAIN Policies /\ lookup \in Lookups /\ request.url \in Targets
    /\ DOMAIN request = {"url", "method", "data", "socketPath", "servername", "headers", "hops"}
    /\ request.hops \in Nat
    /\ stage = "checking" => request.url = origin /\ request.hops = 0
    /\ stage \in {"looking", "connecting", "asking", "answered"} /\ ~request.socketPath => Guarded
    /\ stage = "connecting" /\ ~request.socketPath /\ lookup = "pinned" /\ Literal = None =>
           \A a \in records : a \in Found /\ validateResolvedAddress(policy, a)
    /\ stage = "asking" /\ ~request.socketPath =>
           \/ Literal # None /\ contact = Literal
           \/ /\ Literal = None /\ contact \in Found
              /\ lookup # "fetch" => validateResolvedAddress(policy, contact)

LEMMA ContactInit == RedirectInit => ContactInv
BY DEF RedirectInit, ContactInv

LEMMA ContactNext ==
    ASSUME ContactInv, [RedirectNext]_redirectVars, RedirectAssumption
    PROVE  ContactInv'
<1>1. CASE Check
  <2>1. UNCHANGED <<client, lookup, request, origin, records, contact>> /\ stage = "checking"
        /\ stage' \in {"looking", "refused"} /\ (stage' = "looking" => validateRequest(policy, request))
    BY <1>1 DEF Check
  <2>2. stage' = "looking" /\ ~request.socketPath => Guarded
    BY <2>1 DEF validateRequest, validateURL, validateSSRF, Guarded, ContactInv
  <2>3. Guarded' <=> Guarded
    BY <2>1 DEF Guarded, policy
  <2>4. QED
    BY <2>1, <2>2, <2>3 DEF ContactInv
<1>2. CASE Look
  <2>1. UNCHANGED <<client, lookup, request, origin, contact>> /\ stage = "looking"
        /\ stage' \in {"connecting", "refused"}
        /\ (stage' = "connecting" /\ ~request.socketPath /\ lookup = "pinned" /\ Literal = None =>
                \A a \in records' : a \in Found /\ validateResolvedAddress(policy, a))
    BY <1>2 DEF Look, RedirectAssumption
  <2>2. (Guarded' <=> Guarded) /\ policy' = policy /\ Literal' = Literal
    BY <2>1 DEF Guarded, policy, Literal
  <2>3. QED
    BY <2>1, <2>2 DEF ContactInv
<1>3. CASE Connect
  <2>1. UNCHANGED <<client, lookup, request, origin, records>> /\ stage = "connecting"
        /\ stage' = "asking"
        /\ (~request.socketPath => contact' \in Answered)
    BY <1>3 DEF Connect
  <2>2. (Guarded' <=> Guarded) /\ policy' = policy /\ Literal' = Literal
    BY <2>1 DEF Guarded, policy, Literal
  <2>3. ~request.socketPath =>
           \/ Literal # None /\ contact' = Literal
           \/ /\ Literal = None /\ contact' \in Found
              /\ lookup # "fetch" => validateResolvedAddress(policy, contact')
    BY <2>1 DEF Answered, ContactInv, Lookups
  <2>4. QED
    BY <2>1, <2>2, <2>3 DEF ContactInv
<1>4. CASE Answer \/ Finish
  <2>1. UNCHANGED <<client, lookup, request, origin>> /\ stage \in {"asking", "answered"}
        /\ stage' \in {"answered", "done"}
    BY <1>4 DEF Answer, Finish
  <2>2. Guarded' <=> Guarded
    BY <2>1 DEF Guarded, policy
  <2>3. QED
    BY <2>1, <2>2 DEF ContactInv
<1>5. ASSUME NEW status \in RedirectStatuses, NEW to \in Targets, Follow(status, to)
      PROVE  ContactInv'
  <2>1. UNCHANGED <<client, lookup, origin, records, contact>> /\ stage = "answered"
        /\ stage' \in {"looking", "refused"} /\ policy' = policy
    BY <1>5 DEF Follow, policy
  <2>2. CASE stage' = "refused"
    <3>1. UNCHANGED request \/ stage' = "looking"
      BY <1>5 DEF Follow
    <3>2. QED
      BY <2>1, <2>2, <3>1 DEF ContactInv
  <2>3. CASE stage' = "looking"
    <3>1. /\ RedirectAllowed(to) /\ request'.url = to /\ request'.hops = request.hops + 1
          /\ request'.socketPath = request.socketPath /\ DOMAIN request' = DOMAIN request
      <4> DEFINE next == Redirected(status, to)
      <4>1. /\ next.url = to /\ next.hops = request.hops + 1 /\ DOMAIN next = DOMAIN request
            /\ next.socketPath = request.socketPath
        BY DEF Redirected, ContactInv
      <4>2. PICK headers : RedirectAllowed(to) /\ request' = [next EXCEPT !.headers = headers]
        BY <1>5, <2>3 DEF Follow
      <4> HIDE DEF next
      <4>3. QED
        BY <4>1, <4>2
    <3>2. ASSUME ~request.socketPath
          PROVE  Guarded'
      <4>1. validateURL(policy, to) /\ validateRedirect(policy, request.url, to) /\ Guarded
        BY <2>1, <3>1, <3>2 DEF RedirectAllowed, ContactInv
      <4>2. to.protocol \in policy.protocols /\ policy.protocols \subseteq {"http", "https"}
        BY <4>1 DEF validateURL, policy, ContactInv, RedirectAssumption
      <4>3. policy.enableSSRFProtection =>
                \A h \in hostCandidates(to.host) :
                    EgressAddressAllowed(policy, h) /\ assertHostAllowed(policy, h)
        BY <4>1 DEF validateURL, validateSSRF
      <4>4. MatchesAny(to.host, policy.egress.allowRedirectsTo)
        BY <4>1 DEF validateRedirect
      <4>5. policy.enforceHTTPS /\ origin.protocol = "https" => to.protocol = "https"
        BY <4>1, <4>2 DEF validateRedirect, Guarded
      <4>6. QED
        BY <2>1, <3>1, <4>2, <4>3, <4>4, <4>5 DEF Guarded
    <3>3. request'.hops \in Nat
      BY <3>1 DEF ContactInv
    <3>4. QED
      BY <2>1, <2>3, <3>1, <3>2, <3>3 DEF ContactInv
  <2>4. QED
    BY <2>1, <2>2, <2>3
<1>6. CASE UNCHANGED redirectVars
  <2>1. UNCHANGED <<client, lookup, request, origin, stage, records, contact>>
    BY <1>6 DEF redirectVars
  <2>2. (Guarded' <=> Guarded) /\ policy' = policy /\ Literal' = Literal
    BY <2>1 DEF Guarded, policy, Literal
  <2>3. QED
    BY <2>1, <2>2 DEF ContactInv
<1>7. QED
  BY <1>1, <1>2, <1>3, <1>4, <1>5, <1>6 DEF RedirectNext

LEMMA ContactIsAllowed ==
    ASSUME ContactInv, RedirectAssumption
    PROVE  OnlyAllowedContacted
<1> SUFFICES ASSUME stage = "asking", ~request.socketPath
             PROVE  /\ policy.enforceHTTPS /\ origin.protocol = "https" => request.url.protocol = "https"
                    /\ request.hops > 0 => MatchesAny(request.url.host, policy.egress.allowRedirectsTo)
                    /\ \/ lookup = "fetch" \/ ~policy.enableSSRFProtection
                       \/ contact.form = "mapped" /\ contact # Literal
                       \/ Permitted(policy, contact)
  BY DEF OnlyAllowedContacted
<1>1. Guarded /\ request.url \in Targets
  BY DEF ContactInv
<1>2. CASE Literal # None /\ contact = Literal /\ policy.enableSSRFProtection
  <2>1. contact \in Addresses /\ None \notin Addresses /\ contact = request.url.host.address
    BY <1>1, <1>2 DEF Literal, RedirectAssumption
  <2>2. \A h \in hostCandidates(request.url.host) :
            EgressAddressAllowed(policy, h) /\ assertHostAllowed(policy, h)
    BY <1>1, <1>2 DEF Guarded
  <2>3. Permitted(policy, contact)
    BY <2>1, <2>2, LiteralIsPermitted
  <2>4. QED
    BY <1>1, <2>3 DEF Guarded
<1>3. CASE /\ contact \in Found /\ contact.form # "mapped" /\ policy.enableSSRFProtection
           /\ validateResolvedAddress(policy, contact)
  <2>1. contact \in Plain /\ None \notin Addresses
    BY <1>3 DEF Plain, RedirectAssumption
  <2>2. /\ EgressAddressAllowed(policy, AddressHost(contact))
        /\ assertHostAllowed(policy, AddressHost(contact))
    BY <1>3 DEF validateResolvedAddress
  <2>3. Permitted(policy, contact)
    BY <2>1, <2>2, CheckedIsPermitted
  <2>4. QED
    BY <1>1, <2>3 DEF Guarded
<1>4. CASE \/ lookup = "fetch" \/ ~policy.enableSSRFProtection
           \/ contact.form = "mapped" /\ contact # Literal
  BY <1>1, <1>4 DEF Guarded
<1>5. \/ Literal # None /\ contact = Literal
      \/ /\ Literal = None /\ contact \in Found
         /\ lookup # "fetch" => validateResolvedAddress(policy, contact)
  BY DEF ContactInv
<1>6. CASE Literal = None /\ contact \in Found
  <2>1. contact # Literal
    BY <1>6 DEF RedirectAssumption
  <2>2. QED
    BY <1>3, <1>4, <1>5, <2>1, <1>6
<1>7. QED
  BY <1>2, <1>4, <1>5, <1>6

\* Whatever the policies, the targets and what resolvers answer: an address that a
\* request is connected to is, at any hop, one the policy permits by its ranges.
THEOREM ContactsAllowed == RedirectSpec => []OnlyAllowedContacted
<1>1. RedirectInit => ContactInv
  BY ContactInit
<1>2. ContactInv /\ [RedirectNext]_redirectVars => ContactInv'
  BY ContactNext, RedirectAssumption
<1>3. ContactInv => OnlyAllowedContacted
  BY ContactIsAllowed, RedirectAssumption
<1>4. QED
  BY <1>1, <1>2, <1>3, PTL DEF RedirectSpec

-----------------------------------------------------------------------------
\* FetchExchange.

\* Where the first cause is kept: by the request's signal until fetch is called, by the
\* signal of fetch from then on, which hears of the other while nothing has aborted it.
Kept ==
    /\ step \in {"new", "configured", "fetching", "reading", "read", "caught", "done"}
    /\ setup.client \in {"browser", "adapter"} /\ {merged, inner} \subseteq Causes \cup {None}
    /\ step = "new" => first = None
    /\ step \in {"new", "configured"} =>
           ~doomed /\ inner = None /\ timer = "off" /\ "request" \notin listening
    /\ step = "new" => merged = None
    /\ step = "configured" => first = merged
    /\ step \in {"fetching", "reading", "read", "caught"} =>
           /\ first = inner
           /\ inner = None => merged = None /\ "request" \in listening
           /\ timer = "fired" => inner # None
    /\ doomed /\ step # "done" => step \in {"fetching", "caught"} /\ inner # None

Raced == Kept /\ FirstCauseTold

LEMMA RacedInit == FetchInit => Raced
  BY DEF FetchInit, Raced, Kept, FirstCauseTold

\* #fetch of BrowserClient, fetchAdapter and the signals they listen to.
LEMMA RacedStep ==
  ASSUME Raced, [FetchNext]_fetchVars
  PROVE  Raced'
<1> USE FetchAssumption DEF Raced, Kept, FirstCauseTold, Causes, Or, Happens
<1>1. CASE AbortSignal
  BY <1>1 DEF AbortSignal, AbortFetch
<1>2. CASE Cancel
  BY <1>2 DEF Cancel
<1>3. CASE Deliver
  BY <1>3 DEF Deliver, AbortFetch
<1>4. CASE FetchTimesOut
  BY <1>4 DEF FetchTimesOut
<1>5. CASE ConfigureFetch
  BY <1>5 DEF ConfigureFetch, SettleFetch
<1>6. CASE RefuseFetch
  BY <1>6 DEF RefuseFetch, SettleFetch
<1>7. CASE StartFetch
  BY <1>7 DEF StartFetch
<1>8. CASE FetchAnswers \/ BodyIsRead \/ FetchRejects
  BY <1>8 DEF FetchAnswers, BodyIsRead, FetchRejects, FetchGoes
<1>9. CASE ReturnFetch
  BY <1>9 DEF ReturnFetch, SettleFetch, Cleaned
<1>10. CASE CatchFetch
  BY <1>10 DEF CatchFetch, SettleFetch, Cleaned
<1>11. CASE UNCHANGED fetchVars
  BY <1>11 DEF fetchVars
<1>12. QED
  BY <1>1, <1>2, <1>3, <1>4, <1>5, <1>6, <1>7, <1>8, <1>9, <1>10, <1>11 DEF FetchNext

\* The first of a signal, a token and a timeout is the one the caller is told, over
\* every order in which they race with each other and with the answer.
THEOREM FirstCauseWins == FetchSpec => []FirstCauseTold
<1>1. Raced => FirstCauseTold
  BY DEF Raced
<1>2. QED
  BY <1>1, RacedInit, RacedStep, PTL DEF FetchSpec

-----------------------------------------------------------------------------
\* NativeSocket.

USE NativeAssumption

\* The failures since the last open are the attempts, until one is not tried again.
Attempting ==
    /\ native \in {"connecting", "open", "closing", "closed"}
    /\ retried \in 0..Tries /\ drops \in Nat /\ drops <= retried + 1
    /\ native # "closed" \/ pending => drops = retried
    /\ GivenUpForAReason

\* A connection of the platform's WebSocket is given up for a reason (onclose and
\* close() of websocket.ts), for every configuration of reconnects.
THEOREM NeverGivenUpEarly == NativeSpec => []GivenUpForAReason
<1>1. NativeInit => Attempting
  BY DEF NativeInit, Attempting, GivenUpForAReason
<1>2. Attempting /\ [NativeNext]_nativeVars => Attempting'
  <2> SUFFICES ASSUME Attempting, [NativeNext]_nativeVars PROVE Attempting'
    OBVIOUS
  <2> USE DEF Attempting, GivenUpForAReason
  <2>1. CASE Opens
    BY <2>1 DEF Opens
  <2>2. CASE Drops
    <3>1. CASE ReconnectAgain /\ UNCHANGED broken
      <4>1. CASE quit' \/ ~canReconnect(retried)
        BY <2>2, <3>1, <4>1 DEF Drops, ReconnectAgain, canReconnect
      <4>2. CASE ~(quit' \/ ~canReconnect(retried))
        <5>1. retried' = retried + 1 /\ pending' = TRUE
          BY <3>1, <4>2 DEF ReconnectAgain
        <5>2. QED
          BY <2>2, <4>2, <5>1 DEF Drops, canReconnect
      <4>3. QED
        BY <4>1, <4>2
    <3>2. CASE broken' = TRUE /\ UNCHANGED <<retried, pending, delay, quit>>
      BY <2>2, <3>2 DEF Drops
    <3>3. QED
      BY <2>2, <3>1, <3>2 DEF Drops
  <2>3. CASE TimerConnects
    BY <2>3 DEF TimerConnects
  <2>4. CASE Disconnect
    BY <2>4 DEF Disconnect
  <2>5. CASE UNCHANGED nativeVars
    BY <2>5 DEF nativeVars
  <2>6. QED
    BY <2>1, <2>2, <2>3, <2>4, <2>5 DEF NativeNext
<1>3. Attempting => GivenUpForAReason
  BY DEF Attempting
<1>4. QED
  BY <1>1, <1>2, <1>3, PTL DEF NativeSpec

-----------------------------------------------------------------------------
\* BrowserClient.

\* Each key is absent or has an entry: what MarksAlive needs of the types.
Entries == [age : {"fresh", "stale", "dead"}, marked : BOOLEAN] \cup {Gone}
Marking ==
    /\ entries \in [Keys -> Entries] /\ locks \subseteq Keys
    /\ works \in [Tasks -> Keys \cup {Gone}] /\ wants \in [Users -> Keys \cup {Gone}]
    /\ MarksAlive

\* An entry that changes but is not marked anew keeps its mark alive: what every
\* operation but the start and the end of a revalidation does.
LEMMA Unmarked ==
  ASSUME Marking, works' = works, wants' \in [Users -> Keys \cup {Gone}],
         locks' \subseteq locks, entries' \in [Keys -> Entries],
         \A k \in Keys : entries'[k] # Gone /\ entries'[k].marked =>
                             entries[k] # Gone /\ entries[k].marked
  PROVE  Marking'
  BY DEF Marking, MarksAlive, Stored

\* set() writes entries that are not marked.
LEMMA PutUnmarked ==
  ASSUME entries \in [Keys -> Entries], NEW key \in Keys, NEW evicted
  PROVE  /\ Put(key, evicted) \in [Keys -> Entries]
         /\ \A k \in Keys : Put(key, evicted)[k] # Gone /\ Put(key, evicted)[k].marked =>
                                entries[k] # Gone /\ entries[k].marked
  BY DEF Put, Entries

\* finishRevalidating leaves the others as they are.
LEMMA FinishedUnmarked ==
  ASSUME NEW stored \in [Keys -> Entries], NEW key \in Keys
  PROVE  /\ Finished(key, stored) \in [Keys -> Entries]
         /\ Finished(key, stored)[key] # Gone => ~Finished(key, stored)[key].marked
         /\ \A k \in Keys \ {key} : Finished(key, stored)[k] = stored[k]
  BY DEF Finished, Entries

LEMMA RevalidatedMarks ==
  ASSUME Marking, NEW t \in Tasks, Revalidated(t)
  PROVE  Marking'
<1> DEFINE key == works[t]
<1>1. /\ key \in Keys /\ works' = [works EXCEPT ![t] = Gone] /\ locks' = locks \ {key}
  BY DEF Revalidated, Marking
<1>2. /\ entries' \in [Keys -> Entries]
      /\ entries'[key] # Gone => ~entries'[key].marked
      /\ \A k \in Keys \ {key} : entries'[k] # Gone /\ entries'[k].marked =>
                                   entries[k] # Gone /\ entries[k].marked
  <2>1. CASE entries' = Finished(key, entries)
    BY <1>1, <2>1, FinishedUnmarked DEF Marking
  <2>2. ASSUME NEW evicted, entries' = Finished(key, Put(key, evicted))
        PROVE  <1>2
    BY <1>1, <2>2, FinishedUnmarked, PutUnmarked DEF Marking
  <2>3. QED
    BY <2>1, <2>2 DEF Revalidated
<1>3. ASSUME NEW k \in Keys, k \in locks' \/ (entries'[k] # Gone /\ entries'[k].marked)
      PROVE  \E task \in Tasks : works'[task] = k
  <2>1. k # key
    BY <1>1, <1>2, <1>3
  <2>2. PICK task \in Tasks : works[task] = k
    BY <1>1, <1>2, <1>3, <2>1 DEF Marking, MarksAlive, Stored
  <2>3. works'[task] = k
    BY <1>1, <2>1, <2>2 DEF Marking
  <2>4. QED
    BY <2>3
<1>4. wants' = wants /\ works' \in [Tasks -> Keys \cup {Gone}] /\ locks' \subseteq Keys
  BY <1>1 DEF Revalidated, requestVars, Marking
<1>5. MarksAlive'
  BY <1>3 DEF MarksAlive, Stored
<1>6. QED
  BY <1>2, <1>4, <1>5 DEF Marking

LEMMA HitMarks ==
  ASSUME Marking, NEW r \in Users, NEW key \in Keys, Hit(r, key)
  PROVE  Marking'
<1> wants' \in [Users -> Keys \cup {Gone}]
  BY DEF Hit, Marking
<1>1. CASE UNCHANGED <<cacheVars, works>>
  BY <1>1, Unmarked DEF cacheVars, Marking
<1>2. ASSUME NEW t \in Tasks, works[t] = Gone, works' = [works EXCEPT ![t] = key],
             key \in Stored, locks' = locks \cup {key}, entries' = [entries EXCEPT ![key].marked = TRUE]
      PROVE  Marking'
  <2>1. entries' \in [Keys -> Entries] /\ \A k \in Keys \ {key} : entries'[k] = entries[k]
    BY <1>2 DEF Marking, Entries, Stored
  <2>2. works'[t] = key
    BY <1>2 DEF Marking
  <2>3. ASSUME NEW k \in Keys \ {key}, k \in locks' \/ (entries'[k] # Gone /\ entries'[k].marked)
        PROVE  \E task \in Tasks : works'[task] = k
    <3>1. PICK task \in Tasks : works[task] = k
      BY <1>2, <2>1, <2>3 DEF Marking, MarksAlive, Stored
    <3>2. task # t /\ works'[task] = k
      BY <1>2, <3>1, BrowserAssumption DEF Marking
    <3>3. QED
      BY <3>2
  <2>4. works' \in [Tasks -> Keys \cup {Gone}] /\ locks' \subseteq Keys
    BY <1>2 DEF Marking
  <2>5. QED
    BY <2>1, <2>2, <2>3, <2>4 DEF Marking, MarksAlive, Stored
<1>3. QED
  BY <1>1, <1>2 DEF Hit, Markable, cacheVars

LEMMA MarkingStep ==
  ASSUME Marking, [BrowserNext]_browserVars
  PROVE  Marking'
<1>1. ASSUME UNCHANGED <<cacheVars, works>>, wants' \in [Users -> Keys \cup {Gone}] PROVE Marking'
  BY <1>1, Unmarked DEF cacheVars, Marking
<1>2. ASSUME NEW r \in Users,
             Begin(r) \/ Mocked(r) \/ Rejected(r) \/ Ask(r) \/ BrowserAnswers(r) \/ Report(r)
             \/ Fail(r) \/ End(r)
      PROVE  Marking'
  BY <1>1, <1>2 DEF Begin, Mocked, Rejected, Ask, BrowserAnswers, Report, Fail, End, cacheVars, Marking
<1>3. ASSUME NEW r \in Users, Miss(r) PROVE Marking'
  <2> wants' \in [Users -> Keys \cup {Gone}]
    BY <1>3 DEF Miss, Marking
  <2>1. CASE UNCHANGED entries
    BY <1>3, <2>1, <1>1 DEF Miss, cacheVars
  <2>2. ASSUME NEW k \in Keys, entries' = Missed(k) PROVE Marking'
    <3>1. /\ entries' \in [Keys -> Entries]
          /\ \A q \in Keys : entries'[q] # Gone => entries'[q] = entries[q]
      BY <2>2 DEF Missed, Marking, Entries
    <3>2. QED
      BY <1>3, <3>1, Unmarked DEF Miss
  <2>3. QED
    BY <1>3, <2>1, <2>2 DEF Miss
<1>4. ASSUME NEW r \in Users, Settle(r) PROVE Marking'
  <2>1. CASE UNCHANGED entries
    BY <1>4, <2>1, <1>1 DEF Settle, cacheVars, Marking
  <2>2. ASSUME wants[r] # Gone, NEW evicted, entries' = Put(wants[r], evicted) PROVE Marking'
    <3>1. wants[r] \in Keys
      BY <2>2 DEF Marking
    <3>2. QED
      BY <1>4, <2>2, <3>1, PutUnmarked, Unmarked DEF Settle, Marking
  <2>3. QED
    BY <1>4, <2>1, <2>2 DEF Settle, SetOrNot
<1>5. ASSUME NEW r \in Users, NEW k \in Keys, Hit(r, k) PROVE Marking'
  BY <1>5, HitMarks
<1>6. ASSUME NEW t \in Tasks, Revalidated(t) PROVE Marking'
  BY <1>6, RevalidatedMarks
<1>7. ASSUME NEW k \in Keys, Age(k) \/ Delete(k) PROVE Marking'
  <2>1. CASE Age(k)
    <3>1. /\ entries' \in [Keys -> Entries]
          /\ \A q \in Keys : entries'[q] # Gone /\ entries'[q].marked =>
                                 entries[q] # Gone /\ entries[q].marked
      BY <2>1 DEF Age, Aged, Marking, Entries, Stored
    <3>2. QED
      BY <2>1, <3>1, Unmarked DEF Age, requestVars, Marking
  <2>2. CASE Delete(k)
    <3>1. /\ entries' \in [Keys -> Entries]
          /\ \A q \in Keys : entries'[q] # Gone => entries'[q] = entries[q]
      BY <2>2 DEF Delete, Marking, Entries
    <3>2. QED
      BY <2>2, <3>1, Unmarked DEF Delete, requestVars, Marking
  <2>3. QED
    BY <1>7, <2>1, <2>2
<1>8. CASE InvalidateAll
  BY <1>8, Unmarked DEF InvalidateAll, Entries, requestVars, Marking
<1>9. CASE Sweep
  <2>1. /\ entries' \in [Keys -> Entries]
        /\ \A q \in Keys : entries'[q] # Gone => entries'[q] = entries[q]
    BY <1>9 DEF Sweep, Marking, Entries
  <2>2. QED
    BY <1>9, <2>1, Unmarked DEF Sweep, requestVars, Marking
<1>10. CASE Reset \/ UNCHANGED browserVars
  BY <1>1, <1>10 DEF Reset, browserVars, requestVars, Marking
<1>11. QED
  BY <1>2, <1>3, <1>4, <1>5, <1>6, <1>7, <1>8, <1>9, <1>10 DEF BrowserNext

\* No mark and no lock outlives the revalidations of its key (markRevalidating,
\* finishRevalidating, invalidate, the evictions and the sweep of BrowserCache), for
\* any numbers of keys, requests and tasks.
THEOREM MarksNeverLeft == BrowserSpec => []MarksAlive
<1>1. BrowserInit => Marking
  BY DEF BrowserInit, Marking, MarksAlive, Stored, Entries
<1>2. Marking => MarksAlive
  BY DEF Marking
<1>3. QED
  BY <1>1, <1>2, MarkingStep, PTL DEF BrowserSpec
-----------------------------------------------------------------------------
\* Settings: what a client is configured with, and what its requests are sent with.

Value == Int \cup {None}
OptionMaps == [Options -> Value]

\* What someone says of a security policy, and what a client then has.
SaidSecurity == [profile : Profiles \cup {None}, rule : (Nat \ {0}) \cup {None}]
RuledByProfile(s) == s.rule # None /\ s.rule <= 0 => s.rule = ProfileRule(ProfileOf(s))
RoughSecurity == {s \in [profile : Profiles \cup {None}, rule : Value] : RuledByProfile(s)}
OwnSecurity == {s \in [profile : Profiles, rule : Int] : RuledByProfile(s)}

SaidConfigs == [options : OptionMaps, header : Value, security : SaidSecurity]
RoughConfigs == [options : OptionMaps, header : Value, security : RoughSecurity]
ClientConfigs == [options : OptionMaps, header : Value, security : OwnSecurity]
LiveDefaults == [options : OptionMaps, groups : [Groups -> Value], security : SaidSecurity]
Instances == [config : ClientConfigs, defaults : LiveDefaults, own : Value]

\* The browser build fixes the proxy.
Fixed(o) == platform = "browser" /\ o = "proxy"
BuiltFor(custom, o) == BuiltIn(ProfileOf(custom.security))[o]
Complete(options) == \A o \in Options : BuiltIn("standard")[o] # None => options[o] # None
Agreed(options, now) == \A o \in Options : Fixed(o) \/ options[o] = now[o]

LEMMA RulesMerge ==
    /\ \A a, b \in SaidSecurity : Overlaid(a, b) \in SaidSecurity
    /\ \A a \in OwnSecurity, b \in SaidSecurity : SecurityOver(a, b) \in RoughSecurity
    /\ SaidSecurity \subseteq RoughSecurity /\ OwnSecurity \subseteq RoughSecurity
<1> USE SettingAssumption DEF Profiles
<1>1. SaidSecurity \subseteq RoughSecurity /\ OwnSecurity \subseteq RoughSecurity
  BY DEF SaidSecurity, RoughSecurity, OwnSecurity, RuledByProfile, Value
<1>2. ASSUME NEW a \in SaidSecurity, NEW b \in SaidSecurity PROVE Overlaid(a, b) \in SaidSecurity
  BY DEF SaidSecurity, Overlaid
<1>3. ASSUME NEW a \in OwnSecurity, NEW b \in SaidSecurity PROVE SecurityOver(a, b) \in RoughSecurity
  <2>1. CASE b.profile \notin {None, a.profile}
    BY <1>1, <2>1 DEF SecurityOver
  <2>2. CASE b.profile \in {None, a.profile}
    <3> DEFINE rule == IF b.rule # None THEN b.rule ELSE a.rule
    <3>1. Overlaid(a, b) = [profile |-> a.profile, rule |-> rule]
      BY <2>2 DEF OwnSecurity, SaidSecurity, Overlaid
    <3>2. rule \in Int /\ (rule <= 0 => rule = a.rule)
      BY DEF OwnSecurity, SaidSecurity
    <3> HIDE DEF rule
    <3>3. [profile |-> a.profile, rule |-> rule] \in RoughSecurity
      BY <3>2 DEF OwnSecurity, RoughSecurity, RuledByProfile, ProfileOf, Value
    <3>4. QED
      BY <2>2, <3>1, <3>3 DEF SecurityOver
  <2>3. QED BY <2>1, <2>2
<1>4. QED BY <1>1, <1>2, <1>3

LEMMA OptionsMerge ==
    ASSUME NEW a \in OptionMaps, NEW b \in OptionMaps
    PROVE  /\ Overlaid(a, b) \in OptionMaps
           /\ \A o \in Options : Overlaid(a, b)[o] = Later(a[o], b[o])
BY DEF OptionMaps, Overlaid, Later

\* What is built in depends on the profile, whether something is does not.
LEMMA SameGaps ==
    ASSUME NEW custom, NEW o \in Options
    PROVE  BuiltFor(custom, o) = None <=> BuiltIn("standard")[o] = None
BY SettingAssumption DEF BuiltFor, BuiltIn, ProfileRule

\* buildConfig completes the options and gives the profile its rules.
LEMMA Builds ==
    ASSUME NEW custom \in RoughConfigs
    PROVE  /\ buildConfig(custom) \in ClientConfigs
           /\ buildConfig(custom).options =
                [o \in Options |-> IF Fixed(o) THEN 0 ELSE Later(BuiltFor(custom, o), custom.options[o])]
           /\ Complete(buildConfig(custom).options)
           /\ buildConfig(custom).security.profile = ProfileOf(custom.security)
           /\ buildConfig(custom).header = custom.header
<1> DEFINE filled == [o \in Options |-> IF Fixed(o) THEN 0 ELSE Later(BuiltFor(custom, o), custom.options[o])]
           profile == ProfileOf(custom.security)
           rule == Later(ProfileRule(profile), custom.security.rule)
           basis == BuiltIn(profile)
<1>1. /\ basis \in OptionMaps /\ custom.options \in OptionMaps
      /\ \A o \in Options : basis[o] = BuiltFor(custom, o)
      /\ \A o \in Options : basis[o] = None <=> BuiltIn("standard")[o] = None
  BY SettingAssumption DEF BuiltIn, BuiltFor, OptionMaps, Value, RoughConfigs, ProfileRule
<1> HIDE DEF basis
<1>2. filled = IF platform = "browser" THEN [Overlaid(basis, custom.options) EXCEPT !["proxy"] = 0]
               ELSE Overlaid(basis, custom.options)
  <2> DEFINE mixed == Overlaid(basis, custom.options)
  <2>1. mixed \in [Options -> Value]
    BY <1>1, OptionsMerge DEF OptionMaps
  <2>2. \A o \in Options : mixed[o] = Later(BuiltFor(custom, o), custom.options[o])
    BY <1>1, OptionsMerge
  <2> HIDE DEF mixed
  <2>3. CASE platform = "browser"
    <3>1. [mixed EXCEPT !["proxy"] = 0] = [o \in Options |-> IF o = "proxy" THEN 0 ELSE mixed[o]]
      BY <2>1
    <3>2. QED
      BY <2>2, <2>3, <3>1 DEF Fixed, mixed
  <2>4. CASE platform # "browser"
    BY <2>1, <2>2, <2>4 DEF Fixed, mixed
  <2>5. QED
    BY <2>3, <2>4 DEF mixed
<1>3. filled \in OptionMaps /\ Complete(filled)
  BY <1>1, SettingAssumption DEF OptionMaps, Value, Later, Complete
<1>4. [profile |-> profile, rule |-> rule] \in OwnSecurity
  <2>1. custom.security \in RoughSecurity
    BY DEF RoughConfigs
  <2>2. profile \in Profiles /\ rule \in Int
    BY <2>1, SettingAssumption
       DEF RoughSecurity, ProfileOf, Profiles, ProfileRule, Later, Value
  <2>3. rule <= 0 => rule = ProfileRule(profile)
    BY <2>1 DEF RoughSecurity, RuledByProfile, Later
  <2> HIDE DEF profile, rule
  <2>4. ProfileOf([profile |-> profile, rule |-> rule]) = profile
    BY <2>2, SettingAssumption DEF ProfileOf, Profiles
  <2>5. QED
    BY <2>2, <2>3, <2>4 DEF OwnSecurity, RuledByProfile
<1> HIDE DEF filled
<1>5. buildConfig(custom) =
        [options |-> filled, header |-> custom.header, security |-> [profile |-> profile, rule |-> rule]]
  BY <1>2 DEF buildConfig, Completion, basis
<1> HIDE DEF rule
<1>6. QED
  BY <1>3, <1>4, <1>5 DEF ClientConfigs, RoughConfigs, filled

LEMMA MergesConfig ==
    ASSUME NEW config \in ClientConfigs, NEW said \in SaidConfigs
    PROVE  /\ mergeConfig(config, said) \in RoughConfigs
           /\ mergeConfig(config, said).options = Overlaid(config.options, said.options)
<1>1. SecurityOver(config.security, said.security) \in RoughSecurity
  BY RulesMerge DEF ClientConfigs, SaidConfigs
<1>2. Overlaid(config.options, said.options) \in OptionMaps
  BY OptionsMerge DEF ClientConfigs, SaidConfigs
<1>3. Later(config.header, said.header) \in Value
  BY DEF ClientConfigs, SaidConfigs, Later
<1>4. QED
  BY <1>1, <1>2, <1>3 DEF mergeConfig, RoughConfigs

LEMMA Flattens ==
    ASSUME NEW live \in LiveDefaults, NEW method
    PROVE  /\ defaultsToConfig(live, method) \in SaidConfigs
           /\ defaultsToConfig(live, method).options = live.options
<1>1. flattenHeaderDefaults(live.groups, method) \in Value
  BY DEF LiveDefaults, flattenHeaderDefaults, Later, Visible, Groups, Value
<1>2. QED
  BY <1>1 DEF defaultsToConfig, LiveDefaults, SaidConfigs

LEMMA MergesDefaults ==
    ASSUME NEW live \in LiveDefaults, NEW said \in SaidConfigs, NEW method
    PROVE  /\ mergeDefaults(live, said, method) \in SaidConfigs
           /\ mergeDefaults(live, said, method).options = Overlaid(live.options, said.options)
           /\ mergeDefaults(live, said, method).security = Overlaid(live.security, said.security)
           /\ said.header # None => mergeDefaults(live, said, method).header = said.header
<1> DEFINE base == defaultsToConfig(live, method)
<1>1. base \in SaidConfigs /\ base.options = live.options /\ base.security = live.security
  BY Flattens DEF defaultsToConfig
<1> HIDE DEF base
<1>2. Overlaid(base.security, said.security) \in SaidSecurity
  BY <1>1, RulesMerge DEF SaidConfigs
<1>3. Overlaid(base.options, said.options) \in OptionMaps
  BY <1>1, OptionsMerge DEF SaidConfigs
<1>4. Later(base.header, said.header) \in Value
  BY <1>1 DEF SaidConfigs, Later
<1>5. mergeDefaults(live, said, method) =
        [options |-> Overlaid(base.options, said.options), header |-> Later(base.header, said.header),
         security |-> Overlaid(base.security, said.security)]
  BY DEF mergeDefaults, base
<1>6. QED
  BY <1>1, <1>2, <1>3, <1>4, <1>5 DEF SaidConfigs, Later

LEMMA SaidIsRough == SaidConfigs \subseteq RoughConfigs
BY RulesMerge DEF SaidConfigs, RoughConfigs

\* A client as the rest of this section knows it: what it was last told of each option
\* is what a request would be given.
Heard == [now : OptionMaps, born : OptionMaps, profile : Profiles]
Lives(i, h) ==
    /\ i \in Instances /\ h \in Heard
    /\ Complete(i.config.options) /\ Agreed(i.config.options, h.born)
    /\ \A o \in Options : Fixed(o) \/ h.now[o] = Later(i.config.options[o], i.defaults.options[o])

Prepared == [phase : {"built", "sent"}, client : Clients, method : Methods, custom : SaidConfigs,
             layered : BOOLEAN, meant : OptionMaps, options : OptionMaps, proxy : Value, header : Value]
RequestTrue ==
    call.phase \in {"built", "sent"} =>
        /\ call \in Prepared /\ Lives(instance[call.client], heard[call.client])
        /\ call.layered => \A o \in Options : Fixed(o) \/ call.options[o] = call.meant[o]

SettingInv ==
    /\ words \in Nat /\ library \in LiveDefaults
    /\ instance \in [Clients -> {None} \cup Instances] /\ heard \in [Clients -> Heard]
    /\ \A c \in Clients : instance[c] = None \/ Lives(instance[c], heard[c])
    /\ RequestTrue

\* A new client, from whatever it was told.
LEMMA NewLives ==
    ASSUME NEW custom \in RoughConfigs, NEW born \in OptionMaps, NEW profile \in Profiles,
           \A o \in Options : Fixed(o) \/ born[o] = Later(BuiltFor(custom, o), custom.options[o])
    PROVE  Lives(NewClient(custom), [now |-> born, born |-> born, profile |-> profile])
<1> DEFINE config == buildConfig(custom)
           live == createMutableDefaults(config)
<1>1. /\ config \in ClientConfigs /\ Complete(config.options) /\ config.options \in OptionMaps
      /\ \A o \in Options : Fixed(o) \/ config.options[o] = born[o]
  BY Builds DEF ClientConfigs
<1> HIDE DEF config
<1>2. live \in LiveDefaults /\ live.options = config.options
  <2>1. [Unsaid(Groups) EXCEPT !["common"] = config.header] \in [Groups -> Value]
    BY <1>1 DEF Unsaid, Groups, Value, ClientConfigs
  <2>2. Silent.security \in SaidSecurity
    BY DEF Silent, SaidSecurity
  <2>3. QED
    BY <1>1, <2>1, <2>2 DEF createMutableDefaults, LiveDefaults
<1> HIDE DEF live
<1>3. NewClient(custom) = [config |-> config, defaults |-> live, own |-> None]
  BY DEF NewClient, config, live
<1>4. NewClient(custom) \in Instances
  BY <1>1, <1>2, <1>3 DEF Instances, Value
<1>5. QED
  BY <1>1, <1>2, <1>3, <1>4 DEF Lives, Heard, Agreed, Later

\* What a request of the client would be given.
LEMMA Follows ==
    ASSUME NEW c \in Clients, Lives(instance[c], heard[c]), NEW method
    PROVE  /\ ConfigWithDefaults(c, method) \in ClientConfigs
           /\ Agreed(ConfigWithDefaults(c, method).options, heard[c].now)
           /\ Complete(ConfigWithDefaults(c, method).options)
<1> DEFINE i == instance[c]
           said == defaultsToConfig(i.defaults, method)
           both == mergeConfig(i.config, said)
<1>1. /\ i.config \in ClientConfigs /\ i.defaults \in LiveDefaults
      /\ i.config.options \in OptionMaps /\ i.defaults.options \in OptionMaps
  BY DEF Lives, Instances, ClientConfigs, LiveDefaults
<1>2. said \in SaidConfigs /\ said.options = i.defaults.options
  BY <1>1, Flattens
<1> HIDE DEF said
<1>3. both \in RoughConfigs /\ both.options = Overlaid(i.config.options, i.defaults.options)
  BY <1>1, <1>2, MergesConfig
<1>4. \A o \in Options : both.options[o] = Later(i.config.options[o], i.defaults.options[o])
  BY <1>1, <1>3, OptionsMerge
<1>5. ConfigWithDefaults(c, method) = buildConfig(both)
  BY DEF ConfigWithDefaults, both, said
<1> HIDE DEF both
<1>6. \A o \in Options :
        Fixed(o) \/ buildConfig(both).options[o] = Later(BuiltFor(both, o), both.options[o])
  BY <1>3, Builds
<1>7. \A o \in Options : Later(BuiltFor(both, o), both.options[o]) = both.options[o]
  <2>1. \A o \in Options : BuiltFor(both, o) # None => both.options[o] # None
    BY <1>4, SameGaps DEF Lives, Complete, Later
  <2>2. QED
    BY <2>1 DEF Later
<1>8. ConfigWithDefaults(c, method) \in ClientConfigs /\ Complete(ConfigWithDefaults(c, method).options)
  BY <1>3, <1>5, Builds
<1>9. QED
  BY <1>4, <1>5, <1>6, <1>7, <1>8 DEF Lives, Agreed

\* What remains to be shown when a step changes one client.
LEMMA OneChanges ==
    ASSUME SettingInv, NEW c \in Clients, NEW i, NEW h, Lives(i, h),
           instance' = [instance EXCEPT ![c] = i], heard' = [heard EXCEPT ![c] = h],
           words' \in Nat, UNCHANGED <<platform, library, call>>
    PROVE  SettingInv'
<1>1. \A j, g : Lives(j, g)' <=> Lives(j, g)
  BY DEF Lives, Complete, Agreed, Fixed, BuiltIn
<1>2. /\ instance' \in [Clients -> {None} \cup Instances] /\ heard' \in [Clients -> Heard]
      /\ instance'[c] = i /\ heard'[c] = h
      /\ \A d \in Clients \ {c} : instance'[d] = instance[d] /\ heard'[d] = heard[d]
  BY DEF SettingInv, Lives
<1>3. \A d \in Clients : instance'[d] = None \/ Lives(instance'[d], heard'[d])
  BY <1>2 DEF SettingInv
<1>4. RequestTrue'
  <2> SUFFICES ASSUME call.phase \in {"built", "sent"}
               PROVE  /\ call \in Prepared /\ Lives(instance'[call.client], heard'[call.client])
                      /\ call.layered =>
                           \A o \in Options : Fixed(o) \/ call.options[o] = call.meant[o]
    BY <1>1 DEF RequestTrue, Fixed
  <2>1. call.client \in Clients
    BY DEF SettingInv, RequestTrue, Prepared
  <2>2. QED
    BY <1>2, <2>1 DEF SettingInv, RequestTrue
<1>5. QED
  BY <1>1, <1>2, <1>3, <1>4 DEF SettingInv

LEMMA SettingStart == SettingInit => SettingInv
<1> SUFFICES ASSUME SettingInit PROVE SettingInv
  OBVIOUS
<1>1. Silent \in SaidConfigs /\ Silent \in RoughConfigs
  <2>1. Silent.security \in SaidSecurity /\ Silent.header \in Value /\ Silent.options \in OptionMaps
    BY DEF Silent, SaidSecurity, Value, OptionMaps, Unsaid
  <2>2. Silent \in SaidConfigs
    BY <2>1 DEF SaidConfigs, Silent
  <2>3. QED BY <2>2, SaidIsRough
<1> DEFINE born == buildConfig(Silent).options
<1>2. /\ born \in OptionMaps /\ "standard" \in Profiles
      /\ \A o \in Options : Fixed(o) \/ born[o] = Later(BuiltFor(Silent, o), Silent.options[o])
  BY <1>1, Builds DEF ClientConfigs, Profiles
<1>3. Lives(NewClient(Silent), [now |-> born, born |-> born, profile |-> "standard"])
  BY <1>1, <1>2, NewLives
<1> HIDE DEF born
<1>4. Root \in Clients
  BY SettingAssumption DEF Root, Clients
<1>5. /\ instance = [c \in Clients |-> IF c = Root THEN NewClient(Silent) ELSE None]
      /\ heard = [c \in Clients |-> [now |-> born, born |-> born, profile |-> "standard"]]
      /\ words = 0 /\ call.phase = "idle"
  BY DEF SettingInit, Idle, born
<1>6. library \in LiveDefaults
  BY DEF SettingInit, LiveDefaults, Silent, SaidSecurity, Unsaid, OptionMaps, Value
<1>7. instance \in [Clients -> {None} \cup Instances] /\ heard \in [Clients -> Heard]
  BY <1>3, <1>5 DEF Lives
<1>8. QED
  BY <1>3, <1>5, <1>6, <1>7 DEF SettingInv, RequestTrue

\* What may be set on an object of defaults, or deleted from one.
LEMMA OptionSet ==
    ASSUME words \in Nat, NEW live \in LiveDefaults, NEW o \in Options, NEW w \in Value
    PROVE  /\ [live EXCEPT !.options[o] = w] \in LiveDefaults
           /\ [live EXCEPT !.options[o] = w].options = [live.options EXCEPT ![o] = w]
BY DEF LiveDefaults, OptionMaps

LEMMA OthersSet ==
    ASSUME words \in Nat, NEW live \in LiveDefaults, NEW d \in Others(live) \cup OthersDeleted(live)
    PROVE  d \in LiveDefaults /\ d.options = live.options
<1>1. Word \in Nat \ {0} /\ -Word \in Int
  BY DEF Word
<1>2. CASE \E g \in Groups, w \in {Word, -Word, None} : d = [live EXCEPT !.groups[g] = w]
  BY <1>1, <1>2 DEF LiveDefaults, Value
<1>3. CASE d \in {[live EXCEPT !.groups = [Unsaid(Groups) EXCEPT !["common"] = Word]],
                  [live EXCEPT !.groups = Unsaid(Groups)]}
  <2>1. Unsaid(Groups) \in [Groups -> Value] /\ [Unsaid(Groups) EXCEPT !["common"] = Word] \in [Groups -> Value]
    <3>1. "common" \in Groups
      BY DEF Groups
    <3>2. QED
      BY <1>1, <3>1 DEF Unsaid, Value
  <2>2. QED
    BY <1>3, <2>1 DEF LiveDefaults
<1>4. CASE \E s \in SaidSecurity : d = [live EXCEPT !.security = s]
  BY <1>4 DEF LiveDefaults
<1>5. Silent.security \in SaidSecurity
  BY DEF Silent, SaidSecurity
<1>6. [profile : Profiles \cup {None}, rule : {None, Word}] \subseteq SaidSecurity
  BY <1>1 DEF SaidSecurity
<1>7. d \in SetGroup(live) \cup SetSecurity(live) \cup GroupsDeleted(live) \cup {SecurityDeleted(live)}
  BY DEF Others, OthersDeleted
<1>8. CASE d \in SetGroup(live) \cup GroupsDeleted(live)
  BY <1>2, <1>3, <1>8 DEF SetGroup, GroupsDeleted
<1>9. CASE d \in SetSecurity(live) \cup {SecurityDeleted(live)}
  BY <1>4, <1>5, <1>6, <1>9 DEF SetSecurity, SecurityDeleted
<1>10. QED
  BY <1>7, <1>8, <1>9

LEMMA CustomsSaid ==
    ASSUME words \in Nat, NEW custom \in Customs
    PROVE  custom \in SaidConfigs /\ (custom.header # None => custom.header \in Int \ {0})
<1>1. Word \in Nat \ {0} /\ -Word \in Int \ {0}
  BY DEF Word
<1>2. PICK O \in SUBSET Spoken, h \in IF "headers" \in about THEN {None, Word, -Word} ELSE {None},
           p \in IF "security" \in about THEN Profiles \cup {None} ELSE {None},
           r \in IF "security" \in about THEN {None, Word} ELSE {None} :
        custom = Saying(O, h, p, r)
  BY DEF Customs
<1>3. h \in {None, Word, -Word} /\ p \in Profiles \cup {None} /\ r \in {None, Word}
  OBVIOUS
<1>4. custom = [options |-> [o \in Options |-> IF o \in O THEN Word ELSE None],
                header |-> h, security |-> [profile |-> p, rule |-> r]]
  BY <1>2 DEF Saying
<1>5. /\ [o \in Options |-> IF o \in O THEN Word ELSE None] \in OptionMaps
      /\ h \in Value /\ [profile |-> p, rule |-> r] \in SaidSecurity
  BY <1>1, <1>3 DEF OptionMaps, Value, SaidSecurity
<1>6. QED
  BY <1>1, <1>3, <1>4, <1>5 DEF SaidConfigs

LEMMA BuildsOptions ==
    ASSUME NEW custom \in RoughConfigs
    PROVE  /\ buildConfig(custom).options \in OptionMaps
           /\ \A o \in Options :
                Fixed(o) \/ buildConfig(custom).options[o] = Later(BuiltFor(custom, o), custom.options[o])
BY Builds DEF ClientConfigs

LEMMA WithFixedProxy ==
    ASSUME NEW a \in OptionMaps, NEW b,
           b = IF platform = "browser" THEN [a EXCEPT !["proxy"] = 0] ELSE a
    PROVE  b \in OptionMaps /\ \A o \in Options : Fixed(o) \/ b[o] = a[o]
<1>1. a \in [Options -> Value] /\ 0 \in Value
  BY DEF OptionMaps, Value
<1>2. CASE platform = "browser"
  <2>1. b = [o \in Options |-> IF o = "proxy" THEN 0 ELSE a[o]]
    BY <1>1, <1>2
  <2>2. QED
    BY <1>1, <1>2, <2>1 DEF OptionMaps, Fixed
<1>3. CASE platform # "browser"
  BY <1>3
<1>4. QED BY <1>2, <1>3

\* What a request is prepared with.
Layered(c, way) == c # Root \/ way # "combined"
Shared(c) == IF c = Root THEN library.options ELSE Unsaid(Options)
Meant(c, custom) == Overlaid(Overlaid(heard[c].now, Shared(c)), custom.options)
Built(c, method, custom, way) ==
    LET given == Completed(c, method, custom, way)
        defaults == ConfigWithDefaults(c, method)
    IN  [phase |-> "built", client |-> c, method |-> method, custom |-> custom,
         layered |-> Layered(c, way), meant |-> Meant(c, custom), options |-> RequestOptions(defaults, given), proxy |-> None,
         header |-> Header(c, defaults, given)]

LEMMA PreparedAs ==
    ASSUME SettingInv, NEW c \in Clients, NEW method \in Methods, Prepare(c, method)
    PROVE  /\ instance[c] # None /\ Lives(instance[c], heard[c])
           /\ words' \in Nat /\ UNCHANGED <<platform, library, instance, heard>>
           /\ \E custom \in Customs, way \in Ways(method) :
                call' = IF Unsafe(c) THEN [phase |-> "failed", client |-> c] ELSE Built(c, method, custom, way)
<1>1. /\ instance[c] # None /\ Lives(instance[c], heard[c])
      /\ UNCHANGED <<platform, library, instance, heard>>
  BY DEF Prepare, SettingInv
<1>2. PICK custom \in Customs, way \in Ways(method) :
        /\ Numbered(custom)
        /\ call' = IF Unsafe(c) THEN [phase |-> "failed", client |-> c] ELSE Built(c, method, custom, way)
  BY DEF Prepare, Built, Meant, Shared, Layered
<1>3. words' \in Nat
  BY <1>2 DEF Numbered, Says, Word, SettingInv
<1>4. QED BY <1>1, <1>2, <1>3

\* The options of a request are those that were meant where the library's were merged in,
\* and none is made up where they were not; its header is of some value.
LEMMA BuiltAsMeant ==
    ASSUME SettingInv, NEW c \in Clients, Lives(instance[c], heard[c]), NEW method \in Methods,
           NEW custom \in SaidConfigs, NEW way
    PROVE  LET given == Completed(c, method, custom, way)
               defaults == ConfigWithDefaults(c, method)
               b == Built(c, method, custom, way)
           IN  /\ b \in Prepared
               /\ b.layered => \A o \in Options : Fixed(o) \/ b.options[o] = b.meant[o]
               /\ b.layered =>
                    \A o \in Options :
                       Fixed(o) \/ b.meant[o] = Later(defaults.options[o], given.options[o])
               /\ \A o \in Options :
                    \/ Fixed(o) \/ b.meant[o] # None
                    \/ Later(defaults.options[o], given.options[o]) = None
               /\ custom.header # None => given.header = custom.header
<1> DEFINE given == Completed(c, method, custom, way)
           defaults == ConfigWithDefaults(c, method)
           both == Overlaid(heard[c].now, Shared(c))
           options == RequestOptions(defaults, given)
           header == Header(c, defaults, given)
<1>1. heard[c].now \in OptionMaps /\ library \in LiveDefaults
  BY DEF Heard, Lives, SettingInv
<1>2. /\ Shared(c) \in OptionMaps /\ custom.options \in OptionMaps
      /\ given \in SaidConfigs /\ given.options \in OptionMaps
      /\ \A o \in Options :
           given.options[o] = IF Layered(c, way) THEN Later(Shared(c)[o], custom.options[o])
                              ELSE custom.options[o]
      /\ custom.header # None => given.header = custom.header
  <2>1. /\ Unsaid(Options) \in OptionMaps /\ library.options \in OptionMaps
        /\ \A o \in Options : Unsaid(Options)[o] = None
    BY <1>1 DEF Unsaid, OptionMaps, Value, LiveDefaults
  <2>2. custom.options \in OptionMaps
    BY DEF SaidConfigs
  <2>3. CASE c = Root /\ way # "combined"
    <3>1. PICK m : given = mergeDefaults(library, custom, m)
      BY <2>3 DEF Completed
    <3>2. /\ given \in SaidConfigs /\ given.options = Overlaid(library.options, custom.options)
          /\ custom.header # None => given.header = custom.header
      BY <1>1, <3>1, MergesDefaults
    <3> HIDE DEF given
    <3>3. QED
      BY <2>1, <2>2, <2>3, <3>2, OptionsMerge DEF Shared, Layered
  <2>4. CASE ~(c = Root /\ way # "combined")
    <3>1. given = custom /\ (Layered(c, way) => c # Root)
      BY <2>4 DEF Completed, Layered
    <3>2. Shared(c) \in OptionMaps /\ (c # Root => \A o \in Options : Shared(c)[o] = None)
      BY <2>1 DEF Shared
    <3> HIDE DEF given
    <3>3. QED
      BY <2>2, <3>1, <3>2 DEF Later
  <2>5. QED BY <2>3, <2>4
<1>3. /\ defaults \in ClientConfigs /\ defaults.options \in OptionMaps
      /\ Agreed(defaults.options, heard[c].now)
  BY Follows DEF ClientConfigs
<1> HIDE DEF given, defaults
<1>4. both \in OptionMaps /\ \A o \in Options : both[o] = Later(heard[c].now[o], Shared(c)[o])
  BY <1>1, <1>2, OptionsMerge
<1>5. /\ Meant(c, custom) \in OptionMaps
      /\ \A o \in Options : Meant(c, custom)[o] = Later(both[o], custom.options[o])
  <2>1. Meant(c, custom) = Overlaid(both, custom.options)
    BY DEF Meant
  <2> HIDE DEF both
  <2>2. QED
    BY <1>2, <1>4, <2>1, OptionsMerge
<1>6. /\ options \in OptionMaps
      /\ \A o \in Options : Fixed(o) \/ options[o] = Later(defaults.options[o], given.options[o])
  <2> DEFINE over == Overlaid(defaults.options, given.options)
  <2>1. over \in OptionMaps /\ \A o \in Options : over[o] = Later(defaults.options[o], given.options[o])
    BY <1>2, <1>3, OptionsMerge
  <2>2. options = IF platform = "browser" THEN [over EXCEPT !["proxy"] = 0] ELSE over
    BY DEF RequestOptions
  <2> HIDE DEF over, options
  <2>3. options \in OptionMaps /\ \A o \in Options : Fixed(o) \/ options[o] = over[o]
    BY <2>1, <2>2, WithFixedProxy
  <2>4. QED BY <2>1, <2>3
<1>7. header \in Value
  <2>1. /\ instance[c].own \in Value /\ defaults.header \in Value /\ given.header \in Value
        /\ defaults.options["auth"] \in Value /\ given.options["auth"] \in Value
    BY <1>2, <1>3 DEF Lives, Instances, ClientConfigs, SaidConfigs, OptionMaps, Options
  <2>2. QED
    BY <2>1 DEF Header, Later
<1>8. Built(c, method, custom, way) =
        [phase |-> "built", client |-> c, method |-> method, custom |-> custom,
         layered |-> Layered(c, way), meant |-> Meant(c, custom), options |-> options,
         proxy |-> None, header |-> header]
  BY DEF Built, given, defaults
<1> HIDE DEF options, header, both
<1>9. Built(c, method, custom, way) \in Prepared
  BY <1>5, <1>6, <1>7, <1>8 DEF Prepared, Value, Layered
<1>10. ASSUME NEW o \in Options, ~Fixed(o)
       PROVE  /\ Layered(c, way) => Meant(c, custom)[o] = Later(defaults.options[o], given.options[o])
              /\ Meant(c, custom)[o] # None \/ Later(defaults.options[o], given.options[o]) = None
  <2>1. defaults.options[o] = heard[c].now[o]
    BY <1>3, <1>10 DEF Agreed
  <2>2. Meant(c, custom)[o] = Later(Later(heard[c].now[o], Shared(c)[o]), custom.options[o])
    BY <1>4, <1>5
  <2>3. QED
    BY <1>2, <2>1, <2>2 DEF Later
<1>11. QED
  BY <1>2, <1>6, <1>8, <1>9, <1>10 DEF given, defaults

LEMMA SettingStep == SettingInv /\ [SettingNext]_settingVars => SettingInv'
<1> SUFFICES ASSUME SettingInv, [SettingNext]_settingVars PROVE SettingInv'
  OBVIOUS
<1>0. /\ words \in Nat /\ Word \in Nat \ {0} /\ Word \in Value /\ None \in Value /\ Word # None
      /\ library \in LiveDefaults
  BY SettingAssumption DEF SettingInv, Word, Value
<1>1. \A j, g : platform' = platform => (Lives(j, g)' <=> Lives(j, g))
  BY DEF Lives, Complete, Agreed, Fixed, BuiltIn
<1>2. ASSUME NEW c \in Clients, instance[c] # None
      PROVE  /\ Lives(instance[c], heard[c]) /\ instance[c] \in Instances /\ heard[c] \in Heard
             /\ instance[c].config \in ClientConfigs /\ instance[c].defaults \in LiveDefaults
             /\ instance[c].config.options \in OptionMaps /\ instance[c].defaults.options \in OptionMaps
  BY <1>2 DEF SettingInv, Lives, Instances, ClientConfigs, LiveDefaults
<1>3. CASE UNCHANGED settingVars
  BY <1>1, <1>3 DEF settingVars, SettingInv, RequestTrue, Fixed
<1>4. CASE ChangeLibrary
  <2>1. /\ UNCHANGED <<platform, instance, heard, call>> /\ words' \in Nat
        /\ \/ \E o \in Options, w \in {Word, None} : library' = [library EXCEPT !.options[o] = w]
           \/ library' \in Others(library) \cup OthersDeleted(library)
    BY <1>0, <1>4 DEF ChangeLibrary, Says, Spoken, SetOption, Deleted
  <2>2. library' \in LiveDefaults
    BY <1>0, <2>1, OptionSet, OthersSet
  <2>3. QED
    BY <1>1, <2>1, <2>2 DEF SettingInv, RequestTrue, Fixed
<1>5. ASSUME NEW c \in Clients, SetDefault(c) \/ DeleteDefault(c) PROVE SettingInv'
  <2> DEFINE live == instance[c].defaults
  <2>1. instance[c] # None /\ words' \in Nat /\ UNCHANGED <<platform, library, call>>
    BY <1>0, <1>5 DEF SetDefault, DeleteDefault, Reachable, Says
  <2>2. ASSUME NEW o \in Options, NEW w \in Value, NEW d \in LiveDefaults, NEW now \in Value,
               d.options = [live.options EXCEPT ![o] = w],
               Fixed(o) \/ now = Later(instance[c].config.options[o], w),
               instance' = [instance EXCEPT ![c].defaults = d],
               heard' = [heard EXCEPT ![c].now[o] = now]
        PROVE  SettingInv'
    <3> DEFINE i == [instance[c] EXCEPT !.defaults = d]
               h == [heard[c] EXCEPT !.now[o] = now]
    <3>1. /\ i \in Instances /\ i.config = instance[c].config /\ i.defaults = d
      BY <1>2, <2>1 DEF Instances
    <3>2. h \in Heard /\ h.born = heard[c].born /\ h.now = [heard[c].now EXCEPT ![o] = now]
      BY <1>2, <2>1, <2>2 DEF Heard, OptionMaps
    <3>3. heard[c].now \in OptionMaps
      BY <1>2, <2>1 DEF Heard
    <3> HIDE DEF i, h
    <3>4. \A p \in Options : Fixed(p) \/ h.now[p] = Later(i.config.options[p], i.defaults.options[p])
      BY <1>2, <2>1, <2>2, <3>1, <3>2, <3>3 DEF Lives, OptionMaps
    <3>5. Lives(i, h)
      BY <1>2, <2>1, <3>1, <3>2, <3>4 DEF Lives
    <3>6. instance' = [instance EXCEPT ![c] = i] /\ heard' = [heard EXCEPT ![c] = h]
      BY <2>2 DEF i, h
    <3>7. QED
      BY <2>1, <3>5, <3>6, OneChanges
  <2>3. ASSUME NEW d \in Others(live) \cup OthersDeleted(live),
               instance' = [instance EXCEPT ![c].defaults = d], heard' = heard
        PROVE  SettingInv'
    <3> DEFINE i == [instance[c] EXCEPT !.defaults = d]
    <3>1. d \in LiveDefaults /\ d.options = live.options
      BY <1>0, <1>2, <2>1, OthersSet
    <3>2. i \in Instances /\ i.config = instance[c].config /\ i.defaults = d
      BY <1>2, <2>1, <3>1 DEF Instances
    <3> HIDE DEF i
    <3>3. Lives(i, heard[c])
      BY <1>2, <2>1, <3>1, <3>2 DEF Lives
    <3>4. instance' = [instance EXCEPT ![c] = i] /\ heard' = [heard EXCEPT ![c] = heard[c]]
      BY <2>3 DEF i, SettingInv
    <3>5. QED
      BY <2>1, <3>3, <3>4, OneChanges
  <2>4. CASE \E o \in Spoken : /\ instance' = [instance EXCEPT ![c].defaults = SetOption(@, o)]
                               /\ Tell(c, o, Word)
    <3>1. PICK o \in Options : /\ instance' = [instance EXCEPT ![c].defaults = SetOption(live, o)]
                               /\ Tell(c, o, Word)
      BY <2>4 DEF Spoken
    <3>2. Later(instance[c].config.options[o], Word) = Word
      BY <1>0 DEF Later
    <3>3. SetOption(live, o) \in LiveDefaults /\ SetOption(live, o).options = [live.options EXCEPT ![o] = Word]
      BY <1>0, <1>2, <2>1, OptionSet DEF SetOption
    <3>4. QED
      BY <1>0, <2>2, <3>1, <3>2, <3>3 DEF Tell
  <2>5. CASE \E o \in Spoken : /\ instance' = [instance EXCEPT ![c].defaults = Deleted(@, o)]
                               /\ Tell(c, o, heard[c].born[o])
    <3>1. PICK o \in Options : /\ instance' = [instance EXCEPT ![c].defaults = Deleted(live, o)]
                               /\ Tell(c, o, heard[c].born[o])
      BY <2>5 DEF Spoken
    <3>2. heard[c].born[o] \in Value /\ (Fixed(o) \/ heard[c].born[o] = instance[c].config.options[o])
      BY <1>2, <2>1 DEF Heard, OptionMaps, Lives, Agreed
    <3>3. Deleted(live, o) \in LiveDefaults /\ Deleted(live, o).options = [live.options EXCEPT ![o] = None]
      BY <1>0, <1>2, <2>1, OptionSet DEF Deleted
    <3>4. Later(instance[c].config.options[o], None) = instance[c].config.options[o]
      BY DEF Later
    <3>5. QED
      BY <1>0, <2>2, <3>1, <3>2, <3>3, <3>4 DEF Tell
  <2>6. QED
    BY <1>5, <2>3, <2>4, <2>5 DEF SetDefault, DeleteDefault
<1>6. ASSUME NEW c \in Clients, SetTimeout(c) PROVE SettingInv'
  <2> DEFINE config == [instance[c].config EXCEPT !.options["timeout"] = Word]
             live == [instance[c].defaults EXCEPT !.options["timeout"] = Word]
             i == [instance[c] EXCEPT !.config = config, !.defaults = live]
             h == [heard[c] EXCEPT !.now["timeout"] = Word, !.born["timeout"] = Word]
  <2>1. /\ instance[c] # None /\ words' \in Nat /\ UNCHANGED <<platform, library, call>>
        /\ "timeout" \in Options
    BY <1>0, <1>6 DEF SetTimeout, Says, Options
  <2>2. /\ config \in ClientConfigs
        /\ config.options = [instance[c].config.options EXCEPT !["timeout"] = Word]
    BY <1>0, <1>2, <2>1 DEF ClientConfigs, OptionMaps
  <2>3. /\ live \in LiveDefaults
        /\ live.options = [instance[c].defaults.options EXCEPT !["timeout"] = Word]
    BY <1>0, <1>2, <2>1, OptionSet
  <2>4. /\ h \in Heard /\ h.now = [heard[c].now EXCEPT !["timeout"] = Word]
        /\ h.born = [heard[c].born EXCEPT !["timeout"] = Word]
        /\ heard[c].now \in OptionMaps /\ heard[c].born \in OptionMaps
    BY <1>0, <1>2, <2>1 DEF Heard, OptionMaps
  <2>5. /\ instance' = [instance EXCEPT ![c] = i] /\ heard' = [heard EXCEPT ![c] = h]
    BY <1>6 DEF SetTimeout
  <2> HIDE DEF config, live
  <2>6. i \in Instances /\ i.config = config /\ i.defaults = live
    BY <1>2, <2>1, <2>2, <2>3 DEF Instances
  <2> HIDE DEF i, h
  <2>7. \A o \in Options : o # "timeout" =>
          /\ i.config.options[o] = instance[c].config.options[o]
          /\ i.defaults.options[o] = instance[c].defaults.options[o]
          /\ h.now[o] = heard[c].now[o] /\ h.born[o] = heard[c].born[o]
    BY <1>2, <2>1, <2>2, <2>3, <2>4, <2>6 DEF OptionMaps
  <2>8. /\ i.config.options["timeout"] = Word /\ i.defaults.options["timeout"] = Word
        /\ h.now["timeout"] = Word /\ h.born["timeout"] = Word
    BY <1>2, <2>1, <2>2, <2>3, <2>4, <2>6 DEF OptionMaps
  <2>9. Lives(i, h)
    BY <1>0, <1>2, <2>1, <2>4, <2>6, <2>7, <2>8 DEF Lives, Complete, Agreed, Later
  <2>10. QED
    BY <2>1, <2>5, <2>9, OneChanges
<1>7. ASSUME NEW c \in Clients, SetHeader(c) \/ RemoveHeader(c) PROVE SettingInv'
  <2>1. PICK w \in Value : instance' = [instance EXCEPT ![c].own = w]
    BY <1>0, <1>7 DEF SetHeader, RemoveHeader
  <2> DEFINE i == [instance[c] EXCEPT !.own = w]
  <2>2. /\ instance[c] # None /\ words' \in Nat /\ UNCHANGED <<platform, library, call, heard>>
    BY <1>0, <1>7 DEF SetHeader, RemoveHeader, Says
  <2>3. i \in Instances /\ i.config = instance[c].config /\ i.defaults = instance[c].defaults
    BY <1>2, <2>2 DEF Instances
  <2>4. instance' = [instance EXCEPT ![c] = i] /\ heard' = [heard EXCEPT ![c] = heard[c]]
    BY <2>1, <2>2 DEF SettingInv
  <2> HIDE DEF i
  <2>5. Lives(i, heard[c])
    BY <1>2, <2>2, <2>3 DEF Lives
  <2>6. QED
    BY <2>2, <2>4, <2>5, OneChanges
<1>8. ASSUME NEW c \in Clients, CreateFromLibrary(c) PROVE SettingInv'
  <2>1. PICK custom \in Customs :
          LET config == buildConfig([custom EXCEPT !.options = Overlaid(library.options, @),
                                                   !.security = Overlaid(library.security, @)])
              born == config.options
          IN  /\ Numbered(custom)
              /\ instance' = [instance EXCEPT ![c] = NewClient(mergeDefaults(library, custom, None))]
              /\ heard' = [heard EXCEPT ![c] =
                             [now |-> born, born |-> born, profile |-> config.security.profile]]
    BY <1>8 DEF CreateFromLibrary
  <2> DEFINE given == mergeDefaults(library, custom, None)
             said == [custom EXCEPT !.options = Overlaid(library.options, @),
                                    !.security = Overlaid(library.security, @)]
             born == buildConfig(said).options
             profile == buildConfig(said).security.profile
  <2>2. custom \in SaidConfigs /\ UNCHANGED <<platform, library, call>> /\ words' \in Nat
    BY <1>0, <1>8, <2>1, CustomsSaid DEF CreateFromLibrary, Numbered, Says
  <2>3. Overlaid(library.options, custom.options) \in OptionMaps
    BY <1>0, <2>2, OptionsMerge DEF LiveDefaults, SaidConfigs
  <2>4. /\ given \in RoughConfigs /\ given.options = Overlaid(library.options, custom.options)
        /\ given.security = Overlaid(library.security, custom.security)
    BY <1>0, <2>2, MergesDefaults, SaidIsRough
  <2>5. /\ said \in RoughConfigs /\ said.options = Overlaid(library.options, custom.options)
        /\ said.security = Overlaid(library.security, custom.security)
    <3>1. Overlaid(library.security, custom.security) \in SaidSecurity
      BY <1>0, <2>2, RulesMerge DEF LiveDefaults, SaidConfigs
    <3>2. QED
      BY <2>2, <2>3, <3>1, SaidIsRough DEF SaidConfigs
  <2> HIDE DEF given, said
  <2>6. /\ born \in OptionMaps
        /\ \A o \in Options : Fixed(o) \/ born[o] = Later(BuiltFor(given, o), given.options[o])
        /\ profile \in Profiles
    <3>1. /\ born \in OptionMaps
          /\ \A o \in Options : Fixed(o) \/ born[o] = Later(BuiltFor(said, o), said.options[o])
      BY <2>5, BuildsOptions
    <3>2. \A o \in Options : BuiltFor(given, o) = BuiltFor(said, o)
      BY <2>4, <2>5 DEF BuiltFor
    <3>3. profile \in Profiles
      BY <2>5, Builds DEF ClientConfigs, OwnSecurity
    <3> HIDE DEF born, profile
    <3>4. QED
      BY <2>4, <2>5, <3>1, <3>2, <3>3
  <2>7. instance' = [instance EXCEPT ![c] = NewClient(given)]
        /\ heard' = [heard EXCEPT ![c] = [now |-> born, born |-> born, profile |-> profile]]
    BY <2>1 DEF given, said
  <2> HIDE DEF born, profile
  <2>8. Lives(NewClient(given), [now |-> born, born |-> born, profile |-> profile])
    BY <2>4, <2>6, NewLives
  <2>9. QED
    BY <2>2, <2>7, <2>8, OneChanges
<1>9. ASSUME NEW p \in Clients, NEW c \in Clients, CreateFrom(p, c) PROVE SettingInv'
  <2>1. PICK custom \in Customs :
          LET born == buildConfig([custom EXCEPT !.options = Overlaid(heard[p].now, @)]).options
          IN  /\ Numbered(custom)
              /\ instance' = [instance EXCEPT ![c] =
                                NewClient(mergeConfig(ConfigWithDefaults(p, None), custom))]
              /\ heard' = [heard EXCEPT ![c] =
                             [now |-> born, born |-> born, profile |-> heard[p].profile]]
    BY <1>9 DEF CreateFrom
  <2> DEFINE parent == ConfigWithDefaults(p, None)
             given == mergeConfig(parent, custom)
             said == [custom EXCEPT !.options = Overlaid(heard[p].now, @)]
             born == buildConfig(said).options
  <2>2. custom \in SaidConfigs /\ UNCHANGED <<platform, library, call>> /\ words' \in Nat
    BY <1>0, <1>9, <2>1, CustomsSaid DEF CreateFrom, Numbered, Says
  <2>3. Lives(instance[p], heard[p]) /\ heard[p].now \in OptionMaps /\ heard[p].profile \in Profiles
    BY <1>2, <1>9 DEF CreateFrom, Reachable, Heard
  <2>4. /\ parent \in ClientConfigs /\ Agreed(parent.options, heard[p].now)
        /\ parent.options \in OptionMaps /\ Complete(parent.options)
    BY <2>3, Follows DEF ClientConfigs
  <2> HIDE DEF parent
  <2>5. given \in RoughConfigs /\ given.options = Overlaid(parent.options, custom.options)
    BY <2>2, <2>4, MergesConfig
  <2>6. /\ Overlaid(heard[p].now, custom.options) \in OptionMaps
        /\ \A o \in Options : Fixed(o) \/
             Overlaid(heard[p].now, custom.options)[o] = Overlaid(parent.options, custom.options)[o]
    BY <2>2, <2>3, <2>4, OptionsMerge DEF SaidConfigs, Agreed
  <2>7. said \in RoughConfigs /\ said.options = Overlaid(heard[p].now, custom.options)
    BY <2>2, <2>6, SaidIsRough DEF SaidConfigs
  <2> HIDE DEF given, said
  <2>8. /\ born \in OptionMaps
        /\ \A o \in Options : Fixed(o) \/ born[o] = Later(BuiltFor(given, o), given.options[o])
    <3>1. /\ born \in OptionMaps
          /\ \A o \in Options : Fixed(o) \/ born[o] = Later(BuiltFor(said, o), said.options[o])
      BY <2>7, BuildsOptions
    <3>2. ASSUME NEW o \in Options
          PROVE  Later(BuiltFor(given, o), given.options[o]) = Later(BuiltFor(said, o), given.options[o])
      <4>1. BuiltIn("standard")[o] # None => given.options[o] # None
        BY <2>2, <2>4, <2>5, OptionsMerge DEF Complete, Later, SaidConfigs
      <4>2. QED
        BY <4>1, SameGaps DEF Later
    <3>3. QED
      BY <2>5, <2>6, <2>7, <3>1, <3>2
  <2>9. instance' = [instance EXCEPT ![c] = NewClient(given)]
        /\ heard' = [heard EXCEPT ![c] =
                             [now |-> born, born |-> born, profile |-> heard[p].profile]]
    BY <2>1 DEF parent, given, said
  <2> HIDE DEF born
  <2>10. Lives(NewClient(given), [now |-> born, born |-> born, profile |-> heard[p].profile])
    BY <2>3, <2>5, <2>8, NewLives
  <2>11. QED
    BY <2>2, <2>9, <2>10, OneChanges
<1>10. ASSUME NEW c \in Clients, NEW method \in Methods, Prepare(c, method) PROVE SettingInv'
  <2>1. /\ Lives(instance[c], heard[c]) /\ words' \in Nat
        /\ UNCHANGED <<platform, library, instance, heard>>
    BY <1>10, PreparedAs
  <2>2. PICK custom \in SaidConfigs, way \in Ways(method) :
          call' = IF Unsafe(c) THEN [phase |-> "failed", client |-> c] ELSE Built(c, method, custom, way)
    BY <1>0, <1>10, PreparedAs, CustomsSaid
  <2>3. CASE Unsafe(c)
    BY <1>1, <2>1, <2>2, <2>3 DEF SettingInv, RequestTrue
  <2>4. CASE ~Unsafe(c)
    <3>1. /\ call' \in Prepared
          /\ call'.layered => \A o \in Options : Fixed(o) \/ call'.options[o] = call'.meant[o]
      BY <2>1, <2>2, <2>4, BuiltAsMeant
    <3>2. call'.client = c
      BY <2>2, <2>4 DEF Built
    <3>3. RequestTrue'
      BY <1>1, <2>1, <3>1, <3>2 DEF RequestTrue, Fixed
    <3>4. QED
      BY <1>1, <2>1, <3>3 DEF SettingInv
  <2>5. QED BY <2>3, <2>4
<1>11. CASE Dispatch
  <2>1. /\ UNCHANGED <<platform, words, library, instance, heard>>
        /\ call.phase \in {"built", "sent"} /\ call \in Prepared
    BY <1>11 DEF Dispatch, SettingInv, RequestTrue
  <2>2. CASE Unsafe(call.client)
    <3>1. call'.phase = "failed"
      BY <1>11, <2>2 DEF Dispatch, Unusable
    <3>2. QED
      BY <1>1, <2>1, <3>1 DEF SettingInv, RequestTrue
  <2>3. CASE ~Unsafe(call.client)
    <3> DEFINE proxy == Later(Asked(call.client, call.method, "proxy"), call.options["proxy"])
    <3>1. call' = [call EXCEPT !.phase = "sent", !.proxy = proxy]
      BY <1>11, <2>3 DEF Dispatch
    <3>2. proxy \in Value
      <4>1. call.client \in Clients /\ Lives(instance[call.client], heard[call.client])
        BY <2>1 DEF SettingInv, RequestTrue, Prepared
      <4>2. Asked(call.client, call.method, "proxy") \in Value
        BY <4>1, Follows DEF Asked, ClientConfigs, OptionMaps, Options
      <4>3. QED
        BY <2>1, <4>2 DEF Later, Prepared, OptionMaps, Options
    <3> HIDE DEF proxy
    <3>3. call' \in Prepared /\ call'.client = call.client
          /\ call'.options = call.options /\ call'.meant = call.meant /\ call'.layered = call.layered
      BY <2>1, <3>1, <3>2 DEF Prepared
    <3>4. QED
      BY <1>1, <2>1, <3>3 DEF SettingInv, RequestTrue, Fixed
  <2>4. QED BY <2>2, <2>3
<1>12. QED
  BY <1>3, <1>4, <1>5, <1>6, <1>7, <1>8, <1>9, <1>10, <1>11 DEF SettingNext

\* The limit of request bodies is a word, unless nobody said one: then it is what the
\* profile of the first client of the line makes of it.
Worded(v) == v = None \/ v \in Nat \ {0}
Limiting(v, profile) == Worded(v) \/ v = ProfileRule(profile)
LimitOf(options) == options["maxBodyLength"]
Limits(i, h) ==
    /\ Limiting(LimitOf(i.config.options), h.profile)
    /\ Limiting(LimitOf(i.defaults.options), h.profile)
LimitInv ==
    /\ Worded(LimitOf(library.options))
    /\ \A c \in Clients : instance[c] # None => Limits(instance[c], heard[c])

LEMMA NewLimits ==
    ASSUME NEW custom \in RoughConfigs, NEW h,
           Limiting(LimitOf(custom.options), h.profile),
           LimitOf(custom.options) = None => h.profile = ProfileOf(custom.security)
    PROVE  Limits(NewClient(custom), h)
<1>1. "maxBodyLength" \in Options /\ ~Fixed("maxBodyLength")
  BY DEF Options, Fixed
<1>2. LimitOf(buildConfig(custom).options) = Later(BuiltFor(custom, "maxBodyLength"), LimitOf(custom.options))
  BY <1>1, Builds DEF LimitOf
<1>3. BuiltFor(custom, "maxBodyLength") = ProfileRule(ProfileOf(custom.security))
  BY <1>1 DEF BuiltFor, BuiltIn
<1>4. Limiting(LimitOf(buildConfig(custom).options), h.profile)
  BY <1>2, <1>3 DEF Limiting, Worded, Later
<1>5. /\ NewClient(custom).config.options = buildConfig(custom).options
      /\ NewClient(custom).defaults.options = buildConfig(custom).options
  BY DEF NewClient, createMutableDefaults
<1>6. QED
  BY <1>4, <1>5 DEF Limits

LEMMA CustomLimit == ASSUME words \in Nat, NEW custom \in Customs PROVE Worded(LimitOf(custom.options))
<1>1. Word \in Nat \ {0} /\ "maxBodyLength" \in Options
  BY DEF Word, Options
<1>2. PICK O \in SUBSET Spoken, h \in IF "headers" \in about THEN {None, Word, -Word} ELSE {None},
           p \in IF "security" \in about THEN Profiles \cup {None} ELSE {None},
           r \in IF "security" \in about THEN {None, Word} ELSE {None} :
        custom = Saying(O, h, p, r)
  BY DEF Customs
<1>3. custom.options = [o \in Options |-> IF o \in O THEN Word ELSE None]
  BY <1>2 DEF Saying
<1>4. QED
  BY <1>1, <1>3 DEF LimitOf, Worded

LEMMA LimitStart == SettingInit => LimitInv
<1> SUFFICES ASSUME SettingInit PROVE LimitInv
  OBVIOUS
<1>1. /\ Silent \in RoughConfigs /\ ProfileOf(Silent.security) = "standard"
      /\ LimitOf(Silent.options) = None
  <2>1. Silent.security \in SaidSecurity /\ Silent.header \in Value /\ Silent.options \in OptionMaps
    BY DEF Silent, SaidSecurity, Value, OptionMaps, Unsaid
  <2>2. Silent \in SaidConfigs
    BY <2>1 DEF SaidConfigs, Silent
  <2>3. QED BY <2>2, SaidIsRough DEF Silent, ProfileOf, LimitOf, Unsaid, Options
<1>2. \A c \in Clients : heard[c].profile = "standard"
  BY DEF SettingInit
<1>3. \A c \in Clients : instance[c] # None => instance[c] = NewClient(Silent)
  BY DEF SettingInit
<1>4. Worded(LimitOf(library.options))
  BY DEF SettingInit, Worded, LimitOf, Unsaid, Options
<1>5. ASSUME NEW c \in Clients PROVE Limits(NewClient(Silent), heard[c])
  BY <1>1, <1>2, NewLimits DEF Limiting, Worded
<1>6. QED
  BY <1>3, <1>4, <1>5 DEF LimitInv

LEMMA LimitStep == SettingInv /\ LimitInv /\ [SettingNext]_settingVars => LimitInv'
<1> SUFFICES ASSUME SettingInv, LimitInv, [SettingNext]_settingVars PROVE LimitInv'
  OBVIOUS
<1>0. /\ words \in Nat /\ Word \in Nat \ {0} /\ library \in LiveDefaults /\ "maxBodyLength" \in Options
      /\ instance \in [Clients -> {None} \cup Instances] /\ heard \in [Clients -> Heard]
  BY DEF SettingInv, Word, Options
<1>1. CASE UNCHANGED settingVars
  BY <1>1 DEF settingVars, LimitInv, Limits, Limiting, Worded, LimitOf
<1>2. CASE UNCHANGED <<library, instance, heard>>
  BY <1>2 DEF LimitInv, Limits, Limiting, Worded, LimitOf
<1>3. CASE ChangeLibrary
  <2>1. /\ UNCHANGED <<instance, heard>>
        /\ \/ \E o \in Options, w \in {Word, None} : library' = [library EXCEPT !.options[o] = w]
           \/ library' \in Others(library) \cup OthersDeleted(library)
    BY <1>3 DEF ChangeLibrary, Spoken, SetOption, Deleted
  <2>2. Worded(LimitOf(library'.options))
    <3>1. CASE library' \in Others(library) \cup OthersDeleted(library)
      BY <1>0, <3>1, OthersSet DEF LimitInv
    <3>2. CASE \E o \in Options, w \in {Word, None} : library' = [library EXCEPT !.options[o] = w]
      BY <1>0, <3>2 DEF LimitInv, LiveDefaults, OptionMaps, LimitOf, Worded
    <3>3. QED BY <2>1, <3>1, <3>2
  <2>3. QED
    BY <2>1, <2>2 DEF LimitInv, Limits, Limiting, Worded, LimitOf
<1>4. ASSUME NEW c \in Clients, NEW i, NEW h, instance' = [instance EXCEPT ![c] = i],
             heard' = [heard EXCEPT ![c] = h], library' = library, Limits(i, h)
      PROVE  LimitInv'
  <2>1. /\ instance'[c] = i /\ heard'[c] = h
        /\ \A d \in Clients \ {c} : instance'[d] = instance[d] /\ heard'[d] = heard[d]
    BY <1>0, <1>4
  <2>2. \A j, g : Limits(j, g)' <=> Limits(j, g)
    BY DEF Limits, Limiting, Worded, LimitOf
  <2>3. QED
    BY <1>4, <2>1, <2>2 DEF LimitInv, Worded, LimitOf
<1>5. ASSUME NEW c \in Clients, NEW d, NEW o \in Options, NEW w \in {Word, None}, NEW h,
             instance[c] # None, library' = library,
             d.options = instance[c].defaults.options \/
               d.options = [instance[c].defaults.options EXCEPT ![o] = w],
             h.profile = heard[c].profile,
             instance' = [instance EXCEPT ![c].defaults = d], heard' = [heard EXCEPT ![c] = h]
      PROVE  LimitInv'
  <2> DEFINE i == [instance[c] EXCEPT !.defaults = d]
  <2>1. Limits(instance[c], heard[c]) /\ instance[c] \in Instances
    BY <1>0, <1>5 DEF LimitInv
  <2>2. i.config = instance[c].config /\ i.defaults = d
    BY <2>1 DEF Instances
  <2>3. instance' = [instance EXCEPT ![c] = i]
    BY <1>5
  <2> HIDE DEF i
  <2>4. instance[c].defaults.options \in OptionMaps
    BY <2>1 DEF Instances, LiveDefaults
  <2>5. LimitOf(d.options) \in {LimitOf(instance[c].defaults.options), Word, None}
    BY <1>0, <1>5, <2>4 DEF LimitOf, OptionMaps
  <2>6. Limits(i, h)
    BY <1>0, <1>5, <2>1, <2>2, <2>5 DEF Limits, Limiting, Worded
  <2>7. QED
    BY <1>4, <1>5, <2>3, <2>6
<1>6. ASSUME NEW c \in Clients, SetDefault(c) \/ DeleteDefault(c) PROVE LimitInv'
  <2> DEFINE live == instance[c].defaults
  <2>1. instance[c] # None /\ library' = library /\ live \in LiveDefaults /\ heard[c] \in Heard
    <3>1. instance[c] # None /\ library' = library
      BY <1>6 DEF SetDefault, DeleteDefault, Reachable
    <3>2. QED
      BY <1>0, <3>1 DEF Instances
  <2>2. CASE \E d \in Others(live) \cup OthersDeleted(live) :
               instance' = [instance EXCEPT ![c].defaults = d] /\ heard' = heard
    <3>1. PICK d \in Others(live) \cup OthersDeleted(live) :
            instance' = [instance EXCEPT ![c].defaults = d] /\ heard' = heard
      BY <2>2
    <3>2. d.options = live.options
      BY <1>0, <2>1, OthersSet
    <3>3. heard' = [heard EXCEPT ![c] = heard[c]]
      BY <1>0, <3>1
    <3>4. QED
      BY <1>0, <1>5, <2>1, <3>1, <3>2, <3>3
  <2>3. CASE \E o \in Options, w \in {Word, None}, v \in Value :
               /\ instance' = [instance EXCEPT ![c].defaults = [live EXCEPT !.options[o] = w]]
               /\ heard' = [heard EXCEPT ![c].now[o] = v]
    <3>1. PICK o \in Options, w \in {Word, None}, v \in Value :
               /\ instance' = [instance EXCEPT ![c].defaults = [live EXCEPT !.options[o] = w]]
               /\ heard' = [heard EXCEPT ![c].now[o] = v]
      BY <2>3
    <3> DEFINE d == [live EXCEPT !.options[o] = w]
               h == [heard[c] EXCEPT !.now[o] = v]
    <3>2. d.options = [live.options EXCEPT ![o] = w]
      BY <2>1 DEF LiveDefaults
    <3>3. h.profile = heard[c].profile /\ heard' = [heard EXCEPT ![c] = h]
      BY <2>1, <3>1 DEF Heard
    <3>4. instance' = [instance EXCEPT ![c].defaults = d]
      BY <3>1
    <3> HIDE DEF d, h
    <3>5. QED
      BY <1>5, <2>1, <3>2, <3>3, <3>4
  <2>4. \A o \in Options : heard[c].born[o] \in Value /\ Word \in Value
    BY <1>0, <2>1 DEF Heard, OptionMaps, Value
  <2>5. CASE SetDefault(c)
    BY <2>2, <2>3, <2>4, <2>5 DEF SetDefault, Spoken, SetOption, Tell
  <2>6. CASE DeleteDefault(c)
    BY <2>2, <2>3, <2>4, <2>6 DEF DeleteDefault, Spoken, Deleted, Tell
  <2>7. QED
    BY <1>6, <2>5, <2>6
<1>7. ASSUME NEW c \in Clients, SetTimeout(c) \/ SetHeader(c) \/ RemoveHeader(c) PROVE LimitInv'
  <2>1. instance[c] # None /\ library' = library
    BY <1>7 DEF SetTimeout, SetHeader, RemoveHeader
  <2>2. /\ instance[c] \in Instances /\ heard[c] \in Heard /\ Limits(instance[c], heard[c])
        /\ instance[c].config \in ClientConfigs /\ instance[c].config.options \in OptionMaps
        /\ instance[c].defaults \in LiveDefaults /\ instance[c].defaults.options \in OptionMaps
    BY <1>0, <2>1 DEF LimitInv, Instances, ClientConfigs, LiveDefaults
  <2>3. CASE SetTimeout(c)
    <3> DEFINE config == [instance[c].config EXCEPT !.options["timeout"] = Word]
               live == [instance[c].defaults EXCEPT !.options["timeout"] = Word]
               i == [instance[c] EXCEPT !.config = config, !.defaults = live]
               h == [heard[c] EXCEPT !.now["timeout"] = Word, !.born["timeout"] = Word]
    <3>1. /\ LimitOf(config.options) = LimitOf(instance[c].config.options)
          /\ LimitOf(live.options) = LimitOf(instance[c].defaults.options)
      BY <1>0, <2>2 DEF LimitOf, ClientConfigs, LiveDefaults, OptionMaps
    <3>2. h.profile = heard[c].profile
      BY <2>2 DEF Heard
    <3>3. instance' = [instance EXCEPT ![c] = i] /\ heard' = [heard EXCEPT ![c] = h]
      BY <2>3 DEF SetTimeout
    <3> HIDE DEF config, live
    <3>4. i.config = config /\ i.defaults = live
      BY <2>2 DEF Instances
    <3> HIDE DEF i, h
    <3>5. Limits(i, h)
      BY <2>2, <3>1, <3>2, <3>4 DEF Limits
    <3>6. QED
      BY <1>4, <2>1, <3>3, <3>5
  <2>4. CASE SetHeader(c) \/ RemoveHeader(c)
    <3>1. PICK w : instance' = [instance EXCEPT ![c].own = w] /\ heard' = heard
      BY <2>4 DEF SetHeader, RemoveHeader
    <3> DEFINE i == [instance[c] EXCEPT !.own = w]
    <3>2. i.config = instance[c].config /\ i.defaults = instance[c].defaults
      BY <2>2 DEF Instances
    <3>3. instance' = [instance EXCEPT ![c] = i] /\ heard' = [heard EXCEPT ![c] = heard[c]]
      BY <1>0, <3>1
    <3> HIDE DEF i
    <3>4. Limits(i, heard[c])
      BY <2>2, <3>2 DEF Limits
    <3>5. QED
      BY <1>4, <2>1, <3>3, <3>4
  <2>5. QED BY <1>7, <2>3, <2>4
<1>8. ASSUME NEW c \in Clients, CreateFromLibrary(c) PROVE LimitInv'
  <2>1. PICK custom \in Customs :
          LET said == [custom EXCEPT !.options = Overlaid(library.options, @),
                                     !.security = Overlaid(library.security, @)]
              born == buildConfig(said).options
          IN  /\ instance' = [instance EXCEPT ![c] = NewClient(mergeDefaults(library, custom, None))]
              /\ heard' = [heard EXCEPT ![c] =
                             [now |-> born, born |-> born, profile |-> buildConfig(said).security.profile]]
    BY <1>8 DEF CreateFromLibrary
  <2> DEFINE given == mergeDefaults(library, custom, None)
             said == [custom EXCEPT !.options = Overlaid(library.options, @),
                                    !.security = Overlaid(library.security, @)]
             born == buildConfig(said).options
             profile == buildConfig(said).security.profile
             h == [now |-> born, born |-> born, profile |-> profile]
  <2>2. custom \in SaidConfigs /\ library' = library
    BY <1>0, <1>8, CustomsSaid DEF CreateFromLibrary
  <2>3. /\ given \in RoughConfigs /\ given.options = Overlaid(library.options, custom.options)
        /\ given.security = Overlaid(library.security, custom.security)
    BY <1>0, <2>2, MergesDefaults, SaidIsRough
  <2>4. said \in RoughConfigs /\ said.security = Overlaid(library.security, custom.security)
    <3>1. Overlaid(library.security, custom.security) \in SaidSecurity
      BY <1>0, <2>2, RulesMerge DEF LiveDefaults, SaidConfigs
    <3>2. Overlaid(library.options, custom.options) \in OptionMaps
      BY <1>0, <2>2, OptionsMerge DEF LiveDefaults, SaidConfigs
    <3>3. QED
      BY <2>2, <3>1, <3>2, SaidIsRough DEF SaidConfigs
  <2>5. LimitOf(given.options) = Later(LimitOf(library.options), LimitOf(custom.options))
    BY <1>0, <2>2, <2>3, OptionsMerge DEF LimitOf, LiveDefaults, SaidConfigs
  <2>6. instance' = [instance EXCEPT ![c] = NewClient(given)] /\ heard' = [heard EXCEPT ![c] = h]
    BY <2>1
  <2> HIDE DEF given, said
  <2>7. profile = ProfileOf(given.security)
    BY <2>3, <2>4, Builds
  <2>8. Worded(LimitOf(given.options))
    BY <1>0, <2>5, CustomLimit DEF LimitInv, Worded, Later
  <2>9. h.profile = profile
    OBVIOUS
  <2> HIDE DEF profile, h
  <2>10. Limits(NewClient(given), h)
    BY <2>3, <2>7, <2>8, <2>9, NewLimits DEF Limiting
  <2>11. QED
    BY <1>4, <2>2, <2>6, <2>10
<1>9. ASSUME NEW p \in Clients, NEW c \in Clients, CreateFrom(p, c) PROVE LimitInv'
  <2>1. PICK custom \in Customs :
          LET born == buildConfig([custom EXCEPT !.options = Overlaid(heard[p].now, @)]).options
          IN  /\ instance' = [instance EXCEPT ![c] =
                                NewClient(mergeConfig(ConfigWithDefaults(p, None), custom))]
              /\ heard' = [heard EXCEPT ![c] =
                             [now |-> born, born |-> born, profile |-> heard[p].profile]]
    BY <1>9 DEF CreateFrom
  <2> DEFINE parent == ConfigWithDefaults(p, None)
             given == mergeConfig(parent, custom)
             born == buildConfig([custom EXCEPT !.options = Overlaid(heard[p].now, @)]).options
             h == [now |-> born, born |-> born, profile |-> heard[p].profile]
  <2>2. custom \in SaidConfigs /\ library' = library /\ instance[p] # None
    BY <1>0, <1>9, CustomsSaid DEF CreateFrom, Reachable
  <2>3. /\ Lives(instance[p], heard[p]) /\ Limits(instance[p], heard[p])
        /\ instance[p].config.options \in OptionMaps /\ instance[p].defaults.options \in OptionMaps
    BY <2>2 DEF SettingInv, LimitInv, Lives, Instances, ClientConfigs, LiveDefaults
  <2>4. /\ parent \in ClientConfigs /\ Agreed(parent.options, heard[p].now) /\ parent.options \in OptionMaps
        /\ Complete(parent.options)
    BY <2>3, Follows DEF ClientConfigs
  <2>5. ~Fixed("maxBodyLength") /\ BuiltIn("standard")["maxBodyLength"] # None
    BY <1>0, SettingAssumption DEF Fixed, BuiltIn, ProfileRule
  <2>6. LimitOf(parent.options) = Later(LimitOf(instance[p].config.options), LimitOf(instance[p].defaults.options))
    BY <1>0, <2>3, <2>4, <2>5 DEF Agreed, Lives, LimitOf
  <2>7. LimitOf(parent.options) # None
    BY <1>0, <2>4, <2>5 DEF Complete, LimitOf
  <2> HIDE DEF parent
  <2>8. given \in RoughConfigs /\ given.options = Overlaid(parent.options, custom.options)
    BY <2>2, <2>4, MergesConfig
  <2>9. LimitOf(given.options) = Later(LimitOf(parent.options), LimitOf(custom.options))
    BY <1>0, <2>2, <2>4, <2>8, OptionsMerge DEF LimitOf, SaidConfigs
  <2>10. instance' = [instance EXCEPT ![c] = NewClient(given)] /\ heard' = [heard EXCEPT ![c] = h]
    BY <2>1 DEF parent
  <2>11. h.profile = heard[p].profile
    OBVIOUS
  <2> HIDE DEF given, h
  <2>12. Limiting(LimitOf(given.options), h.profile) /\ LimitOf(given.options) # None
    BY <1>0, <2>3, <2>6, <2>7, <2>9, <2>11, CustomLimit DEF Limits, Limiting, Worded, Later
  <2>13. Limits(NewClient(given), h)
    BY <2>8, <2>12, NewLimits
  <2>14. QED
    BY <1>4, <2>2, <2>10, <2>13
<1>10. ASSUME NEW c \in Clients, NEW method \in Methods, Prepare(c, method) PROVE LimitInv'
  BY <1>2, <1>10 DEF Prepare
<1>11. CASE Dispatch
  BY <1>2, <1>11 DEF Dispatch
<1>12. QED
  BY <1>1, <1>3, <1>6, <1>7, <1>8, <1>9, <1>10, <1>11 DEF SettingNext

\* A client has the rules of its own profile, whatever it was made from, where nobody set
\* one; a limit of request bodies that nobody set is that of the first of its line.
THEOREM ProfilesHold == SettingSpec => []ProfileHolds
<1>1. SettingInv /\ LimitInv => ProfileHolds
  <2> SUFFICES ASSUME SettingInv, LimitInv, NEW c \in Clients, instance[c] # None
               PROVE  LET security == instance[c].config.security
                          limit == instance[c].config.options["maxBodyLength"]
                      IN  /\ security.rule <= 0 => security.rule = ProfileRule(security.profile)
                          /\ limit <= 0 => limit = ProfileRule(heard[c].profile)
    BY DEF ProfileHolds
  <2>1. instance[c].config.security \in OwnSecurity /\ Complete(instance[c].config.options)
    BY DEF SettingInv, Lives, Instances, ClientConfigs
  <2>2. Limiting(instance[c].config.options["maxBodyLength"], heard[c].profile)
    BY DEF LimitInv, Limits, LimitOf
  <2>3. instance[c].config.options["maxBodyLength"] # None
    BY <2>1, SettingAssumption DEF Complete, BuiltIn, Options, ProfileRule
  <2>4. instance[c].config.security.rule <= 0 =>
            instance[c].config.security.rule = ProfileRule(instance[c].config.security.profile)
    BY <2>1, SettingAssumption DEF OwnSecurity, RuledByProfile, ProfileOf, Profiles
  <2>5. QED
    BY <2>2, <2>3, <2>4 DEF Limiting, Worded
<1>2. QED
  BY <1>1, SettingStart, SettingStep, LimitStart, LimitStep, PTL DEF SettingSpec

\* What is sent is what was said last of it, by the request, the library and the client.
LEMMA SentAsSaid ==
    SettingInv /\ [SettingNext]_settingVars =>
        [/\ call'.phase = "sent" /\ call'.layered =>
              /\ call'.options["timeout"] = call.meant["timeout"]
              /\ platform = "node" =>
                     call'.proxy = Later(heard[call.client].now["proxy"], call.meant["proxy"])
         /\ call'.phase = "built" =>
              LET header == call'.custom.header auth == call'.meant["auth"]
              IN  header # None /\ (auth = None \/ header < 0) => call'.header = header]_call
<1> SUFFICES ASSUME SettingInv, SettingNext, call' # call
             PROVE  /\ call'.phase = "sent" /\ call'.layered =>
                         /\ call'.options["timeout"] = call.meant["timeout"]
                         /\ platform = "node" =>
                              call'.proxy = Later(heard[call.client].now["proxy"], call.meant["proxy"])
                    /\ call'.phase = "built" =>
                         LET header == call'.custom.header auth == call'.meant["auth"]
                         IN  header # None /\ (auth = None \/ header < 0) => call'.header = header
  BY DEF settingVars
<1>1. CASE Dispatch
  <2>1. /\ call.phase \in {"built", "sent"} /\ call \in Prepared
        /\ call.client \in Clients /\ Lives(instance[call.client], heard[call.client])
        /\ call.layered => \A o \in Options : Fixed(o) \/ call.options[o] = call.meant[o]
    BY <1>1 DEF Dispatch, SettingInv, RequestTrue, Prepared
  <2>2. CASE Unsafe(call.client)
    BY <1>1, <2>2 DEF Dispatch, Unusable
  <2>3. CASE ~Unsafe(call.client)
    <3> DEFINE asked == Asked(call.client, call.method, "proxy")
    <3>1. call' = [call EXCEPT !.phase = "sent", !.proxy = Later(asked, call.options["proxy"])]
      BY <1>1, <2>3 DEF Dispatch
    <3>2. Fixed("proxy") \/ asked = heard[call.client].now["proxy"]
      BY <2>1, Follows DEF Asked, Agreed, Options
    <3> HIDE DEF asked
    <3>3. /\ call'.phase = "sent" /\ call'.options = call.options /\ call'.layered = call.layered
          /\ call'.proxy = Later(asked, call.options["proxy"])
      BY <2>1, <3>1 DEF Prepared
    <3>4. call.layered => call.options["timeout"] = call.meant["timeout"]
      BY <2>1 DEF Fixed, Options
    <3>5. platform = "node" => /\ call.layered => call.options["proxy"] = call.meant["proxy"]
                               /\ asked = heard[call.client].now["proxy"]
      BY <2>1, <3>2 DEF Fixed, Options
    <3>6. QED
      BY <3>3, <3>4, <3>5
  <2>4. QED BY <2>2, <2>3
<1>2. ASSUME NEW c \in Clients, NEW method \in Methods, Prepare(c, method)
      PROVE  /\ call'.phase # "sent"
             /\ call'.phase = "built" =>
                  LET header == call'.custom.header auth == call'.meant["auth"]
                  IN  header # None /\ (auth = None \/ header < 0) => call'.header = header
  <2> DEFINE HeaderMeant(b) ==
          LET header == b.custom.header auth == b.meant["auth"]
          IN  header # None /\ (auth = None \/ header < 0) => b.header = header
  <2>1. PICK custom \in Customs, way \in Ways(method) :
          call' = IF Unsafe(c) THEN [phase |-> "failed", client |-> c] ELSE Built(c, method, custom, way)
    BY <1>2, PreparedAs
  <2>2. CASE Unsafe(c)
    BY <2>1, <2>2
  <2>3. CASE ~Unsafe(c)
    <3> DEFINE given == Completed(c, method, custom, way)
               defaults == ConfigWithDefaults(c, method)
               b == Built(c, method, custom, way)
               said == Later(Later(instance[c].own, defaults.header), given.header)
               auth == Later(defaults.options["auth"], given.options["auth"])
    <3>1. custom \in SaidConfigs /\ (custom.header # None => custom.header \in Int \ {0})
      BY CustomsSaid DEF SettingInv
    <3>2. /\ \A o \in Options :
               \/ Fixed(o) \/ b.meant[o] # None
               \/ Later(defaults.options[o], given.options[o]) = None
          /\ custom.header # None => given.header = custom.header
      BY <1>2, <3>1, PreparedAs, BuiltAsMeant
    <3>3. b.meant["auth"] # None \/ auth = None
      BY <3>2 DEF Fixed, Options
    <3>4. /\ b.phase = "built" /\ b.custom = custom
          /\ b.header = IF auth # None /\ Visible(said) = said THEN auth ELSE said
      BY DEF Built, Header
    <3> HIDE DEF auth, b
    <3>5. custom.header # None => said = custom.header
      BY <3>2 DEF Later
    <3> HIDE DEF said
    <3>6. HeaderMeant(b)
      BY <3>1, <3>3, <3>4, <3>5 DEF Later, Visible
    <3>7. call' = b
      BY <2>1, <2>3 DEF b
    <3>8. QED
      BY <3>4, <3>6, <3>7
  <2>4. QED BY <2>2, <2>3
<1>3. ASSUME UNCHANGED call PROVE FALSE
  BY <1>3
<1>4. QED
  BY <1>1, <1>2, <1>3
     DEF SettingNext, ChangeLibrary, SetDefault, DeleteDefault, SetTimeout, SetHeader, RemoveHeader,
         CreateFromLibrary, CreateFrom

\* The timeout and the proxy that are sent, and the header that is prepared, are those
\* that were told last, to whomever and in whatever order.
THEOREM EverySentAsTold == SettingSpec => AsTold
BY SettingStart, SettingStep, SentAsSaid, PTL DEF SettingSpec, AsTold

-----------------------------------------------------------------------------
\* Telemetry: the percentiles.

AtMost(kept, n) == {i \in DOMAIN kept : kept[i] <= n}
Below(kept, n) == {i \in DOMAIN kept : kept[i] < n}

LEMMA PlacesCounted ==
    ASSUME NEW kept \in Seq(Nat), NEW S, S \subseteq DOMAIN kept
    PROVE  IsFiniteSet(S) /\ Cardinality(S) \in Nat
<1>1. Len(kept) \in Nat /\ DOMAIN kept = 1..Len(kept)
  OBVIOUS
<1>2. IsFiniteSet(DOMAIN kept)
  BY <1>1, FS_Interval
<1>3. IsFiniteSet(S)
  BY <1>2, FS_Subset
<1> QED BY <1>3, FS_CardinalityType

\* There is something at each place of the durations that are kept.
LEMMA SortedIs ==
    ASSUME NEW kept \in Seq(Nat), NEW top \in Nat, \A i \in DOMAIN kept : kept[i] <= top,
           NEW place \in Nat, place < Len(kept)
    PROVE  /\ Sorted(kept, place) \in Nat
           /\ \E i \in DOMAIN kept : kept[i] = Sorted(kept, place)
           /\ Cardinality(Below(kept, Sorted(kept, place))) <= place
           /\ Cardinality(AtMost(kept, Sorted(kept, place))) > place
<1> DEFINE More == {n \in Nat : Cardinality(AtMost(kept, n)) > place}
<1>1. Len(kept) \in Nat /\ DOMAIN kept = 1..Len(kept) /\ \A i \in DOMAIN kept : kept[i] \in Nat
  OBVIOUS
<1>2. top \in More
  <2>1. AtMost(kept, top) = 1..Len(kept)
    BY <1>1 DEF AtMost
  <2>2. Cardinality(1..Len(kept)) = Len(kept)
    <3>1. PICK k : k = Len(kept)
      OBVIOUS
    <3>2. k \in Nat /\ Cardinality(1..k) = IF 1 > k THEN 0 ELSE k - 1 + 1
      BY <1>1, <3>1, FS_Interval
    <3>3. Cardinality(1..k) = k
      BY <3>2
    <3> QED BY <3>1, <3>3
  <2> QED BY <2>1, <2>2
<1>3. PICK n \in More : \A m \in More : n <= m
  <2>1. More \subseteq Nat /\ More # {}
    BY <1>2
  <2> HIDE DEF More
  <2> QED BY <2>1, Least
<1>4. n \in Nat /\ Cardinality(AtMost(kept, n)) > place
  BY <1>3
<1>5. Cardinality(Below(kept, n)) <= place
  <2>1. CASE n = 0
    <3>1. Below(kept, n) = {}
      BY <1>1, <2>1 DEF Below
    <3> QED BY <3>1, FS_EmptySet
  <2>2. CASE n # 0
    <3>1. n - 1 \in Nat /\ ~(n <= n - 1)
      BY <1>4, <2>2
    <3>2. ~(Cardinality(AtMost(kept, n - 1)) > place)
      BY <1>3, <3>1
    <3>3. Below(kept, n) = AtMost(kept, n - 1)
      BY <1>1, <1>4 DEF Below, AtMost
    <3>4. Cardinality(AtMost(kept, n - 1)) \in Nat
      <4>1. AtMost(kept, n - 1) \subseteq DOMAIN kept
        BY DEF AtMost
      <4> QED BY <4>1, PlacesCounted
    <3> QED BY <3>2, <3>3, <3>4
  <2> QED BY <2>1, <2>2
<1>6. \E i \in DOMAIN kept : kept[i] = n
  <2> SUFFICES ASSUME \A i \in DOMAIN kept : kept[i] # n PROVE FALSE
    OBVIOUS
  <2>1. Below(kept, n) = AtMost(kept, n)
    BY <1>1, <1>4 DEF Below, AtMost
  <2>2. Cardinality(AtMost(kept, n)) \in Nat
    <3>1. AtMost(kept, n) \subseteq DOMAIN kept
      BY DEF AtMost
    <3> QED BY <3>1, PlacesCounted
  <2> QED BY <1>4, <1>5, <2>1, <2>2
<1>7. n \in {kept[i] : i \in DOMAIN kept}
  BY <1>6
<1>8. Sorted(kept, place) \in {kept[i] : i \in DOMAIN kept}
      /\ Cardinality(Below(kept, Sorted(kept, place))) <= place
      /\ Cardinality(AtMost(kept, Sorted(kept, place))) > place
  BY <1>4, <1>5, <1>7 DEF Sorted, Below, AtMost
<1> QED BY <1>1, <1>8

\* What is at a later place is not less.
LEMMA SortedAscends ==
    ASSUME NEW kept \in Seq(Nat), NEW top \in Nat, \A i \in DOMAIN kept : kept[i] <= top,
           NEW p \in Nat, NEW q \in Nat, p <= q, q < Len(kept)
    PROVE  Sorted(kept, p) <= Sorted(kept, q)
<1>1. PICK x, y : x = Sorted(kept, p) /\ y = Sorted(kept, q)
  OBVIOUS
<1>2. Len(kept) \in Nat /\ p < Len(kept)
  OBVIOUS
<1>3. x \in Nat /\ Cardinality(Below(kept, x)) <= p
  BY <1>1, <1>2, SortedIs
<1>4. y \in Nat /\ Cardinality(AtMost(kept, y)) > q
  BY <1>1, SortedIs
<1>5. CASE y < x
  <2>1. \A i \in DOMAIN kept : kept[i] \in Nat
    OBVIOUS
  <2>2. AtMost(kept, y) \subseteq Below(kept, x)
    BY <1>3, <1>4, <1>5, <2>1 DEF AtMost, Below
  <2>3. Below(kept, x) \subseteq DOMAIN kept /\ AtMost(kept, y) \subseteq DOMAIN kept
    BY DEF Below, AtMost
  <2>4. /\ IsFiniteSet(Below(kept, x)) /\ Cardinality(Below(kept, x)) \in Nat
        /\ Cardinality(AtMost(kept, y)) \in Nat
    BY <2>3, PlacesCounted
  <2>5. Cardinality(AtMost(kept, y)) <= Cardinality(Below(kept, x))
    BY <2>2, <2>4, FS_Subset
  <2> QED BY <1>3, <1>4, <2>4, <2>5
<1> QED BY <1>1, <1>3, <1>4, <1>5

-----------------------------------------------------------------------------
\* Telemetry: what is known of a request at each phase: how often it was counted, unless
\* the metrics were reset since it began, and its span.
CountedBy(place, why) ==
    CASE place \in {"idle", "begun", "opened", "asking"} -> 0
      [] place \in {"succeeding"} -> 1
      [] place \in {"caught"} -> IF "late" \in why THEN 1 ELSE 0
      [] place \in {"reporting", "failing"} -> IF "late" \in why THEN 2 ELSE 1
      [] place \in {"ending", "done"} ->
            IF "mocked" \in why THEN 0 ELSE IF "late" \in why THEN 2 ELSE 1
BookOf(place, traces, n, why) ==
    /\ place \in Phases /\ traces \in {"none", "open", "ended"} /\ n \in Nat
    /\ "reset" \notin why => n = CountedBy(place, why)
    /\ place = "idle" => n = 0 /\ why = {}
    /\ place \in {"begun", "opened", "asking", "succeeding"} => "late" \notin why
    /\ place \notin {"ending", "done"} => "mocked" \notin why
    /\ place \in {"ending", "done"} /\ traces = "open" => "unended" \in why

MetricTypes ==
    [success : Nat, errors : Nat, cached : Nat, total : Nat, active : Nat,
     min : Nat, max : Nat, p50 : Nat, p99 : Nat]
\* The samples are between the extremes, and so is what is told of them.
Extremes(m, kept) ==
    /\ \A i \in DOMAIN kept : m.min <= kept[i] /\ kept[i] <= m.max
    /\ kept # <<>> => m.min <= m.p50 /\ m.p50 <= m.p99 /\ m.p99 <= m.max

Excuses == {"mocked", "late", "unended", "reset"}
Books ==
    /\ phase \in [Watched -> Phases] /\ span \in [Watched -> {"none", "open", "ended"}]
    /\ counts \in [Watched -> Nat] /\ excused \in [Watched -> SUBSET Excuses]
    /\ \A r \in Watched : BookOf(phase[r], span[r], counts[r], excused[r])
    /\ metrics \in MetricTypes /\ samples \in Seq(Nat)
    /\ metrics.total = metrics.success + metrics.errors + metrics.cached
    /\ Extremes(metrics, samples)
Gauged ==
    /\ metrics.active <= Cardinality(InFlight)
    /\ (\A r \in Watched : "reset" \notin excused[r]) => metrics.active = Cardinality(InFlight)
TelemetryInv == Books /\ Gauged

LEMMA WatchedCounted ==
    IsFiniteSet(InFlight) /\ Cardinality(InFlight) \in Nat
<1>1. InFlight \subseteq Watched
  BY DEF InFlight
<1>2. IsFiniteSet(InFlight)
  BY <1>1, TelemetryAssumption, FS_Subset
<1> QED BY <1>2, FS_CardinalityType

LEMMA TelemetryInitially == TelemetryInit => TelemetryInv
<1> SUFFICES ASSUME TelemetryInit PROVE TelemetryInv
  OBVIOUS
<1>1. InFlight = {}
  BY DEF TelemetryInit, InFlight
<1>2. Gauged
  BY <1>1, FS_EmptySet DEF Gauged, TelemetryInit, Fresh
<1>3. Books
  BY DEF Books, TelemetryInit, BookOf, CountedBy, Phases, Fresh, MetricTypes, Extremes
<1> QED BY <1>2, <1>3 DEF TelemetryInv

\* A step of one request leaves the others' books alone.
LEMMA OneBook ==
    ASSUME Books, NEW r \in Watched,
           phase' \in [Watched -> Phases], span' \in [Watched -> {"none", "open", "ended"}],
           counts' \in [Watched -> Nat], excused' \in [Watched -> SUBSET Excuses],
           \A q \in Watched \ {r} : /\ phase'[q] = phase[q] /\ span'[q] = span[q]
                                    /\ counts'[q] = counts[q] /\ excused'[q] = excused[q],
           BookOf(phase'[r], span'[r], counts'[r], excused'[r]),
           metrics' \in MetricTypes, samples' \in Seq(Nat),
           metrics'.total = metrics'.success + metrics'.errors + metrics'.cached,
           Extremes(metrics', samples')
    PROVE  Books'
<1>1. \A q \in Watched : BookOf(phase'[q], span'[q], counts'[q], excused'[q])
  <2> SUFFICES ASSUME NEW q \in Watched PROVE BookOf(phase'[q], span'[q], counts'[q], excused'[q])
    OBVIOUS
  <2>1. BookOf(phase[q], span[q], counts[q], excused[q])
    BY DEF Books
  <2> QED BY <2>1
<1> QED BY <1>1 DEF Books

\* What a request that is under way and stays so does to the gauge: nothing.
LEMMA GaugeStays ==
    ASSUME Gauged, InFlight' = InFlight, metrics'.active = metrics.active,
           \A r \in Watched : excused[r] \subseteq excused'[r]
    PROVE  Gauged'
<1>1. Cardinality(InFlight') = Cardinality(InFlight)
  OBVIOUS
<1> QED BY <1>1 DEF Gauged

\* Steps that count nothing.
LEMMA UncountedStep ==
    ASSUME TelemetryInv, NEW r \in Watched,
           Opened(r) \/ PluginAnswers(r) \/ Admitted(r) \/ Failed(r) \/ Succeeded(r) \/ ErrorReported(r) \/ Told(r)
    PROVE  TelemetryInv'
<1>1. metrics' = metrics /\ samples' = samples /\ counts' = counts
  BY DEF Opened, PluginAnswers, Admitted, Failed, Succeeded, ErrorReported, Told
<1>2. BookOf(phase[r], span[r], counts[r], excused[r]) /\ counts[r] \in Nat /\ counts \in [Watched -> Nat]
  BY DEF TelemetryInv, Books
<1>3. PICK to \in Phases \ {"idle", "done"} : phase' = [phase EXCEPT ![r] = to]
  BY DEF Opened, PluginAnswers, Admitted, Failed, Succeeded, ErrorReported, Told, Moves, Phases
<1>4. PICK why \in SUBSET Excuses : excused' = [excused EXCEPT ![r] = why] /\ excused[r] \subseteq why
  <2>1. excused[r] \in SUBSET Excuses /\ excused = [excused EXCEPT ![r] = excused[r]]
    BY DEF TelemetryInv, Books
  <2>2. excused' = excused \/ \E x \in Excuses : Excuse(r, x)
    BY DEF Opened, PluginAnswers, Admitted, Failed, Succeeded, ErrorReported, Told, Excuses
  <2> QED BY <2>1, <2>2 DEF Excuse
<1>5. PICK s \in {"none", "open", "ended"} : span' = [span EXCEPT ![r] = s]
  <2>1. span[r] \in {"none", "open", "ended"} /\ span = [span EXCEPT ![r] = span[r]]
    BY DEF TelemetryInv, Books
  <2> QED BY <2>1 DEF Opened, PluginAnswers, Admitted, Failed, Succeeded, ErrorReported, Told, Ends
<1>6. phase'[r] = to /\ excused'[r] = why /\ span'[r] = s
  BY <1>3, <1>4, <1>5 DEF TelemetryInv, Books
<1>7. BookOf(to, s, counts[r], why)
  <2>1. CASE Opened(r)
    BY <1>2, <1>6, <2>1 DEF Opened, Moves, BookOf, CountedBy, Phases, TelemetryInv, Books
  <2>2. CASE PluginAnswers(r)
    BY <1>2, <1>6, <2>2 DEF PluginAnswers, Moves, Ends, Excuse, BookOf, CountedBy, Phases, TelemetryInv, Books
  <2>3. CASE Admitted(r)
    BY <1>2, <1>6, <2>3 DEF Admitted, Moves, BookOf, CountedBy, Phases, TelemetryInv, Books
  <2>4. CASE Failed(r)
    BY <1>2, <1>6, <2>4 DEF Failed, Moves, BookOf, CountedBy, Phases, TelemetryInv, Books
  <2>5. CASE Succeeded(r)
    BY <1>2, <1>6, <2>5 DEF Succeeded, Moves, Ends, Excuse, BookOf, CountedBy, Phases, TelemetryInv, Books
  <2>6. CASE ErrorReported(r)
    BY <1>2, <1>6, <2>6 DEF ErrorReported, Moves, Excuse, BookOf, CountedBy, Phases, TelemetryInv, Books
  <2>7. CASE Told(r)
    BY <1>2, <1>6, <2>7 DEF Told, Moves, Ends, BookOf, CountedBy, Phases, TelemetryInv, Books
  <2> QED BY <2>1, <2>2, <2>3, <2>4, <2>5, <2>6, <2>7
<1>8. Books'
  <2>1. /\ phase' \in [Watched -> Phases] /\ span' \in [Watched -> {"none", "open", "ended"}]
        /\ excused' \in [Watched -> SUBSET Excuses]
        /\ \A q \in Watched \ {r} : phase'[q] = phase[q] /\ span'[q] = span[q] /\ excused'[q] = excused[q]
    BY <1>3, <1>4, <1>5 DEF TelemetryInv, Books
  <2> QED BY <1>1, <1>2, <1>6, <1>7, <2>1, OneBook DEF TelemetryInv, Books
<1>9. InFlight' = InFlight
  <2>1. phase[r] \notin {"idle", "done"}
    BY DEF Opened, PluginAnswers, Admitted, Failed, Succeeded, ErrorReported, Told, Moves
  <2> QED BY <1>3, <1>6, <2>1 DEF InFlight, TelemetryInv, Books
<1>10. Gauged'
  <2>1. \A q \in Watched : excused[q] \subseteq excused'[q]
    BY <1>4 DEF TelemetryInv, Books
  <2> QED BY <1>1, <1>9, <2>1, GaugeStays DEF TelemetryInv
<1> QED BY <1>8, <1>10 DEF TelemetryInv

\* Steps that count a request as cached or as an error.
LEMMA CountOfIs ==
    ASSUME Books, NEW r \in Watched, NEW what \in {"cached", "errors"}, CountOf(r, what)
    PROVE  /\ metrics' \in MetricTypes /\ metrics'.active = metrics.active
           /\ metrics'.total = metrics'.success + metrics'.errors + metrics'.cached
           /\ Extremes(metrics', samples)
           /\ counts' = [counts EXCEPT ![r] = counts[r] + 1] /\ counts[r] \in Nat
<1>1. metrics \in MetricTypes /\ metrics.total = metrics.success + metrics.errors + metrics.cached
      /\ Extremes(metrics, samples) /\ counts \in [Watched -> Nat]
  BY DEF Books
<1>2. metrics' = [metrics EXCEPT ![what] = metrics[what] + 1, !.total = metrics.total + 1]
  BY DEF CountOf
<1>3. PICK m, x, c, t : m = metrics /\ x = metrics' /\ c = metrics[what] + 1 /\ t = metrics.total + 1
  OBVIOUS
<1>4. m \in MetricTypes /\ c \in Nat /\ t \in Nat
  <2>1. metrics.cached \in Nat /\ metrics.errors \in Nat /\ metrics.total \in Nat
    BY <1>1 DEF MetricTypes
  <2>2. metrics[what] \in Nat
    BY <2>1
  <2> QED BY <1>1, <1>3, <2>1, <2>2
<1>5. x \in MetricTypes /\ x.active = m.active /\ x.min = m.min /\ x.max = m.max /\ x.p50 = m.p50 /\ x.p99 = m.p99
      /\ x.total = t /\ x.success = m.success
      /\ (what = "cached" => x.cached = c /\ x.errors = m.errors)
      /\ (what = "errors" => x.errors = c /\ x.cached = m.cached)
  <2>1. CASE what = "cached"
    <3>1. x = [m EXCEPT !.cached = c, !.total = t]
      BY <1>2, <1>3, <2>1
    <3> QED BY <1>4, <2>1, <3>1 DEF MetricTypes
  <2>2. CASE what = "errors"
    <3>1. x = [m EXCEPT !.errors = c, !.total = t]
      BY <1>2, <1>3, <2>2
    <3> QED BY <1>4, <2>2, <3>1 DEF MetricTypes
  <2> QED BY <2>1, <2>2
<1>7. x.total = x.success + x.errors + x.cached
  <2>1. m.success \in Nat /\ m.errors \in Nat /\ m.cached \in Nat /\ m.total \in Nat
    BY <1>4 DEF MetricTypes
  <2>2. t = m.success + m.errors + m.cached + 1
    BY <1>1, <1>3
  <2>3. CASE what = "cached"
    <3>1. c = m.cached + 1
      BY <1>3, <2>3
    <3> QED BY <1>5, <2>1, <2>2, <2>3, <3>1
  <2>4. CASE what = "errors"
    <3>1. c = m.errors + 1
      BY <1>3, <2>4
    <3> QED BY <1>5, <2>1, <2>2, <2>4, <3>1
  <2> QED BY <2>3, <2>4
<1>8. Extremes(metrics', samples)
  BY <1>1, <1>3, <1>5 DEF Extremes
<1>9. counts' = [counts EXCEPT ![r] = counts[r] + 1] /\ counts[r] \in Nat
  BY <1>1 DEF CountOf
<1> QED BY <1>3, <1>5, <1>7, <1>8, <1>9

LEMMA CountedStep ==
    ASSUME TelemetryInv, NEW r \in Watched, ServedFromCache(r) \/ FellBack(r) \/ Caught(r)
    PROVE  TelemetryInv'
<1>1. /\ metrics' \in MetricTypes /\ metrics'.active = metrics.active
      /\ metrics'.total = metrics'.success + metrics'.errors + metrics'.cached
      /\ Extremes(metrics', samples) /\ samples' = samples
      /\ counts' = [counts EXCEPT ![r] = counts[r] + 1] /\ counts[r] \in Nat
  <2>1. samples' = samples /\ \E what \in {"cached", "errors"} : CountOf(r, what)
    BY DEF ServedFromCache, FellBack, Caught
  <2> QED BY <2>1, CountOfIs DEF TelemetryInv
<1>2. BookOf(phase[r], span[r], counts[r], excused[r])
  BY DEF TelemetryInv, Books
<1>3. PICK to \in Phases \ {"idle", "done"} : phase' = [phase EXCEPT ![r] = to]
  BY DEF ServedFromCache, FellBack, Caught, Moves, Phases
<1>4. PICK why \in SUBSET Excuses : excused' = [excused EXCEPT ![r] = why] /\ excused[r] \subseteq why
  <2>1. excused[r] \in SUBSET Excuses /\ excused = [excused EXCEPT ![r] = excused[r]]
    BY DEF TelemetryInv, Books
  <2>2. excused' = excused \/ \E x \in Excuses : Excuse(r, x)
    BY DEF ServedFromCache, FellBack, Caught, Excuses
  <2> QED BY <2>1, <2>2 DEF Excuse
<1>5. PICK s \in {"none", "open", "ended"} : span' = [span EXCEPT ![r] = s]
  <2>1. span[r] \in {"none", "open", "ended"} /\ span = [span EXCEPT ![r] = span[r]]
    BY DEF TelemetryInv, Books
  <2> QED BY <2>1 DEF ServedFromCache, FellBack, Caught, Ends
<1>6. phase'[r] = to /\ excused'[r] = why /\ span'[r] = s /\ counts'[r] = counts[r] + 1
  BY <1>1, <1>3, <1>4, <1>5 DEF TelemetryInv, Books
<1>7. BookOf(to, s, counts[r] + 1, why)
  <2>1. CASE ServedFromCache(r)
    BY <1>1, <1>2, <1>6, <2>1 DEF ServedFromCache, Moves, Ends, Excuse, BookOf, CountedBy, Phases, TelemetryInv, Books
  <2>2. CASE FellBack(r)
    BY <1>1, <1>2, <1>6, <2>2 DEF FellBack, Ends, Excuse, BookOf, CountedBy, Phases, TelemetryInv, Books
  <2>3. CASE Caught(r)
    BY <1>1, <1>2, <1>6, <2>3 DEF Caught, BookOf, CountedBy, Phases, TelemetryInv, Books
  <2> QED BY <2>1, <2>2, <2>3
<1>8. Books'
  <2>1. /\ phase' \in [Watched -> Phases] /\ span' \in [Watched -> {"none", "open", "ended"}]
        /\ excused' \in [Watched -> SUBSET Excuses] /\ counts' \in [Watched -> Nat]
        /\ \A q \in Watched \ {r} : /\ phase'[q] = phase[q] /\ span'[q] = span[q]
                                    /\ counts'[q] = counts[q] /\ excused'[q] = excused[q]
    BY <1>1, <1>3, <1>4, <1>5 DEF TelemetryInv, Books
  <2>2. samples' \in Seq(Nat) /\ Extremes(metrics', samples')
    BY <1>1 DEF TelemetryInv, Books
  <2> QED BY <1>1, <1>6, <1>7, <2>1, <2>2, OneBook DEF TelemetryInv
<1>9. InFlight' = InFlight
  <2>1. phase[r] \notin {"idle", "done"}
    BY DEF ServedFromCache, FellBack, Caught, Moves
  <2> QED BY <1>3, <1>6, <2>1 DEF InFlight, TelemetryInv, Books
<1>10. Gauged'
  <2>1. \A q \in Watched : excused[q] \subseteq excused'[q]
    BY <1>4 DEF TelemetryInv, Books
  <2> QED BY <1>1, <1>9, <2>1, GaugeStays DEF TelemetryInv
<1> QED BY <1>8, <1>10 DEF TelemetryInv

\* One more sample, and what is told of them is between the extremes.
Added(kept, ms) == Append(IF Len(kept) >= MaxSamples THEN Tail(kept) ELSE kept, ms)
LEMMA KeptBetween ==
    ASSUME NEW kept \in Seq(Nat), NEW low \in Nat, NEW high \in Nat, NEW ms \in Nat,
           \A i \in DOMAIN kept : low <= kept[i] /\ kept[i] <= high,
           NEW less \in Nat, less <= ms, kept # <<>> => less <= low,
           NEW top \in Nat, ms <= top, high <= top
    PROVE  /\ Added(kept, ms) \in Seq(Nat) /\ Added(kept, ms) # <<>>
           /\ \A i \in DOMAIN Added(kept, ms) : less <= Added(kept, ms)[i] /\ Added(kept, ms)[i] <= top
<1>1. PICK more, old : more = Added(kept, ms) /\ old = IF Len(kept) >= MaxSamples THEN Tail(kept) ELSE kept
  OBVIOUS
<1>2. MaxSamples \in Nat /\ MaxSamples >= 1
  BY TelemetryAssumption
<1>3. old \in Seq(Nat) /\ \A i \in DOMAIN old : low <= old[i] /\ old[i] <= high
  <2>1. CASE Len(kept) >= MaxSamples
    <3>1. kept # <<>> /\ old = Tail(kept) /\ Len(kept) \in Nat /\ DOMAIN kept = 1..Len(kept)
      BY <1>1, <1>2, <2>1
    <3>2. old \in Seq(Nat) /\ Len(old) = Len(kept) - 1 /\ DOMAIN old = 1..Len(old) /\ \A i \in 1..(Len(kept) - 1) : old[i] = kept[i + 1]
      BY <3>1
    <3>3. ASSUME NEW i \in DOMAIN old PROVE low <= old[i] /\ old[i] <= high
      <4>1. i \in 1..(Len(kept) - 1) /\ i + 1 \in DOMAIN kept
        BY <3>1, <3>2
      <4> QED BY <3>2, <4>1
    <3> QED BY <3>2, <3>3
  <2>2. CASE ~(Len(kept) >= MaxSamples)
    BY <1>1, <2>2
  <2> QED BY <2>1, <2>2
<1>4. /\ more = Append(old, ms) /\ more \in Seq(Nat) /\ Len(more) = Len(old) + 1 /\ Len(old) \in Nat
      /\ DOMAIN more = 1..(Len(old) + 1) /\ DOMAIN old = 1..Len(old)
      /\ more[Len(old) + 1] = ms /\ \A i \in 1..Len(old) : more[i] = old[i] /\ old[i] \in Nat
  BY <1>1, <1>3 DEF Added
<1>5. kept = <<>> => old = <<>>
  BY <1>1, <1>2
<1>6. less <= ms /\ ms <= top /\ high <= top /\ (kept # <<>> => less <= low)
  OBVIOUS
<1>7. ASSUME NEW i \in DOMAIN more PROVE less <= more[i] /\ more[i] <= top
  <2>1. CASE i = Len(old) + 1
    BY <1>4, <1>6, <2>1
  <2>2. CASE i \in 1..Len(old)
    <3>1. kept # <<>>
      BY <1>4, <1>5, <2>2
    <3>2. low <= old[i] /\ old[i] <= high /\ more[i] = old[i] /\ old[i] \in Nat
      BY <1>3, <1>4, <2>2
    <3>3. less <= low /\ high <= top
      BY <1>6, <3>1
    <3>4. PICK x : x = old[i]
      OBVIOUS
    <3> QED BY <3>2, <3>3, <3>4
  <2> QED BY <1>4, <2>1, <2>2
<1>8. more # <<>>
  <2>1. Len(more) # 0
    BY <1>4
  <2> QED BY <2>1
<1> QED BY <1>1, <1>4, <1>7, <1>8

LEMMA QuantilesBetween ==
    ASSUME NEW kept \in Seq(Nat), kept # <<>>, NEW low \in Nat, NEW high \in Nat,
           \A i \in DOMAIN kept : low <= kept[i] /\ kept[i] <= high
    PROVE  /\ Quantile(kept, 50) \in Nat /\ Quantile(kept, 99) \in Nat
           /\ low <= Quantile(kept, 50) /\ Quantile(kept, 50) <= Quantile(kept, 99)
           /\ Quantile(kept, 99) <= high
<1>1. PICK p, q : p = ((Len(kept) - 1) * 50) \div 100 /\ q = ((Len(kept) - 1) * 99) \div 100
  OBVIOUS
<1>2. p \in Nat /\ q \in Nat /\ p <= q /\ q < Len(kept) /\ p < Len(kept)
  <2>1. Len(kept) \in Nat /\ Len(kept) >= 1
    OBVIOUS
  <2> QED BY <1>1, <2>1
<1>3. Quantile(kept, 50) = Sorted(kept, p) /\ Quantile(kept, 99) = Sorted(kept, q)
  BY <1>1 DEF Quantile
<1>4. \A i \in DOMAIN kept : kept[i] <= high
  OBVIOUS
<1>5. Sorted(kept, p) \in Nat /\ \E i \in DOMAIN kept : kept[i] = Sorted(kept, p)
  BY <1>2, <1>4, SortedIs
<1>6. Sorted(kept, q) \in Nat /\ \E i \in DOMAIN kept : kept[i] = Sorted(kept, q)
  BY <1>2, <1>4, SortedIs
<1>7. Sorted(kept, p) <= Sorted(kept, q)
  BY <1>2, <1>4, SortedAscends
<1>8. low <= Sorted(kept, p) /\ Sorted(kept, q) <= high
  BY <1>5, <1>6
<1> QED BY <1>3, <1>5, <1>6, <1>7, <1>8

\* recordSuccess.
LEMMA SuccessIs ==
    ASSUME Books, NEW r \in Watched, NEW ms \in Nat, recordSuccess(r, ms)
    PROVE  /\ metrics' \in MetricTypes /\ metrics'.active = metrics.active
           /\ metrics'.total = metrics'.success + metrics'.errors + metrics'.cached
           /\ samples' \in Seq(Nat) /\ Extremes(metrics', samples')
           /\ counts' = [counts EXCEPT ![r] = counts[r] + 1] /\ counts[r] \in Nat
<1>1. metrics \in MetricTypes /\ metrics.total = metrics.success + metrics.errors + metrics.cached
      /\ Extremes(metrics, samples) /\ counts \in [Watched -> Nat] /\ samples \in Seq(Nat)
  BY DEF Books
<1>2. /\ metrics.success \in Nat /\ metrics.errors \in Nat /\ metrics.cached \in Nat /\ metrics.total \in Nat
      /\ metrics.min \in Nat /\ metrics.max \in Nat /\ metrics.active \in Nat
  BY <1>1 DEF MetricTypes
<1>3. PICK m, x, s, t, less, top, more, low, high :
        /\ m = metrics /\ x = metrics' /\ s = metrics.success + 1 /\ t = metrics.total + 1
        /\ less = IF samples = <<>> THEN ms ELSE Smaller(metrics.min, ms)
        /\ top = Larger(metrics.max, ms)
        /\ more = samples' /\ low = Quantile(samples', 50) /\ high = Quantile(samples', 99)
  OBVIOUS
<1>4. s \in Nat /\ t \in Nat /\ less \in Nat /\ top \in Nat
  <2>1. s \in Nat /\ t \in Nat
    <3>1. metrics.success + 1 \in Nat /\ metrics.total + 1 \in Nat
      BY <1>2
    <3> QED BY <1>3, <3>1
  <2>2. Smaller(metrics.min, ms) \in Nat /\ Larger(metrics.max, ms) \in Nat
    BY <1>2 DEF Smaller, Larger
  <2> QED BY <1>3, <2>1, <2>2
<1>5. more = Added(samples, ms)
  BY <1>3 DEF recordSuccess, KeptSamples, Added
<1>6. \A i \in DOMAIN samples : metrics.min <= samples[i] /\ samples[i] <= metrics.max
  BY <1>1 DEF Extremes
<1>7. more \in Seq(Nat) /\ more # <<>> /\ \A i \in DOMAIN more : less <= more[i] /\ more[i] <= top
  <2>1. PICK a, b : a = metrics.min /\ b = metrics.max
    OBVIOUS
  <2>2. a \in Nat /\ b \in Nat /\ \A i \in DOMAIN samples : a <= samples[i] /\ samples[i] <= b
    BY <1>2, <1>6, <2>1
  <2>3. less <= ms /\ (samples # <<>> => less <= a)
    BY <1>3, <2>1, <2>2 DEF Smaller
  <2>4. ms <= top /\ b <= top
    BY <1>3, <2>1, <2>2 DEF Larger
  <2>5. more \in Seq(Nat) /\ more # <<>>
    BY <1>1, <1>4, <1>5, <2>2, <2>3, <2>4, KeptBetween
  <2>6. \A i \in DOMAIN more : less <= more[i] /\ more[i] <= top
    BY <1>1, <1>4, <1>5, <2>2, <2>3, <2>4, KeptBetween
  <2> QED BY <2>5, <2>6
<1>8. low \in Nat /\ high \in Nat /\ less <= low /\ low <= high /\ high <= top
  BY <1>3, <1>4, <1>7, QuantilesBetween
<1>9. x = [m EXCEPT !.success = s, !.total = t, !.min = less, !.max = top, !.p50 = low, !.p99 = high]
  <2>1. metrics' = [metrics EXCEPT !.success = metrics.success + 1, !.total = metrics.total + 1,
                       !.min = IF samples = <<>> THEN ms ELSE Smaller(metrics.min, ms),
                       !.max = Larger(metrics.max, ms),
                       !.p50 = Quantile(samples', 50), !.p99 = Quantile(samples', 99)]
    BY DEF recordSuccess
  <2> QED BY <1>3, <2>1
<1>10. x \in MetricTypes
  <2>1. m \in MetricTypes
    BY <1>1, <1>3
  <2> QED BY <1>4, <1>8, <1>9, <2>1 DEF MetricTypes
<1>11. x.success = s /\ x.total = t /\ x.min = less /\ x.max = top /\ x.p50 = low /\ x.p99 = high
       /\ x.active = m.active /\ x.errors = m.errors /\ x.cached = m.cached
  BY <1>1, <1>3, <1>9 DEF MetricTypes
<1>12. x.total = x.success + x.errors + x.cached
  <2>1. x.total = metrics.total + 1 /\ x.success = metrics.success + 1 /\ x.errors = metrics.errors /\ x.cached = metrics.cached
    BY <1>3, <1>11
  <2>2. PICK a, b, c, d : a = metrics.total /\ b = metrics.success /\ c = metrics.errors /\ d = metrics.cached
    OBVIOUS
  <2>3. a \in Nat /\ b \in Nat /\ c \in Nat /\ d \in Nat /\ a = b + c + d
    BY <1>1, <1>2, <2>2
  <2>4. a + 1 = b + 1 + c + d
    BY <2>3
  <2> QED BY <2>1, <2>2, <2>4
<1>13. Extremes(x, more)
  BY <1>7, <1>8, <1>11 DEF Extremes
<1>14. counts' = [counts EXCEPT ![r] = counts[r] + 1] /\ counts[r] \in Nat
  BY <1>1 DEF recordSuccess
<1> QED BY <1>3, <1>7, <1>10, <1>11, <1>12, <1>13, <1>14

LEMMA RespondedStep ==
    ASSUME TelemetryInv, NEW r \in Watched, NEW ms \in Durations, Responded(r, ms)
    PROVE  TelemetryInv'
<1>1. ms \in Nat
  BY TelemetryAssumption
<1>2. PICK to \in {"succeeding", "caught"} : phase' = [phase EXCEPT ![r] = to]
  BY DEF Responded, Moves
<1>3. phase[r] = "asking" /\ span' = span /\ excused' = excused
  BY DEF Responded
<1>4. /\ metrics' \in MetricTypes /\ metrics'.active = metrics.active
      /\ metrics'.total = metrics'.success + metrics'.errors + metrics'.cached
      /\ samples' \in Seq(Nat) /\ Extremes(metrics', samples')
      /\ counts' \in [Watched -> Nat] /\ \A q \in Watched \ {r} : counts'[q] = counts[q]
      /\ counts'[r] = counts[r] + CountedBy(to, {})
  <2>1. CASE recordSuccess(r, ms) /\ to = "succeeding"
    <3>1. /\ metrics' \in MetricTypes /\ metrics'.active = metrics.active
          /\ metrics'.total = metrics'.success + metrics'.errors + metrics'.cached
          /\ samples' \in Seq(Nat) /\ Extremes(metrics', samples')
          /\ counts' = [counts EXCEPT ![r] = counts[r] + 1] /\ counts[r] \in Nat
      BY <1>1, <2>1, SuccessIs DEF TelemetryInv
    <3>2. counts \in [Watched -> Nat] /\ CountedBy(to, {}) = 1
      BY <2>1 DEF TelemetryInv, Books, CountedBy
    <3>3. counts' \in [Watched -> Nat] /\ counts'[r] = counts[r] + 1 /\ \A q \in Watched \ {r} : counts'[q] = counts[q]
      BY <3>1, <3>2
    <3> QED BY <3>1, <3>2, <3>3
  <2>2. CASE UNCHANGED <<metrics, samples, counts>> /\ to = "caught"
    BY <2>2 DEF TelemetryInv, Books, CountedBy
  <2> QED BY <1>2, <2>1, <2>2 DEF Responded, Moves, TelemetryInv, Books
<1>5. BookOf(phase[r], span[r], counts[r], excused[r])
  BY DEF TelemetryInv, Books
<1>6. phase'[r] = to
  BY <1>2 DEF TelemetryInv, Books
<1>7. BookOf(to, span[r], counts'[r], excused[r])
  BY <1>2, <1>3, <1>4, <1>5 DEF BookOf, CountedBy, Phases
<1>8. Books'
  <2>1. /\ phase' \in [Watched -> Phases] /\ \A q \in Watched \ {r} : phase'[q] = phase[q]
    BY <1>2 DEF TelemetryInv, Books, Phases
  <2> QED BY <1>3, <1>4, <1>6, <1>7, <2>1, OneBook DEF TelemetryInv, Books
<1>9. InFlight' = InFlight
  BY <1>2, <1>3, <1>6 DEF InFlight, TelemetryInv, Books
<1>10. Gauged'
  BY <1>3, <1>4, <1>9, GaugeStays DEF TelemetryInv
<1> QED BY <1>8, <1>10 DEF TelemetryInv

\* The gauge.
LEMMA ActiveSet ==
    ASSUME NEW m \in MetricTypes, NEW n \in Nat, NEW kept, Extremes(m, kept),
           NEW x, x = [m EXCEPT !.active = n]
    PROVE  /\ x \in MetricTypes /\ x.active = n /\ x.total = m.total
           /\ x.success = m.success /\ x.errors = m.errors /\ x.cached = m.cached
           /\ Extremes(x, kept)
BY DEF MetricTypes, Extremes

LEMMA BeginWatchStep ==
    ASSUME TelemetryInv, NEW r \in Watched, BeginWatch(r)
    PROVE  TelemetryInv'
<1>1. metrics \in MetricTypes /\ metrics.active \in Nat
  BY DEF TelemetryInv, Books, MetricTypes
<1>2. metrics' = [metrics EXCEPT !.active = metrics.active + 1]
      /\ phase[r] = "idle" /\ phase' = [phase EXCEPT ![r] = "begun"]
      /\ span' = span /\ samples' = samples /\ counts' = counts /\ excused' = excused
  BY DEF BeginWatch, Moves
<1>3. PICK n : n = metrics.active + 1
  OBVIOUS
<1>4. /\ metrics' \in MetricTypes /\ metrics'.active = n /\ metrics'.total = metrics.total
      /\ metrics'.success = metrics.success /\ metrics'.errors = metrics.errors /\ metrics'.cached = metrics.cached
      /\ Extremes(metrics', samples)
  <2>1. n \in Nat /\ metrics' = [metrics EXCEPT !.active = n] /\ Extremes(metrics, samples)
    BY <1>1, <1>2, <1>3 DEF TelemetryInv, Books
  <2> QED BY <1>1, <2>1, ActiveSet
<1>5. phase'[r] = "begun"
  BY <1>2 DEF TelemetryInv, Books
<1>6. Books'
  <2>1. BookOf(phase[r], span[r], counts[r], excused[r])
    BY DEF TelemetryInv, Books
  <2>2. BookOf("begun", span[r], counts[r], excused[r])
    BY <1>2, <2>1 DEF BookOf, CountedBy, Phases
  <2>3. /\ phase' \in [Watched -> Phases] /\ \A q \in Watched \ {r} : phase'[q] = phase[q]
    BY <1>2 DEF TelemetryInv, Books, Phases
  <2> QED BY <1>2, <1>4, <1>5, <2>2, <2>3, OneBook DEF TelemetryInv, Books
<1>7. InFlight' = InFlight \cup {r} /\ r \notin InFlight
  BY <1>2, <1>5 DEF InFlight, TelemetryInv, Books
<1>8. Cardinality(InFlight') = Cardinality(InFlight) + 1 /\ Cardinality(InFlight) \in Nat
  BY <1>7, WatchedCounted, FS_AddElement
<1>9. Gauged'
  BY <1>1, <1>2, <1>3, <1>4, <1>8 DEF Gauged, TelemetryInv
<1> QED BY <1>6, <1>9 DEF TelemetryInv

LEMMA EndWatchStep ==
    ASSUME TelemetryInv, NEW r \in Watched, EndWatch(r)
    PROVE  TelemetryInv'
<1>1. metrics \in MetricTypes /\ metrics.active \in Nat
  BY DEF TelemetryInv, Books, MetricTypes
<1>2. metrics' = [metrics EXCEPT !.active = Larger(0, metrics.active - 1)]
      /\ phase[r] = "ending" /\ phase' = [phase EXCEPT ![r] = "done"]
      /\ span' = span /\ samples' = samples /\ counts' = counts /\ excused' = excused
  BY DEF EndWatch, Moves, Decremented
<1>3. PICK n : n = Larger(0, metrics.active - 1)
  OBVIOUS
<1>4. n \in Nat /\ (metrics.active >= 1 => n = metrics.active - 1) /\ (metrics.active = 0 => n = 0)
  BY <1>1, <1>3 DEF Larger
<1>5. /\ metrics' \in MetricTypes /\ metrics'.active = n /\ metrics'.total = metrics.total
      /\ metrics'.success = metrics.success /\ metrics'.errors = metrics.errors /\ metrics'.cached = metrics.cached
      /\ Extremes(metrics', samples)
  <2>1. metrics' = [metrics EXCEPT !.active = n] /\ Extremes(metrics, samples)
    BY <1>2, <1>3 DEF TelemetryInv, Books
  <2> QED BY <1>1, <1>4, <2>1, ActiveSet
<1>6. phase'[r] = "done"
  BY <1>2 DEF TelemetryInv, Books
<1>7. Books'
  <2>1. BookOf(phase[r], span[r], counts[r], excused[r])
    BY DEF TelemetryInv, Books
  <2>2. BookOf("done", span[r], counts[r], excused[r])
    BY <1>2, <2>1 DEF BookOf, CountedBy, Phases
  <2>3. /\ phase' \in [Watched -> Phases] /\ \A q \in Watched \ {r} : phase'[q] = phase[q]
    BY <1>2 DEF TelemetryInv, Books, Phases
  <2> QED BY <1>2, <1>5, <1>6, <2>2, <2>3, OneBook DEF TelemetryInv, Books
<1>8. InFlight' = InFlight \ {r} /\ r \in InFlight
  BY <1>2, <1>6 DEF InFlight, TelemetryInv, Books
<1>9. Cardinality(InFlight') = Cardinality(InFlight) - 1 /\ Cardinality(InFlight) \in Nat
  BY <1>8, WatchedCounted, FS_RemoveElement
<1>10. Cardinality(InFlight) >= 1
  <2>1. Cardinality(InFlight') \in Nat
    <3>1. IsFiniteSet(InFlight')
      BY <1>8, WatchedCounted, FS_Subset
    <3> QED BY <3>1, FS_CardinalityType
  <2> QED BY <1>9, <2>1
<1>11. Gauged'
  BY <1>1, <1>2, <1>4, <1>5, <1>9, <1>10 DEF Gauged, TelemetryInv
<1> QED BY <1>7, <1>11 DEF TelemetryInv

\* A reset, which leaves those under way out of the numbers.
LEMMA ResetStep ==
    ASSUME TelemetryInv, ResetMetrics
    PROVE  TelemetryInv'
<1>1. /\ phase' = phase /\ span' = span /\ metrics' = Fresh /\ samples' = <<>> /\ counts' = [r \in Watched |-> 0]
      /\ excused' = [r \in Watched |-> IF r \in InFlight \/ phase[r] = "done" THEN excused[r] \cup {"reset"}
                                       ELSE excused[r]]
  BY DEF ResetMetrics
<1>2. ASSUME NEW r \in Watched PROVE BookOf(phase'[r], span'[r], counts'[r], excused'[r])
  <2>1. BookOf(phase[r], span[r], counts[r], excused[r])
    BY DEF TelemetryInv, Books
  <2>2. counts'[r] = 0 /\ phase'[r] = phase[r] /\ span'[r] = span[r]
    BY <1>1
  <2>3. CASE phase[r] = "idle"
    <3>1. excused'[r] = excused[r]
      BY <1>1, <2>3 DEF InFlight
    <3> QED BY <2>1, <2>2, <2>3, <3>1 DEF BookOf
  <2>4. CASE phase[r] # "idle"
    <3>1. excused'[r] = excused[r] \cup {"reset"}
      BY <1>1, <2>4 DEF InFlight
    <3> QED BY <2>1, <2>2, <2>4, <3>1 DEF BookOf
  <2> QED BY <2>3, <2>4
<1>3. excused' \in [Watched -> SUBSET Excuses]
  BY <1>1 DEF TelemetryInv, Books, Excuses
<1>4. Books'
  <2>1. metrics' \in MetricTypes /\ metrics'.total = metrics'.success + metrics'.errors + metrics'.cached
    BY <1>1 DEF Fresh, MetricTypes
  <2>2. Extremes(metrics', samples') /\ samples' \in Seq(Nat)
    BY <1>1 DEF Extremes
  <2>3. phase' \in [Watched -> Phases] /\ span' \in [Watched -> {"none", "open", "ended"}] /\ counts' \in [Watched -> Nat]
    BY <1>1 DEF TelemetryInv, Books
  <2> QED BY <1>2, <1>3, <2>1, <2>2, <2>3 DEF Books
<1>5. InFlight' = InFlight /\ metrics'.active = 0
  BY <1>1 DEF InFlight, Fresh
<1>6. (\A r \in Watched : "reset" \notin excused'[r]) => InFlight = {}
  BY <1>1 DEF InFlight
<1>7. Gauged'
  BY <1>5, <1>6, WatchedCounted, FS_EmptySet DEF Gauged
<1> QED BY <1>4, <1>7 DEF TelemetryInv

LEMMA TelemetryStep ==
    ASSUME TelemetryInv, [TelemetryNext]_telemetryVars
    PROVE  TelemetryInv'
<1>1. ASSUME NEW r \in Watched, BeginWatch(r) PROVE TelemetryInv'
  BY <1>1, BeginWatchStep
<1>2. ASSUME NEW r \in Watched,
             Opened(r) \/ PluginAnswers(r) \/ Admitted(r) \/ Failed(r) \/ Succeeded(r) \/ ErrorReported(r) \/ Told(r)
      PROVE  TelemetryInv'
  BY <1>2, UncountedStep
<1>3. ASSUME NEW r \in Watched, ServedFromCache(r) \/ FellBack(r) \/ Caught(r) PROVE TelemetryInv'
  BY <1>3, CountedStep
<1>4. ASSUME NEW r \in Watched, NEW ms \in Durations, Responded(r, ms) PROVE TelemetryInv'
  BY <1>4, RespondedStep
<1>5. ASSUME NEW r \in Watched, EndWatch(r) PROVE TelemetryInv'
  BY <1>5, EndWatchStep
<1>6. CASE ResetMetrics
  BY <1>6, ResetStep
<1>7. CASE UNCHANGED telemetryVars
  <2>1. InFlight' = InFlight
    BY <1>7 DEF telemetryVars, InFlight
  <2> QED BY <1>7, <2>1 DEF telemetryVars, TelemetryInv, Books, Gauged
<1> QED BY <1>1, <1>2, <1>3, <1>4, <1>5, <1>6, <1>7 DEF TelemetryNext

LEMMA BooksBalance == TelemetryInv => Balanced
<1> SUFFICES ASSUME TelemetryInv PROVE Balanced
  OBVIOUS
<1>1. ASSUME NEW r \in Watched, phase[r] = "done"
      PROVE  /\ "reset" \notin excused[r] =>
                    counts[r] = IF "mocked" \in excused[r] THEN 0 ELSE IF "late" \in excused[r] THEN 2 ELSE 1
             /\ span[r] = "open" => "unended" \in excused[r]
  <2>1. BookOf(phase[r], span[r], counts[r], excused[r])
    BY DEF TelemetryInv, Books
  <2> QED BY <1>1, <2>1 DEF BookOf, CountedBy
<1> QED BY <1>1 DEF TelemetryInv, Books, Gauged, Extremes, Balanced

-----------------------------------------------------------------------------
\* BrowserClient: what is known of a request at each place.  Who has slipped was counted
\* before and may be counted again.
NumbersOf(place, asks, counted, said, slip) ==
    /\ asks \in BOOLEAN
    /\ place \in {"idle", "preparing", "asking"} => ~asks /\ counted = {} /\ said = {} /\ ~slip
    /\ place \in {"fetching", "settling"} => asks /\ counted = {} /\ said = {} /\ ~slip
    /\ place = "reporting" => asks /\ counted = {"success"} /\ said = {"success"} /\ ~slip
    /\ place = "failing" => (~slip => counted = {} /\ said = {}) /\ (~asks => said = {})
    /\ place = "ending" =>
         /\ asks => counted # {}
         /\ ~asks => said = {}
         /\ ~slip => /\ \E kind : counted \subseteq {kind}
                     /\ "success" \in said <=> counted = {"success"}
                     /\ "failure" \in said <=> asks /\ counted = {"error"}
BrowserPlaces == {"idle", "preparing", "asking", "fetching", "settling", "reporting", "failing", "ending"}
NumbersHold ==
    /\ at \in [Users -> BrowserPlaces] /\ DOMAIN checked = Users /\ DOMAIN tally = Users
    /\ DOMAIN told = Users /\ DOMAIN slipped = Users
    /\ \A r \in Users : NumbersOf(at[r], checked[r], tally[r], told[r], slipped[r])
    /\ gauge \in Nat
GaugeExact == gauge <= Cardinality(Busy) /\ (~skewed => gauge = Cardinality(Busy))
ReportInv == NumbersHold /\ GaugeExact

LEMMA BusyCounted ==
    IsFiniteSet(Busy) /\ Cardinality(Busy) \in Nat
<1>1. Busy \subseteq Users
  BY DEF Busy
<1>2. IsFiniteSet(Busy)
  BY <1>1, BrowserAssumption, FS_Subset
<1> QED BY <1>2, FS_CardinalityType

LEMMA ReportInitially == BrowserInit => ReportInv
<1> SUFFICES ASSUME BrowserInit PROVE ReportInv
  OBVIOUS
<1>1. Busy = {}
  BY DEF BrowserInit, Busy
<1>2. GaugeExact
  BY <1>1, FS_EmptySet DEF GaugeExact, BrowserInit
<1>3. NumbersHold
  BY DEF NumbersHold, BrowserInit, NumbersOf, BrowserPlaces
<1> QED BY <1>2, <1>3 DEF ReportInv

\* The steps of a request between its begin and its end.
Within(r) ==
    \/ Mocked(r) \/ Rejected(r) \/ Miss(r) \/ Ask(r) \/ BrowserAnswers(r) \/ Settle(r) \/ Report(r) \/ Fail(r)
    \/ \E k \in Keys : Hit(r, k)

LEMMA WithinNumbers ==
    ASSUME NumbersHold, NEW r \in Users, Within(r)
    PROVE  /\ at[r] # "idle" /\ gauge' = gauge /\ skewed' = skewed
           /\ \E to \in BrowserPlaces \ {"idle"} : at' = [at EXCEPT ![r] = to]
           /\ DOMAIN checked' = Users /\ DOMAIN tally' = Users /\ DOMAIN told' = Users /\ DOMAIN slipped' = Users
           /\ \A q \in Users \ {r} : /\ checked'[q] = checked[q] /\ tally'[q] = tally[q]
                                    /\ told'[q] = told[q] /\ slipped'[q] = slipped[q]
           /\ NumbersOf(at'[r], checked'[r], tally'[r], told'[r], slipped'[r])
<1>1. NumbersOf(at[r], checked[r], tally[r], told[r], slipped[r])
  BY DEF NumbersHold
<1> USE DEF NumbersHold, Goes, gaugeVars, BrowserPlaces
<1>2. CASE Mocked(r)
  BY <1>1, <1>2 DEF Mocked, NumbersOf
<1>3. CASE Rejected(r)
  BY <1>1, <1>3 DEF Rejected, NumbersOf
<1>4. CASE Miss(r)
  BY <1>1, <1>4 DEF Miss, NumbersOf
<1>5. CASE Ask(r)
  BY <1>1, <1>5 DEF Ask, NumbersOf
<1>6. CASE BrowserAnswers(r)
  BY <1>1, <1>6 DEF BrowserAnswers, NumbersOf
<1>7. CASE Settle(r)
  BY <1>1, <1>7 DEF Settle, Counted, NumbersOf
<1>8. CASE Report(r)
  BY <1>1, <1>8 DEF Report, Announced, Slips, NumbersOf
<1>9. CASE Fail(r)
  <2>1. at[r] = "failing" /\ at' = [at EXCEPT ![r] = "ending"] /\ checked' = checked /\ slipped' = slipped
        /\ gauge' = gauge /\ skewed' = skewed
    BY <1>9 DEF Fail
  <2>2. CASE Counted(r, "cached") /\ UNCHANGED told
    BY <1>1, <2>1, <2>2 DEF Counted, NumbersOf
  <2>3. CASE Counted(r, "error") /\ checked[r] /\ told' = [told EXCEPT ![r] = @ \cup {"failure"}]
    BY <1>1, <2>1, <2>3 DEF Counted, NumbersOf
  <2>4. CASE Counted(r, "error") /\ ~checked[r] /\ told' = told
    BY <1>1, <2>1, <2>4 DEF Counted, NumbersOf
  <2> QED BY <1>9, <2>2, <2>3, <2>4 DEF Fail
<1>10. ASSUME NEW k \in Keys, Hit(r, k)
       PROVE  /\ at[r] # "idle" /\ gauge' = gauge /\ skewed' = skewed
              /\ \E to \in BrowserPlaces \ {"idle"} : at' = [at EXCEPT ![r] = to]
              /\ DOMAIN checked' = Users /\ DOMAIN tally' = Users /\ DOMAIN told' = Users /\ DOMAIN slipped' = Users
              /\ \A q \in Users \ {r} : /\ checked'[q] = checked[q] /\ tally'[q] = tally[q]
                                       /\ told'[q] = told[q] /\ slipped'[q] = slipped[q]
              /\ NumbersOf(at'[r], checked'[r], tally'[r], told'[r], slipped'[r])
  BY <1>1, <1>10 DEF Hit, Counted, Announced, Slips, NumbersOf
<1> QED BY <1>2, <1>3, <1>4, <1>5, <1>6, <1>7, <1>8, <1>9, <1>10 DEF Within

LEMMA WithinStep ==
    ASSUME ReportInv, NEW r \in Users, Within(r)
    PROVE  ReportInv'
<1>1. PICK to \in BrowserPlaces \ {"idle"} : at' = [at EXCEPT ![r] = to]
  BY WithinNumbers DEF ReportInv
<1>2. at[r] # "idle" /\ gauge' = gauge /\ skewed' = skewed
  BY WithinNumbers DEF ReportInv
<1>3. /\ at' \in [Users -> BrowserPlaces] /\ at'[r] # "idle" /\ \A q \in Users \ {r} : at'[q] = at[q]
  BY <1>1 DEF ReportInv, NumbersHold
<1>4. Busy' = Busy
  BY <1>2, <1>3 DEF Busy
<1>5. ASSUME NEW q \in Users PROVE NumbersOf(at'[q], checked'[q], tally'[q], told'[q], slipped'[q])
  <2>1. CASE q = r
    BY <2>1, WithinNumbers DEF ReportInv
  <2>2. CASE q # r
    <3>1. NumbersOf(at[q], checked[q], tally[q], told[q], slipped[q])
      BY DEF ReportInv, NumbersHold
    <3>2. /\ checked'[q] = checked[q] /\ tally'[q] = tally[q] /\ told'[q] = told[q] /\ slipped'[q] = slipped[q]
      BY <2>2, WithinNumbers DEF ReportInv
    <3> QED BY <1>3, <2>2, <3>1, <3>2
  <2> QED BY <2>1, <2>2
<1>6. DOMAIN checked' = Users /\ DOMAIN tally' = Users /\ DOMAIN told' = Users /\ DOMAIN slipped' = Users
  BY WithinNumbers DEF ReportInv
<1>7. NumbersHold'
  BY <1>2, <1>3, <1>5, <1>6 DEF ReportInv, NumbersHold
<1> QED BY <1>2, <1>4, <1>7 DEF ReportInv, GaugeExact

LEMMA BeginStep ==
    ASSUME ReportInv, NEW r \in Users, Begin(r)
    PROVE  ReportInv'
<1>1. /\ at[r] = "idle" /\ at' = [at EXCEPT ![r] = "preparing"]
      /\ gauge' = gauge + 1 /\ skewed' = (skewed /\ Busy # {})
      /\ checked' = checked /\ tally' = tally /\ told' = told /\ slipped' = slipped
  BY DEF Begin, Goes
<1>2. /\ at' \in [Users -> BrowserPlaces] /\ at'[r] = "preparing" /\ \A q \in Users \ {r} : at'[q] = at[q]
      /\ gauge \in Nat
  BY <1>1 DEF ReportInv, NumbersHold, BrowserPlaces
<1>3. NumbersHold'
  <2>1. \A q \in Users : NumbersOf(at[q], checked[q], tally[q], told[q], slipped[q])
    BY DEF ReportInv, NumbersHold
  <2>2. NumbersOf("preparing", checked[r], tally[r], told[r], slipped[r])
    BY <1>1, <2>1 DEF NumbersOf
  <2>3. \A q \in Users : NumbersOf(at'[q], checked[q], tally[q], told[q], slipped[q])
    BY <1>2, <2>1, <2>2
  <2> QED BY <1>1, <1>2, <2>3 DEF ReportInv, NumbersHold
<1>4. Busy' = Busy \cup {r} /\ r \notin Busy
  BY <1>1, <1>2 DEF Busy
<1>5. Cardinality(Busy') = Cardinality(Busy) + 1 /\ Cardinality(Busy) \in Nat
  BY <1>4, BusyCounted, FS_AddElement
<1>6. Busy = {} => Cardinality(Busy) = 0
  BY FS_EmptySet
<1>7. gauge <= Cardinality(Busy) /\ (~skewed => gauge = Cardinality(Busy))
  BY DEF ReportInv, GaugeExact
<1>8. GaugeExact'
  <2>1. gauge' <= Cardinality(Busy')
    BY <1>1, <1>2, <1>5, <1>7
  <2>2. CASE Busy = {}
    BY <1>1, <1>2, <1>5, <1>6, <1>7, <2>1, <2>2 DEF GaugeExact
  <2>3. CASE Busy # {}
    BY <1>1, <1>2, <1>5, <1>7, <2>1, <2>3 DEF GaugeExact
  <2> QED BY <2>2, <2>3
<1> QED BY <1>3, <1>8 DEF ReportInv

LEMMA EndStep ==
    ASSUME ReportInv, NEW r \in Users, End(r)
    PROVE  ReportInv'
<1>1. /\ at[r] = "ending" /\ at' = [at EXCEPT ![r] = "idle"]
      /\ gauge' = (IF gauge = 0 THEN 0 ELSE gauge - 1) /\ skewed' = (skewed /\ Busy # {r})
      /\ checked' = [checked EXCEPT ![r] = FALSE] /\ tally' = [tally EXCEPT ![r] = {}]
      /\ told' = [told EXCEPT ![r] = {}] /\ slipped' = [slipped EXCEPT ![r] = FALSE]
  BY DEF End, Goes, recordEnd
<1>2. /\ at' \in [Users -> BrowserPlaces] /\ at'[r] = "idle" /\ \A q \in Users \ {r} : at'[q] = at[q]
      /\ gauge \in Nat
  BY <1>1 DEF ReportInv, NumbersHold, BrowserPlaces
<1>3. NumbersHold'
  <2>1. \A q \in Users : NumbersOf(at[q], checked[q], tally[q], told[q], slipped[q])
    BY DEF ReportInv, NumbersHold
  <2>2. NumbersOf("idle", FALSE, {}, {}, FALSE)
    BY DEF NumbersOf
  <2>3. /\ checked'[r] = FALSE /\ tally'[r] = {} /\ told'[r] = {} /\ slipped'[r] = FALSE
        /\ \A q \in Users \ {r} : /\ checked'[q] = checked[q] /\ tally'[q] = tally[q]
                                 /\ told'[q] = told[q] /\ slipped'[q] = slipped[q]
    BY <1>1 DEF ReportInv, NumbersHold
  <2>4. \A q \in Users : NumbersOf(at'[q], checked'[q], tally'[q], told'[q], slipped'[q])
    BY <1>2, <2>1, <2>2, <2>3
  <2>5. gauge' \in Nat
    BY <1>1, <1>2
  <2> QED BY <1>1, <1>2, <2>4, <2>5 DEF ReportInv, NumbersHold
<1>4. Busy' = Busy \ {r} /\ r \in Busy
  BY <1>1, <1>2 DEF Busy
<1>5. Cardinality(Busy') = Cardinality(Busy) - 1 /\ Cardinality(Busy) \in Nat
  BY <1>4, BusyCounted, FS_RemoveElement
<1>6. Cardinality(Busy') \in Nat
  <2>1. IsFiniteSet(Busy')
    BY <1>4, BusyCounted, FS_Subset
  <2> QED BY <2>1, FS_CardinalityType
<1>7. gauge <= Cardinality(Busy) /\ (~skewed => gauge = Cardinality(Busy))
  BY DEF ReportInv, GaugeExact
<1>8. Busy = {r} => Cardinality(Busy) = 1
  BY FS_Singleton
<1>9. GaugeExact'
  <2>1. gauge' <= Cardinality(Busy')
    BY <1>1, <1>2, <1>5, <1>6, <1>7
  <2>2. CASE Busy = {r}
    BY <1>1, <1>2, <1>5, <1>6, <1>7, <1>8, <2>1, <2>2 DEF GaugeExact
  <2>3. CASE Busy # {r}
    <3>1. ~skewed' => ~skewed
      BY <1>1, <2>3
    <3> QED BY <1>1, <1>2, <1>5, <1>6, <1>7, <2>1, <3>1 DEF GaugeExact
  <2> QED BY <2>2, <2>3
<1> QED BY <1>3, <1>9 DEF ReportInv

LEMMA ReportStep ==
    ASSUME ReportInv, [BrowserNext]_browserVars
    PROVE  ReportInv'
<1>1. ASSUME NEW r \in Users, Begin(r) PROVE ReportInv'
  BY <1>1, BeginStep
<1>2. ASSUME NEW r \in Users, Within(r) PROVE ReportInv'
  BY <1>2, WithinStep
<1>3. ASSUME NEW r \in Users, End(r) PROVE ReportInv'
  BY <1>3, EndStep
<1>4. CASE UNCHANGED <<requestVars, gaugeVars>>
  <2>1. Busy' = Busy
    BY <1>4 DEF requestVars, Busy
  <2>2. GaugeExact'
    BY <1>4, <2>1 DEF gaugeVars, GaugeExact, ReportInv
  <2>3. NumbersHold'
    BY <1>4 DEF requestVars, gaugeVars, NumbersHold, ReportInv
  <2> QED BY <2>2, <2>3 DEF ReportInv
<1>5. CASE Reset
  <2>1. gauge' = 0 /\ skewed' = (Busy # {}) /\ UNCHANGED requestVars
    BY <1>5 DEF Reset
  <2>2. Busy' = Busy
    BY <2>1 DEF requestVars, Busy
  <2>3. GaugeExact'
    <3>1. ~skewed' => Busy = {}
      BY <2>1
    <3>2. ~skewed' => Cardinality(Busy) = 0
      BY <3>1, FS_EmptySet
    <3> QED BY <2>1, <2>2, <3>2, BusyCounted DEF GaugeExact
  <2>4. NumbersHold'
    BY <2>1 DEF requestVars, NumbersHold, ReportInv
  <2> QED BY <2>3, <2>4 DEF ReportInv
<1>6. ASSUME NEW t \in Tasks, Revalidated(t) PROVE UNCHANGED <<requestVars, gaugeVars>>
  BY <1>6 DEF Revalidated
<1>7. ASSUME NEW k \in Keys, Age(k) \/ Delete(k) PROVE UNCHANGED <<requestVars, gaugeVars>>
  BY <1>7 DEF Age, Delete
<1>8. InvalidateAll \/ Sweep => UNCHANGED <<requestVars, gaugeVars>>
  BY DEF InvalidateAll, Sweep
<1>9. UNCHANGED browserVars => UNCHANGED <<requestVars, gaugeVars>>
  BY DEF browserVars
<1> QED BY <1>1, <1>2, <1>3, <1>4, <1>5, <1>6, <1>7, <1>8, <1>9 DEF BrowserNext, Within

LEMMA ReportsHold == ReportInv => Reported
<1> SUFFICES ASSUME ReportInv PROVE Reported
  OBVIOUS
<1>1. ASSUME NEW r \in Users, at[r] = "ending"
      PROVE  /\ checked[r] => tally[r] # {}
             /\ ~checked[r] => told[r] = {}
             /\ ~slipped[r] => /\ Cardinality(tally[r]) <= 1
                               /\ "success" \in told[r] <=> tally[r] = {"success"}
                               /\ "failure" \in told[r] <=> checked[r] /\ tally[r] = {"error"}
  <2>1. NumbersOf(at[r], checked[r], tally[r], told[r], slipped[r])
    BY DEF ReportInv, NumbersHold
  <2>2. ASSUME ~slipped[r] PROVE Cardinality(tally[r]) <= 1
    <3>1. PICK kind : tally[r] \subseteq {kind}
      BY <1>1, <2>1, <2>2 DEF NumbersOf
    <3>2. tally[r] = {} \/ tally[r] = {kind}
      BY <3>1
    <3>3. CASE tally[r] = {}
      BY <3>3, FS_EmptySet
    <3>4. CASE tally[r] = {kind}
      <4>1. Cardinality({kind}) = 1
        BY FS_Singleton
      <4> QED BY <3>4, <4>1
    <3> QED BY <3>2, <3>3, <3>4
  <2> QED BY <1>1, <2>1, <2>2 DEF NumbersOf
<1> QED BY <1>1 DEF ReportInv, GaugeExact, Reported

\* Telemetry and BrowserClient: every request is told of once as begun, how it ended and
\* as ended, by MetricsCollector, OpenTelemetryInstrumentation and BrowserMetrics, but for
\* what listeners, stores and plugins throw in between, in whatever order any number of
\* requests overlap and the metrics are reset.
THEOREM EachToldOnce == TelemetrySpec /\ BrowserSpec => []ToldOnce
<1>1. TelemetrySpec => []Balanced
  BY TelemetryInitially, TelemetryStep, BooksBalance, PTL DEF TelemetrySpec
<1>2. BrowserSpec => []Reported
  BY ReportInitially, ReportStep, ReportsHold, PTL DEF BrowserSpec
<1>3. Balanced /\ Reported => ToldOnce
  BY DEF ToldOnce
<1> QED BY <1>1, <1>2, <1>3, PTL
===============================================================================
