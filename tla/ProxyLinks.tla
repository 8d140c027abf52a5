----------------------------- MODULE ProxyLinks -----------------------------
(***************************************************************************)
(* How the panel turns a proxy service's saved configuration into the      *)
(* inbound a node's core is given and into the links users import, and how *)
(* the clients the panel writes for, and the cores of other nodes, read    *)
(* those links. Pure operators: a configuration is a record with the       *)
(* fields of its protocol, a link a record of what it carries, a read of   *)
(* either a set with at most one member, empty where the code returns an   *)
(* error.                                                                  *)
(*                                                                         *)
(* A secret stands for a UUID, a password or a name and a password, with   *)
(* the length that matters to Shadowsocks 2022. Left out is what no        *)
(* handshake depends on: ALPN, fingerprint, spider, MTU, sniffing, clock,  *)
(* fast open, the xhttp mode, and the listen address.                      *)
(***************************************************************************)
EXTENDS Integers, FiniteSets, Functions, SequencesExt, TLC

CONSTANTS
  Malformed,  \* keys, short ids and certificates a core would refuse
  Covers,     \* certificate -> the names it is good for
  Drafts,     \* configurations as admins save them
  Accounts    \* the users a service may have, besides the template's

Secret(id, len) == [id |-> id, len |-> len]
Fresh(len) == <<Secret("fresh", len)>>
Token(role, key) == [role |-> role, key |-> key, quoted |-> FALSE]
Hidden == {"", "omitted", "***"}  \* what a browser sends for a value it was not shown
NoToken == Token("", "")
Keyless == {"", "none"}           \* roles of the tokens that turn encryption off
Vision == "xtls-rprx-vision"
Filled(x, blank, default) == IF x = blank THEN default ELSE x

\* The settings every protocol has: live tells a list of users, maybe empty,
\* from none.
Common == [port |-> 0, pass |-> <<>>, live |-> FALSE, users |-> <<>>]
VLESSConfig == Common @@
  [proto |-> "vless", name |-> "", net |-> "", flow |-> "", sec |-> "", priv |-> "", pub |-> "",
   sid |-> "", anySid |-> FALSE, enc |-> NoToken, dec |-> NoToken, path |-> "", host |-> "",
   svc |-> "", insecure |-> FALSE, cert |-> ""]
SSConfig == Common @@ [proto |-> "ss", method |-> ""]
MieruConfig == Common @@ [proto |-> "mieru", transports |-> {}]
Socks5Config == Common @@ [proto |-> "socks5", auth |-> ""]
AnyTLSConfig == Common @@ [proto |-> "anytls", name |-> "", insecure |-> FALSE, cert |-> ""]
NaiveConfig == Common @@ [proto |-> "naive", net |-> "", name |-> "", insecure |-> FALSE, cert |-> ""]

-----------------------------------------------------------------------------
(* Names, and what a configuration must have before it is deployed *)

Alias(names, x) == IF x \in DOMAIN names THEN names[x] ELSE x
NormalizeSecurity(sec) ==
  Alias("" :> "reality" @@ "xtls" :> "tls" @@ "plain" :> "none" @@ "raw" :> "none", sec)
NormalizeNetwork(net) ==
  Alias("" :> "tcp" @@ "raw" :> "tcp" @@ "websocket" :> "ws" @@ "http-upgrade" :> "httpupgrade"
          @@ "splithttp" :> "xhttp" @@ "gun" :> "grpc", net)
NetworksForSecurity(sec) ==
  CASE NormalizeSecurity(sec) = "reality" -> {"tcp", "xhttp", "grpc"}
    [] NormalizeSecurity(sec) \in {"tls", "none"} -> {"tcp", "ws", "grpc", "xhttp", "httpupgrade"}
    [] OTHER -> {"tcp"}
NetworkAllowed(sec, net) == NormalizeNetwork(net) \in NetworksForSecurity(sec)
VisionAllowed(sec, net) ==
  NormalizeNetwork(net) = "tcp" /\ NormalizeSecurity(sec) \in {"reality", "tls"}

\* A certificate in date whose key fits, for the name clients will ask for.
NameInCertificate(cert, name) == name \in Covers[cert]
ValidateTLSCertPair(cert, name) ==
  cert \notin Malformed /\ (name # "" => NameInCertificate(cert, name))

ValidateVLESSDeploy(c) ==
  LET sec == NormalizeSecurity(c.sec) IN
  /\ NetworkAllowed(sec, c.net)
  /\ CASE sec = "reality" -> c.name # "" /\ c.priv # ""
       [] sec = "tls" -> c.name # "" /\ c.cert # "" /\ ValidateTLSCertPair(c.cert, c.name)
       [] OTHER -> sec = "none"

Is2022(method) == method \in {"2022-128", "2022-256", "2022-chacha20"}
NormalizeSSMethod(method) == Filled(method, "", "2022-128")
SSPasswordBytes(method) == IF method \in {"2022-128", "aes-128"} THEN 16 ELSE 32
\* Two keys joined by a colon, as links carry them, are not one key.
ValidateSSDeploy(c) ==
  /\ c.pass # <<>>
  /\ Is2022(NormalizeSSMethod(c.method)) =>
       Len(c.pass) = 1 /\ c.pass[1].len = SSPasswordBytes(NormalizeSSMethod(c.method))

\* The port a node listens on may be another one than the configuration's.
mitaBindable(port) == port \in 1025 .. 65535
ValidateMieruDeploy(c, port) == mitaBindable(Filled(port, 0, c.port)) /\ c.pass # <<>>
ValidateSocks5Deploy(c) ==
  Filled(c.auth, "", "password") \in {"password", "none"} /\ (c.auth # "none" => c.pass # <<>>)
ValidateAnyTLSDeploy(c) ==
  c.pass # <<>> /\ c.name # "" /\ c.cert # "" /\ ValidateTLSCertPair(c.cert, c.name)
ValidateNaiveDeploy(c) ==
  /\ c.pass # <<>> /\ c.name # "" /\ c.cert # "" /\ ValidateTLSCertPair(c.cert, c.name)
  /\ c.net \in {"", "tcp", "udp"}

validateProxyConfigForPublish(c) ==
  CASE c.proto = "vless" -> ValidateVLESSDeploy(c)
    [] c.proto = "ss" -> ValidateSSDeploy(c)
    [] c.proto = "mieru" -> ValidateMieruDeploy(c, 0)
    [] c.proto = "socks5" -> ValidateSocks5Deploy(c)
    [] c.proto = "anytls" -> ValidateAnyTLSDeploy(c)
    [] c.proto = "naive" -> ValidateNaiveDeploy(c)

\* A draft may lack what publishing needs, but not hold a certificate that
\* does not fit, nor a transport its security layer does not carry.
validateProxyConfigForSave(c) ==
  CASE c.proto = "vless" ->
         IF NormalizeSecurity(c.sec) = "tls" /\ c.cert # "" THEN ValidateTLSCertPair(c.cert, c.name)
         ELSE NetworkAllowed(c.sec, c.net)
    [] c.proto \in {"anytls", "naive"} -> c.cert # "" => ValidateTLSCertPair(c.cert, c.name)
    [] OTHER -> TRUE

-----------------------------------------------------------------------------
(* VLESS encryption: 0rtt for clients, 600s for servers, of one key pair *)

normalizeVLESSEncToken(t) == [t EXCEPT !.quoted = FALSE]
vlessEncLooksClient(t) == t.role \in {"0rtt", "1rtt"}
vlessEncLooksServer(t) == t.role \notin {"0rtt", "1rtt"} \union Keyless

\* Both of a pair given the wrong way round are swapped.
alignVLESSEncPair(enc, dec) ==
  LET e == normalizeVLESSEncToken(enc)
      d == normalizeVLESSEncToken(dec)
  IN IF /\ {e.role, d.role} \intersect Keyless = {}
        /\ \/ vlessEncLooksServer(e) /\ ~vlessEncLooksServer(d)
           \/ vlessEncLooksClient(d) /\ ~vlessEncLooksClient(e)
     THEN <<d, e>> ELSE <<e, d>>

validateVLESSDecryption(d) ==
  d.role \in Keyless \/ (~vlessEncLooksClient(d) /\ d.key \notin Malformed)

NeedsVLESSEnc(c) == ~({c.enc.role, c.dec.role} \subseteq Keyless)

-----------------------------------------------------------------------------
(* What saving and publishing fill in *)

EnsureVLESS(c) ==
  LET sec == NormalizeSecurity(c.sec)
      net == IF NetworkAllowed(sec, c.net) THEN NormalizeNetwork(c.net) ELSE "tcp"
      rekey == sec = "reality" /\ "" \in {c.priv, c.pub}
      pair == alignVLESSEncPair(c.enc, c.dec)
  IN [c EXCEPT !.pass = Filled(@, <<>>, Fresh(0)), !.port = Filled(@, 0, 443), !.sec = sec, !.net = net,
               !.flow = IF @ = "none" \/ ~VisionAllowed(sec, net) THEN "" ELSE Filled(@, "", Vision),
               !.priv = IF rekey THEN "fresh" ELSE @, !.pub = IF rekey THEN "fresh" ELSE @,
               !.sid = IF sec = "reality" THEN Filled(@, "", "fresh") ELSE @,
               !.enc = pair[1], !.dec = pair[2],
               !.path = IF net \in {"ws", "httpupgrade", "xhttp"} THEN Filled(@, "", "/") ELSE @,
               !.svc = IF net = "grpc" THEN Filled(@, "", "GunService") ELSE @]

EnsureSS(c) ==
  LET method == NormalizeSSMethod(c.method) IN
  [c EXCEPT !.port = Filled(@, 0, 18388), !.method = method,
            !.pass = Filled(@, <<>>, Fresh(SSPasswordBytes(method)))]

EnsureMieru(c) ==
  [c EXCEPT !.port = Filled(@, 0, 8964), !.transports = Filled(@, {}, {"TCP"}), !.pass = Filled(@, <<>>, Fresh(0))]

EnsureSocks5(c) ==
  LET auth == Filled(c.auth, "", "password") IN
  [c EXCEPT !.port = Filled(@, 0, 1080), !.auth = auth,
            !.pass = IF auth = "password" THEN Filled(@, <<>>, Fresh(0)) ELSE @]

EnsureAnyTLS(c) == [c EXCEPT !.port = Filled(@, 0, 443), !.pass = Filled(@, <<>>, Fresh(0))]

EnsureNaive(c) ==
  [c EXCEPT !.port = Filled(@, 0, 443), !.pass = Filled(@, <<>>, Fresh(0)),
            !.net = IF @ \in {"", "tcp", "udp"} THEN @ ELSE "tcp"]

EnsureSecrets(c) ==
  CASE c.proto = "vless" -> EnsureVLESS(c)
    [] c.proto = "ss" -> EnsureSS(c)
    [] c.proto = "mieru" -> EnsureMieru(c)
    [] c.proto = "socks5" -> EnsureSocks5(c)
    [] c.proto = "anytls" -> EnsureAnyTLS(c)
    [] c.proto = "naive" -> EnsureNaive(c)

\* An edit keeps the secrets the browser sends back empty, masked or not at all.
isRedactedSecret(x) == x = "***"
keepKeys ==
  [vless |-> {"priv", "pub", "sid", "cert", "enc", "dec", "pass"}, ss |-> {"pass"}, mieru |-> {"pass"},
   socks5 |-> {"pass"}, anytls |-> {"pass", "cert"}, naive |-> {"pass", "cert"}]
Withheld(key, x) ==
  LET text == CASE key = "pass" -> IF x = <<>> THEN "" ELSE x[1].id
                [] key \in {"enc", "dec"} -> x.role
                [] OTHER -> x
  IN text \in {"", "omitted"} \/ isRedactedSecret(text)
mergePreservedProxySecrets(stored, incoming) ==
  [key \in DOMAIN incoming |->
     IF key \in keepKeys[stored.proto] /\ Withheld(key, incoming[key]) THEN stored[key]
     ELSE incoming[key]]
\* The form as a browser that was shown "how" for each secret sends it back.
Masked(c, how) ==
  [key \in DOMAIN c |->
     IF key \notin keepKeys[c.proto] THEN c[key]
     ELSE CASE key = "pass" -> <<Secret(how, 0)>>
            [] key \in {"enc", "dec"} -> Token(how, "")
            [] OTHER -> how]

\* What a configuration has at least, whatever its protocol.
IsConfig(c) ==
  /\ {"proto", "port", "pass", "live", "users"} \subseteq DOMAIN c /\ c.proto \in DOMAIN keepKeys
  /\ c.port \in Nat /\ (c.pass = <<>> \/ c.pass = <<c.pass[1]>>)

-----------------------------------------------------------------------------
(* The users of a service *)

TemplateSecret(c) == ToSet(c.pass)
MintUserSecret(c, id) ==
  Secret(id, IF c.proto = "ss" THEN SSPasswordBytes(NormalizeSSMethod(c.method)) ELSE 0)

\* A Shadowsocks 2022 user presents the inbound's key and his own.
ssClientPassword(c, client) ==
  IF Is2022(c.method) /\ c.pass # <<>> /\ c.pass # <<client>> THEN c.pass \o <<client>> ELSE <<client>>
ConfigWithUserSecret(c, client) ==
  [c EXCEPT !.pass = IF c.proto = "ss" THEN ssClientPassword(c, client) ELSE <<client>>]

\* The template's secret becomes the first user's, but for Shadowsocks; an
\* empty list leaves mieru its template account and everyone else nobody.
OverlayInboundClients(c, users) ==
  CASE users = <<>> -> [c EXCEPT !.live = c.proto # "mieru", !.users = <<>>]
    [] c.proto = "ss" -> [c EXCEPT !.live = TRUE, !.users = users]
    [] c.proto = "socks5" -> [c EXCEPT !.live = TRUE, !.users = users, !.pass = <<users[1]>>, !.auth = "password"]
    [] OTHER -> [c EXCEPT !.live = TRUE, !.users = users, !.pass = <<users[1]>>]

ensureMieruTemplateClient(c, users) ==
  IF TemplateSecret(c) \subseteq ToSet(users) THEN users ELSE c.pass \o users
\* What a service's users get, and what the plane of one rule gets.
overlayProxyConfigForPublish(c, users) ==
  OverlayInboundClients(c, IF c.proto = "mieru" THEN ensureMieruTemplateClient(c, users) ELSE users)
overlayProxyConfigForUser(c, client) ==
  ConfigWithUserSecret(OverlayInboundClients(c, <<client>>), client)

-----------------------------------------------------------------------------
(* The inbound a core is given *)

\* A list of users, even an empty one, replaces the template's own.
vlessClientsFromConfig(c) == IF c.live THEN ToSet(c.users) ELSE ToSet(c.pass)
NoKeys == [pub |-> "", sids |-> {}, names |-> {}, cert |-> ""]
RealityKeys(c) ==
  [NoKeys EXCEPT !.pub = c.priv, !.names = {c.name},
                 !.sids = {c.sid} \union (IF c.anySid THEN {""} ELSE {})]
\* Where the transport expects its clients: a path, or a service name.
Place(net, path, svc) ==
  CASE net \in {"ws", "httpupgrade", "xhttp"} -> Filled(path, "", "/")
    [] net = "grpc" -> Filled(svc, "", "GunService")
    [] OTHER -> ""
vlessFlow(c) == IF c.flow = "none" \/ ~VisionAllowed(c.sec, c.net) THEN "" ELSE c.flow
vlessDecryption(c) == alignVLESSEncPair(c.enc, c.dec)[2]
vlessTLS(c) ==
  CASE NormalizeSecurity(c.sec) = "reality" -> RealityKeys(c)
    [] NormalizeSecurity(c.sec) = "tls" -> [NoKeys EXCEPT !.cert = c.cert]
    [] OTHER -> NoKeys
BuildableVLESS(c) ==
  /\ ValidateVLESSDeploy(c) /\ validateVLESSDecryption(vlessDecryption(c))
  /\ c.pass # <<>> \/ vlessClientsFromConfig(c) # {}
  /\ vlessFlow(c) \in {"", Vision}
  /\ NormalizeSecurity(c.sec) = "reality" => Malformed \intersect {c.priv, c.sid} = {}
vlessKey(token) == IF token.role \in Keyless THEN "" ELSE token.key
vlessHost(c) == IF NormalizeNetwork(c.net) \in {"tcp", "grpc"} THEN "" ELSE c.host
VLESSInbound(c, port) ==
  IF ~BuildableVLESS(c) THEN {}
  ELSE {[proto |-> "vless", port |-> port, sec |-> NormalizeSecurity(c.sec), net |-> NormalizeNetwork(c.net),
         flow |-> vlessFlow(c), ids |-> vlessClientsFromConfig(c), tls |-> vlessTLS(c),
         place |-> Place(NormalizeNetwork(c.net), c.path, c.svc), host |-> vlessHost(c),
         dec |-> vlessKey(vlessDecryption(c))]}

\* One user who holds the inbound's own key leaves it the classic inbound of
\* one key; no user at all leaves it a key nobody knows.
ssKey(c) == IF c.live /\ c.users = <<>> THEN <<>> ELSE c.pass
ssUsers(c) == IF c.live /\ c.users # c.pass THEN ToSet(c.users) ELSE {}
SSInbound(c, port) ==
  IF ~ValidateSSDeploy(c) THEN {}
  ELSE {[proto |-> "ss", port |-> port, method |-> NormalizeSSMethod(c.method), psk |-> ssKey(c), users |-> ssUsers(c)]}

SocksInbound(c, port) ==
  IF ~ValidateSocks5Deploy(c) THEN {}
  ELSE {[proto |-> "socks5", port |-> port, open |-> c.auth = "none",
         users |-> ToSet(IF c.live THEN c.users ELSE c.pass)]}

singBoxInboundTLS(c) == [NoKeys EXCEPT !.cert = c.cert]
AnyTLSInbound(c, port) ==
  IF ~ValidateAnyTLSDeploy(c) THEN {}
  ELSE {[proto |-> "anytls", port |-> port, tls |-> singBoxInboundTLS(c),
         users |-> ToSet(IF c.live THEN c.users ELSE c.pass)]}
naiveNets(c) == IF c.net = "" THEN {"tcp", "udp"} ELSE {c.net}
NaiveInbound(c, port) ==
  IF ~ValidateNaiveDeploy(c) THEN {}
  ELSE {[proto |-> "naive", port |-> port, tls |-> singBoxInboundTLS(c),
         nets |-> naiveNets(c),
         users |-> ToSet(IF c.live THEN c.users ELSE c.pass)]}

\* mita falls back to the template account when the list is empty.
mitaUsersFromConfig(c) == ToSet(IF c.live /\ c.users # <<>> THEN c.users ELSE c.pass)
mieruTransports(c) == Filled(c.transports, {}, {"TCP"})
MieruInbound(c, port) ==
  IF ~mitaBindable(port) \/ c.pass = <<>> THEN {}
  ELSE {[proto |-> "mieru", port |-> port, users |-> mitaUsersFromConfig(c),
         transports |-> mieruTransports(c)]}

Inbound(c, port) ==
  CASE c.proto = "vless" -> VLESSInbound(c, port)
    [] c.proto = "ss" -> SSInbound(c, port)
    [] c.proto = "mieru" -> MieruInbound(c, port)
    [] c.proto = "socks5" -> SocksInbound(c, port)
    [] c.proto = "anytls" -> AnyTLSInbound(c, port)
    [] c.proto = "naive" -> NaiveInbound(c, port)

-----------------------------------------------------------------------------
(* The link *)

VLESSLink(c, port) ==
  LET sec == NormalizeSecurity(c.sec)
      net == NormalizeNetwork(c.net)
      enc == alignVLESSEncPair(c.enc, c.dec)[1]
  IN [scheme |-> "vless", port |-> port, pass |-> c.pass, sec |-> sec, net |-> net, flow |-> c.flow,
      enc |-> vlessKey(enc),
      sni |-> IF sec = "none" THEN "" ELSE c.name,
      pub |-> IF sec = "reality" THEN c.pub ELSE "", sid |-> IF sec = "reality" THEN c.sid ELSE "",
      insecure |-> sec = "tls" /\ c.insecure,
      path |-> IF net \in {"ws", "httpupgrade", "xhttp"} \/ (net = "grpc" /\ c.path # "/") THEN c.path ELSE "",
      host |-> IF net \in {"ws", "httpupgrade", "xhttp"} THEN c.host ELSE "",
      svc |-> IF net = "grpc" THEN Filled(c.svc, "", "GunService") ELSE ""]

\* Base64 of the method and the password, in an alphabet urls carry unescaped.
SSLink(c, port) ==
  [scheme |-> "ss", port |-> port, coded |-> TRUE, userinfo |-> <<c.method>> \o c.pass]

\* The one transport a simple link can name.
mieruShareTransports(transports) == IF transports = {"UDP"} THEN "UDP" ELSE "TCP"
MieruLink(c, port) ==
  [scheme |-> "mierus", port |-> port, pass |-> c.pass, transport |-> mieruShareTransports(c.transports)]
SocksLink(c, port) ==
  [scheme |-> "socks5", port |-> port, pass |-> IF c.auth = "none" THEN <<>> ELSE c.pass]
AnyTLSLink(c, port) ==
  [scheme |-> "anytls", port |-> port, pass |-> c.pass, sni |-> c.name, insecure |-> c.insecure]
NaiveLink(c, port) ==
  [scheme |-> "naive", port |-> port, pass |-> c.pass, sni |-> c.name, insecure |-> c.insecure,
   net |-> IF c.net = "udp" THEN "udp" ELSE "tcp"]

\* A port and a secret, but for a SOCKS server open to all, there must be.
BuildShareURI(c, port) ==
  IF port <= 0 \/ (c.pass = <<>> /\ ~(c.proto = "socks5" /\ c.auth = "none")) THEN {}
  ELSE {CASE c.proto = "vless" -> VLESSLink(c, port)
          [] c.proto = "ss" -> SSLink(c, port)
          [] c.proto = "mieru" -> MieruLink(c, port)
          [] c.proto = "socks5" -> SocksLink(c, port)
          [] c.proto = "anytls" -> AnyTLSLink(c, port)
          [] c.proto = "naive" -> NaiveLink(c, port)}

-----------------------------------------------------------------------------
(* Reading a link back: what each client would dial with *)

\* method:password, plain or coded, splits at its first colon; a password may
\* hold another one.
splitMethodPass(parts) == IF Len(parts) < 2 THEN {} ELSE {[method |-> Head(parts), pass |-> Tail(parts)]}
splitSSUserinfo(link) == splitMethodPass(link.userinfo)
parseSSShare(link) ==
  {[proto |-> "ss", port |-> link.port, method |-> mp.method, pass |-> mp.pass] : mp \in splitSSUserinfo(link)}
decodeSSUserinfo(link) == [link EXCEPT !.coded = FALSE]
ssToClash(link) ==
  LET info == decodeSSUserinfo(link).userinfo IN
  IF Len(info) < 2 THEN {}
  ELSE {[proto |-> "ss", port |-> link.port, method |-> info[1], pass |-> Tail(info)]}
ssToSR(link) == IF link.coded THEN ssToClash(link) ELSE {}

\* REALITY is told by its public key, TLS otherwise by the flag.
VLESSDial(link, sec, place, host, enc) ==
  {[proto |-> "vless", port |-> link.port, id |-> link.pass, sec |-> sec, net |-> link.net,
    flow |-> link.flow, enc |-> enc, sni |-> link.sni, pub |-> link.pub, sid |-> link.sid,
    insecure |-> link.insecure, place |-> place, host |-> host]}
buildXrayVLESSOutbound(link) ==
  VLESSDial(link, Filled(link.sec, "", "none"),
            Place(link.net, link.path, Filled(link.svc, "", link.path)), link.host, link.enc)

\* Clash has no xhttp and no httpupgrade of its own: those are written as well
\* as it can take them.
appendClashTransport(link) ==
  CASE link.net = "ws" -> {Filled(link.path, "", "/")}
    [] link.net = "grpc" -> {Filled(link.svc, "", link.path)}
    [] link.net = "tcp" -> {""}
    [] OTHER -> {}
vlessToClash(link) ==
  UNION {VLESSDial(link, link.sec, place, link.host, link.enc) : place \in appendClashTransport(link)}
\* Mutant: the encryption is lost.
vlessToSRPlain(link) ==
  VLESSDial(link, IF link.pub # "" THEN "reality" ELSE IF link.sec = "none" THEN "none" ELSE "tls",
            CASE link.net = "tcp" -> ""
              [] link.net = "grpc" -> Filled(link.svc, "", link.path)
              [] OTHER -> link.path,
            link.host, "")
vlessToSR(link) ==
  VLESSDial(link, IF link.pub # "" THEN "reality" ELSE IF link.sec = "none" THEN "none" ELSE "tls",
            CASE link.net = "tcp" -> ""
              [] link.net = "grpc" -> Filled(link.svc, "", link.path)
              [] OTHER -> link.path,
            link.host, link.enc)

\* Without a user name there is no login.
SocksDial(link) == {[proto |-> "socks5", port |-> link.port, pass |-> link.pass]}
buildXraySocksOutboundFromURI(link) == SocksDial(link)
socks5ToClash(link) == SocksDial(link)
mieruToClash(link) ==
  IF link.pass = <<>> \/ link.port <= 0 THEN {}
  ELSE {[proto |-> "mieru", port |-> link.port, pass |-> link.pass, transport |-> link.transport]}
TLSDial(link, proto, net) ==
  {[proto |-> proto, port |-> link.port, pass |-> link.pass, net |-> net,
    sni |-> link.sni, insecure |-> link.insecure]}
anytlsToClash(link) == IF link.pass = <<>> THEN {} ELSE TLSDial(link, "anytls", "tcp")

\* The core of an entry node that dials a landing node.
BuildXrayOutboundFromShareURI(link) ==
  CASE link.scheme = "ss" -> parseSSShare(link)
    [] link.scheme = "vless" -> buildXrayVLESSOutbound(link)
    [] link.scheme = "socks5" -> buildXraySocksOutboundFromURI(link)
    [] OTHER -> {}
BuildSingBoxOutboundFromShareURI(link) ==
  CASE link.scheme = "ss" -> parseSSShare(link)
    [] link.scheme = "socks5" -> SocksDial(link)
    [] OTHER -> {}
URIToClashProxy(link) ==
  CASE link.scheme = "ss" -> ssToClash(link)
    [] link.scheme = "vless" -> vlessToClash(link)
    [] link.scheme = "mierus" -> mieruToClash(link)
    [] link.scheme = "socks5" -> socks5ToClash(link)
    [] link.scheme = "anytls" -> anytlsToClash(link)
    [] OTHER -> {}
URIToShadowrocketLine(link) ==
  CASE link.scheme = "ss" -> ssToSR(link) [] link.scheme = "vless" -> vlessToSR(link) [] OTHER -> {}
\* A client that takes links as they are.
Native(link) ==
  CASE link.scheme = "ss" -> parseSSShare(link)
    [] link.scheme = "vless" -> buildXrayVLESSOutbound(link)
    [] link.scheme = "mierus" -> mieruToClash(link)
    [] link.scheme = "socks5" -> SocksDial(link)
    [] link.scheme = "anytls" -> TLSDial(link, "anytls", "tcp")
    [] link.scheme = "naive" -> TLSDial(link, "naive", link.net)

\* What the plane of a rule dials: a link, a SOCKS server, or the bare address
\* of the exit. A rule's own link serves unless its secrets are masked or no core
\* reads it; then the link the panel knows for that address does.
Readable(link) == BuildXrayOutboundFromShareURI(link) \union BuildSingBoxOutboundFromShareURI(link) # {}
resolveLandingShareURI(exit) == exit.known
ruleExit(exit) ==
  LET own == IF exit.masked THEN {} ELSE {l \in exit.uri : Readable(l)}
      share == IF own # {} THEN own ELSE resolveLandingShareURI(exit)
  IN IF exit.open THEN {[share |-> {}, socks |-> {l}, to |-> 0] : l \in exit.uri}
     ELSE IF share = {} THEN {[share |-> {}, socks |-> {}, to |-> exit.port]}
     ELSE {[share |-> {l}, socks |-> {}, to |-> 0] : l \in {x \in share : Readable(x)}}
buildXrayOutbounds(out) ==
  IF out.share # {} THEN UNION {BuildXrayOutboundFromShareURI(l) : l \in out.share}
  ELSE UNION {SocksDial(l) : l \in out.socks}
injectSingBoxFinalOutbound(out) ==
  IF out.share # {} THEN UNION {BuildSingBoxOutboundFromShareURI(l) : l \in out.share}
  ELSE UNION {SocksDial(l) : l \in out.socks}
EntryDials(link) ==
  LET exits == {[open |-> FALSE, masked |-> m, uri |-> {link}, known |-> {link}, port |-> link.port] : m \in BOOLEAN}
  IN UNION {buildXrayOutbounds(out) \union injectSingBoxFinalOutbound(out) : out \in UNION {ruleExit(e) : e \in exits}}

Dials(link) == UNION {Native(link), EntryDials(link), URIToClashProxy(link), URIToShadowrocketLine(link)}

-----------------------------------------------------------------------------
(* What the cores do, which are other programs *)

\* Only the AES methods of Shadowsocks 2022 have users, each with a key of the
\* method's length.
CoreTakes(inb) ==
  inb.proto = "ss" /\ Is2022(inb.method) /\ inb.users # {} =>
    inb.method # "2022-chacha20" /\ \A u \in inb.users : u.len = SSPasswordBytes(inb.method)

TLSFits(dial, tls) == dial.insecure \/ NameInCertificate(tls.cert, dial.sni)
VLESSAccepts(inb, dial) ==
  /\ ToSet(dial.id) \subseteq inb.ids
  /\ dial.sec = inb.sec /\ dial.net = inb.net /\ dial.flow = inb.flow /\ dial.enc = inb.dec
  /\ dial.place = inb.place /\ inb.host \in {"", dial.host}
  /\ CASE inb.sec = "reality" -> dial.pub = inb.tls.pub /\ dial.sid \in inb.tls.sids /\ dial.sni \in inb.tls.names
       [] inb.sec = "tls" -> TLSFits(dial, inb.tls)
       [] OTHER -> TRUE
\* An inbound with one key takes that key; one with users takes theirs, which
\* Shadowsocks 2022 wants after its own.
SSAccepts(inb, dial) ==
  /\ dial.method = inb.method
  /\ IF inb.users = {} THEN inb.psk # <<>> /\ dial.pass = inb.psk
     ELSE \E u \in inb.users : dial.pass = IF Is2022(inb.method) THEN inb.psk \o <<u>> ELSE <<u>>
Accepts(inb, dial) ==
  /\ inb.port = dial.port
  /\ CASE inb.proto = "vless" -> VLESSAccepts(inb, dial)
       [] inb.proto = "ss" -> SSAccepts(inb, dial)
       [] inb.proto = "socks5" -> inb.open \/ (dial.pass # <<>> /\ dial.pass[1] \in inb.users)
       [] inb.proto = "mieru" -> dial.pass[1] \in inb.users /\ dial.transport \in inb.transports
       [] inb.proto = "anytls" -> dial.pass[1] \in inb.users /\ TLSFits(dial, inb.tls)
       [] inb.proto = "naive" -> dial.pass[1] \in inb.users /\ dial.net \in inb.nets /\ TLSFits(dial, inb.tls)

-----------------------------------------------------------------------------
(* Properties *)

\* Configurations the panel comes to hold: a draft it took, and that one edited
\* in a browser that was not shown the secrets.
Saved == {EnsureSecrets(d) : d \in {x \in Drafts : validateProxyConfigForSave(EnsureSecrets(x))}}
Edited(c, how) == EnsureSecrets(mergePreservedProxySecrets(c, Masked(c, how)))
Held == Saved \union {Edited(c, how) : c \in Saved, how \in Hidden}
Deployed == {c \in Held : validateProxyConfigForPublish(c)}

Clients(c) == {MintUserSecret(c, a) : a \in Accounts}
\* Those with a rule, in the order of their ids: one may hold the template's
\* secret.
Rosters(c) == {s \in UNION {[1 .. n -> Clients(c) \union TemplateSecret(c)] : n \in 0 .. 2} :
                 Cardinality(ToSet(s)) = Len(s)}
Port(c) == Filled(c.port, 0, 443)
Served(c, roster) == {inb \in Inbound(overlayProxyConfigForPublish(c, roster), Port(c)) : CoreTakes(inb)}
UserDials(c, client) == UNION {Dials(link) : link \in BuildShareURI(ConfigWithUserSecret(c, client), Port(c))}

\* What is known not to hold: half a pair of encryption keys; a SOCKS server
\* saved as open, which its first user closes; the Shadowsocks 2022 user who got
\* the template's key, once he is not alone.
HalfPair(c) == c.proto = "vless" /\ Cardinality({c.enc.role, c.dec.role} \intersect Keyless) = 1
                 /\ NeedsVLESSEnc(c)
Opened(c) == c.proto = "socks5" /\ c.auth = "none"
Inherited(c, roster, client) ==
  c.proto = "ss" /\ Is2022(c.method) /\ {client} = TemplateSecret(c) /\ Len(roster) > 1

\* Whether each user's link, read by any client the panel writes for and by the
\* core of a node that chains to this one, opens the inbound the core is given, and
\* that of somebody else does not; mieru keeps its template's account.
OpensForRoster(c) ==
  \A roster \in Rosters(c) : \A inb \in Served(c, roster) :
    \A client \in Clients(c) \union TemplateSecret(c) : \A dial \in UserDials(c, client) :
      ~Inherited(c, roster, client) =>
        (Accepts(inb, dial) <=> client \in ToSet(roster) \/ (c.proto = "mieru" /\ {client} = TemplateSecret(c)))
OpensPlane(c) ==
  \A client \in Clients(c) \union TemplateSecret(c) :
    \A inb \in Inbound(overlayProxyConfigForUser(c, client), Port(c)) : \A dial \in UserDials(c, client) :
      CoreTakes(inb) => Accepts(inb, dial)
Reached(c) == HalfPair(c) \/ Opened(c) \/ (OpensForRoster(c) /\ OpensPlane(c))
Unreached == {c \in Deployed : ~Reached(c)}
Overwritten == {c \in Saved : \E how \in Hidden : \E key \in keepKeys[c.proto] : Edited(c, how)[key] # c[key]}
=============================================================================
