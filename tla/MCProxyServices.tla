--------------------------- MODULE MCProxyServices ---------------------------
(* One service, two nodes, two users with a rule each, two handlers.        *)
EXTENDS ProxyServices

MCCovers == [c \in {"cert", "cert2"} |-> {"a.example"}]
MCDrafts ==
  LET vless == {[VLESSConfig EXCEPT !.name = "a.example", !.sec = sec, !.net = net, !.flow = flow, !.enc = pair[1],
                                    !.dec = pair[2], !.path = path, !.host = host, !.cert = "cert"] :
                  sec \in {"", "xtls", "none"}, net \in {"", "ws", "grpc", "xhttp", "http-upgrade"},
                  flow \in {"", "none"}, path \in {"", "/p"}, host \in {"", "h"},
                  pair \in {<<NoToken, NoToken>>, <<Token("0rtt", "k"), Token("600s", "k")>>,
                            <<[Token("600s", "k") EXCEPT !.quoted = TRUE], Token("0rtt", "k")>>,
                            <<Token("0rtt", "k"), Token("none", "")>>}}
      ss == {[SSConfig EXCEPT !.method = m, !.pass = p] :
               m \in {"", "2022-256", "2022-chacha20", "aes-128"}, p \in {<<>>, <<Secret("k", 16)>>}}
      mieru == {[MieruConfig EXCEPT !.transports = t, !.port = p] : t \in SUBSET {"TCP", "UDP"}, p \in {0, 443}}
      socks == {[Socks5Config EXCEPT !.auth = a] : a \in {"", "none"}}
      anytls == {[AnyTLSConfig EXCEPT !.name = n, !.cert = "cert", !.insecure = i] :
                   n \in {"", "a.example", "b.example"}, i \in BOOLEAN}
      naive == {[NaiveConfig EXCEPT !.name = "a.example", !.cert = "cert", !.net = n] : n \in {"", "tcp", "udp", "both"}}
  IN UNION {vless, ss, mieru, socks, anytls, naive}

\* A REALITY service, the same with another transport, and one that lacks the
\* name of its server.
Good == [VLESSConfig EXCEPT !.name = "a.example"]
MCForms == [s \in Services |-> {Good, [Good EXCEPT !.net = "grpc"], [Good EXCEPT !.name = ""]}]
MCUserOrder == <<"u", "v">>
MCEntry == [r \in Rules |-> "n1"]
MCListen == [r \in Rules |-> 2000]

Empty ==
  [config |-> [s \in Services |-> <<>>], status |-> [s \in Services |-> "none"], rows |-> [s \in Services |-> <<>>],
   rule |-> [r \in Rules |-> NoRule], user |-> [u \in Users |-> "ok"],
   cred |-> [x \in Services \X Users |-> {}], runs |-> [x \in Slots |-> {}], online |-> Nodes, cored |-> {"n2"}]
\* Published on n1, with the rules of these users.
Running(holders) ==
  LET c == EnsureSecrets(Good)
      us == SelectSeq(UserOrder, LAMBDA u : \E r \in DOMAIN holders : holders[r] = u)
      Key(u) == IF u = us[1] THEN c.pass[1] ELSE MintUserSecret(c, u)
      Core(port, cfg) == Inbound(cfg, port)
  IN [Empty EXCEPT
        !.cored = {"n1"},
        !.config = [s \in Services |-> <<c>>], !.status = [s \in Services |-> "ready"],
        !.rows = [s \in Services |-> <<[node |-> "n1", port |-> 443, status |-> "ready", uri |-> BuildShareURI(c, 443)]>>],
        !.rule = [r \in Rules |-> IF r \in DOMAIN holders THEN [owner |-> holders[r], svc |-> "s"] ELSE NoRule],
        !.cred = [x \in DOMAIN @ |-> IF x[2] \in ToSet(us) THEN {Key(x[2])} ELSE {}],
        !.runs = [x \in Slots |->
                    IF x = Inst("s", "n1") THEN Core(443, overlayProxyConfigForPublish(c, [i \in DOMAIN us |-> Key(us[i])]))
                    ELSE IF x[2] \in DOMAIN holders
                         THEN Core(2000, overlayProxyConfigForUser(c, Key(holders[x[2]]))) ELSE {}]]
MCPanel == {Empty, Running("r1" :> "u" @@ "r2" :> "v"), Running("r1" :> "u")}

Kinds == {"create", "save", "remove", "publish", "issue", "resync", "feed", "rule", "move", "delete", "revoke",
          "revokeNode", "toggle", "erase", "quota", "cycle", "extend", "expire", "down", "fault"}
Plan(some) == some @@ [k \in Kinds |-> 0]
MCPlans ==
  {Plan("create" :> 1 @@ "publish" :> 1 @@ "rule" :> 1),
   Plan("publish" :> 2 @@ "fault" :> 1), Plan("remove" :> 1 @@ "publish" :> 1 @@ "fault" :> 1),
   Plan("save" :> 1 @@ "publish" :> 1), Plan("issue" :> 1 @@ "save" :> 1 @@ "revoke" :> 1),
   Plan("feed" :> 1 @@ "rule" :> 1), Plan("move" :> 1 @@ "resync" :> 1), Plan("move" :> 1 @@ "delete" :> 1),
   Plan("revoke" :> 1 @@ "rule" :> 1 @@ "fault" :> 1), Plan("revoke" :> 1 @@ "delete" :> 1),
   Plan("revokeNode" :> 1 @@ "resync" :> 1), Plan("erase" :> 1 @@ "rule" :> 1), Plan("erase" :> 1 @@ "toggle" :> 1),
   Plan("quota" :> 1 @@ "cycle" :> 1 @@ "fault" :> 1), Plan("expire" :> 1 @@ "extend" :> 1),
   Plan("expire" :> 1 @@ "rule" :> 1 @@ "down" :> 1), Plan("expire" :> 1 @@ "down" :> 1 @@ "fault" :> 1)}
=============================================================================
