------------------------------- MODULE MCLinks --------------------------------
(* Documents for Links: every spelling of one link on its own, and short   *)
(* documents of several entries.                                           *)
EXTENDS Links

Base(scheme, par, name) ==
    [scheme |-> scheme, host |-> "a", port |-> 443, cred |-> "u", par |-> par, name |-> name]

\* Query parameters of VLESS and Trojan links.
Transports ==
    {<<>>, "type" :> "kcp",
     ("type" :> "grpc") @@ ("serviceName" :> "s")}
      \cup {("type" :> n) @@ ("path" :> "/p") @@ ("host" :> "h") :
               n \in {"ws", "websocket", "h2", "http", "httpupgrade"}}

Securities ==
    {Opt("security", s) @@ k @@ Opt("sid", d) @@ Opt("sni", n) @@ r :
        s \in {"", "none", "tls", "reality", "xtls"},
        k \in {<<>>, "pbk" :> "", "pbk" :> "k", "pbk" :> "bad", "reality_pbk" :> "k"},
        d \in {"", "ab"}, n \in {"", "n"},
        r \in {<<>>, ("fp" :> "f") @@ ("alpn" :> "h2") @@ ("allowInsecure" :> "1")}}

Standard ==
    {Base(s, x @@ t @@ f, <<"N">>) : s \in {"vless", "trojan"}, x \in Securities,
        t \in Transports, f \in {<<>>, "flow" :> "xtls-rprx-vision"}}
      \cup {Base("vless", "flow" :> f, <<"N">>) : f \in {"none", "xtls-rprx-direct"}}

VMess ==
    {Base("vmess", Opt("net", n) @@ x @@ Opt("path", p) @@ Opt("host", h), <<"N">>) :
        n \in {"", "tcp", "ws", "grpc", "h2", "httpupgrade"},
        x \in {<<>>, "tls" :> "none", "tls" :> "reality", "type" :> "none", "tls" :> "tls",
               ("tls" :> "tls") @@ ("sni" :> "n") @@ ("fp" :> "f") @@ ("alpn" :> "h2")},
        p \in {"", "/p"}, h \in {"", "h"}}

Others ==
    {Base(s, p, <<"N">>) : s \in {"hysteria2", "hy2", "tuic", "vmess-url"},
                           p \in {<<>>, "sni" :> "n", "obfs" :> "o", "security" :> "none"}}
      \cup {Base("ssr", <<>>, <<"N">>)}
      \cup {Base("ss", ("method" :> m) @@ p, <<"N">>) : m \in {"ss", "aes", "chacha20-poly1305"},
               p \in {<<>>, "plugin" :> "g", ("plugin" :> "g") @@ ("plugin-opts" :> "o")}}

\* Spellings the readers treat by case, and names for the server.
Spelled ==
    {Base(p, Opt("security", s) @@ k @@ n @@ t @@ f, <<"N">>) :
        p \in {"vless", "trojan"}, s \in {"", "TLS", "REALITY", "NONE"}, k \in {<<>>, "pbk" :> "k"},
        n \in {<<>>, "sni" :> "a", ("peer" :> "n") @@ ("insecure" :> "TRUE")},
        t \in {<<>>, ("type" :> "WS") @@ ("path" :> "/p"), ("type" :> "GRPC") @@ ("serviceName" :> "s")},
        f \in {<<>>, "flow" :> "XTLS-RPRX-VISION"}}
      \cup {Base("vmess", ("net" :> n) @@ ("tls" :> t) @@ ("sni" :> "n"), <<"N">>) :
               n \in {"tcp", "WS", "websocket", "http"}, t \in {"TLS", "tls"}}
      \cup {Base("ss", "method" :> "AES", <<"N">>)}

Doc(form, entries, stray) == [form |-> form, entries |-> entries, stray |-> stray]

Alone == {Doc("links", <<l>>, <<>>) : l \in Standard \cup VMess \cup Others \cup Spelled}

\* Entries of a Clash list.
ClashEntry(type, m) ==
    [type |-> type, server |-> "a", port |-> 443, cred |-> "u", name |-> <<"N">>, map |-> m]

ClashTransports ==
    {<<>>} \cup
    {("network" :> "ws") @@ ("ws-opts.path" :> "/p") @@ ("ws-opts.headers.Host" :> "h"),
     ("network" :> "grpc") @@ ("grpc-opts.grpc-service-name" :> "s"),
     ("network" :> "h2") @@ ("h2-opts.path" :> "/p") @@ ("h2-opts.host" :> "h"),
     ("network" :> "httpupgrade") @@ ("httpupgrade-opts.path" :> "/p")
         @@ ("httpupgrade-opts.host" :> "h")}

ClashList ==
    {ClashEntry(t, n @@ Opt("tls", s) @@ Opt(IF t = "trojan" THEN "sni" ELSE "servername", v) @@ r @@ x) :
        t \in {"vmess", "vless", "trojan"}, n \in ClashTransports,
        s \in {"", "true", "false", "odd"}, v \in {"", "n"},
        r \in {<<>>, ("reality-opts.public-key" :> "k") @@ ("reality-opts.short-id" :> "ab")},
        x \in {<<>>, "alpn" :> "h2", "flow" :> "xtls-rprx-vision",
               ("client-fingerprint" :> "f") @@ ("alpn[]" :> "h2") @@ ("skip-cert-verify" :> "true")}}
      \cup {ClashEntry("ss", ("cipher" :> c) @@ p) : c \in {"ss", "aes", "chacha20-poly1305"},
               p \in {<<>>, ("plugin" :> "g") @@ ("plugin-opts" :> "o"),
                      ("plugin" :> "g") @@ ("plugin-opts{}" :> "o")}}
      \cup {ClashEntry("wireguard", <<>>)}

\* Servers and credentials that a link may not carry as they are.
Odd(entry) == {[entry EXCEPT !.server = s, !.cred = c] : s \in {"a", "v6"},
                                                         c \in {"u", "p#", "p:q", "p%41"}}

OddClash == UNION {Odd(ClashEntry(t, "cipher" :> "aes")) : t \in {"vmess", "vless", "trojan", "ss"}}

ClashAlone == {Doc("clash", <<e>>, <<>>) : e \in ClashList \cup OddClash}

\* Outbounds of an Xray configuration.
Outbound(p, stream, m) ==
    [protocol |-> p, server |-> "a", port |-> 443, cred |-> "u", name |-> <<"N">>,
     stream |-> stream, map |-> m]

XrayList ==
    {Outbound(p, TRUE, n @@ s) : p \in {"vless", "vmess", "trojan"},
        n \in {<<>>, ("network" :> "ws") @@ ("ws.path" :> "/p") @@ ("ws.host" :> "h"),
               ("network" :> "ws") @@ ("ws.headers.Host" :> "h"),
               ("network" :> "grpc") @@ ("grpc.serviceName" :> "s"),
               ("network" :> "h2") @@ ("http.path" :> "/p"), "network" :> "xhttp"},
        s \in {<<>>, "security" :> "none",
               ("security" :> "tls") @@ ("tls.serverName" :> "n") @@ ("tls.alpn" :> "h2"),
               ("security" :> "reality") @@ ("reality.publicKey" :> "k")
                   @@ ("reality.serverNames" :> "n")}}
      \cup {Outbound("shadowsocks", FALSE, "method" :> "aes"), Outbound("vless", FALSE, <<>>),
            Outbound("freedom", FALSE, <<>>), Outbound("no outbounds", FALSE, <<>>)}

OddXray == UNION {Odd(Outbound(p, TRUE, "method" :> "aes")) :
                     p \in {"vmess", "vless", "trojan", "shadowsocks"}}

XrayAlone == {Doc("xray", <<x>>, <<>>) : x \in XrayList \cup OddXray}

\* Documents of several entries: repeated, broken, cut, hidden or beside others.
Good  == Base("vless", ("security" :> "tls") @@ ("sni" :> "n"), <<"N">>)
Same  == Base("trojan", <<>>, <<"N">>)
Third == Base("vmess", "net" :> "ws", <<"N">>)
Sharp == Base("vmess", "net" :> "tcp", <<"US #1">>)
Quic  == Base("tuic", <<>>, <<"N">>)
NoPort == [Good EXCEPT !.port = 0]
Comma == Base("vless", ("security" :> "tls") @@ ("alpn" :> "h2,h1"), <<"N">>)
Six   == [Good EXCEPT !.host = "[v6]"]

Some == {Good, Same, Third, Quic, NoPort, Comma, Six}

Mixed ==
    {Doc(f, <<a, b, c>>, <<>>) : f \in {"links", "links64", "json"}, a \in Some, b \in Some, c \in Some}
      \cup {Doc("html", <<a, b>>, s) : a \in Some, b \in Some, s \in {<<>>} \cup {<<l>> : l \in Some}}
      \cup {Doc(f, <<a, b>>, s) : f \in {"clash", "clash64"}, s \in {<<>>, <<Good>>, <<Six>>},
               a \in {ClashEntry("vless", "tls" :> "true"), ClashEntry("wireguard", <<>>),
                      [ClashEntry("trojan", <<>>) EXCEPT !.server = "v6"]},
               b \in {ClashEntry("vless", "tls" :> "true"), ClashEntry("trojan", <<>>)}}
      \cup {Doc(f, <<a, b>>, s) : f \in {"xray", "xray64"}, s \in {<<>>, <<Good>>},
               a \in {Outbound("vless", TRUE, <<>>), Outbound("no outbounds", FALSE, <<>>)},
               b \in {Outbound("vless", TRUE, <<>>), Outbound("shadowsocks", FALSE, "method" :> "aes")}}

MCDocs == Alone \cup ClashAlone \cup XrayAlone \cup Mixed

\* Documents whose names matter.
NamedDocs == {Doc("links", <<a, b>>, <<>>) : a \in {Good, Sharp}, b \in {Same, Sharp}}
================================================================================
