--------------------------------- MODULE Links ---------------------------------
(***************************************************************************)
(* What a share link becomes on its way through V2RayDAR: a subscription   *)
(* document is read into candidates (parser/mod.rs, clash.rs,              *)
(* parser/xray.rs, parser/html.rs), a candidate into the sing-box outbound *)
(* that is probed (probe.rs), and a reachable one into an entry of the     *)
(* Clash configuration that is served (convert.rs, server.rs).             *)
(*                                                                         *)
(* A link is a record: its scheme, its endpoint, a credential, its         *)
(* parameters (query pairs, or the fields of a VMess payload) and a name.  *)
(* Parameters are a partial function from keys to values, and so are the   *)
(* fields of a Clash entry or of an Xray outbound, whose nested keys are   *)
(* written with dots.  "" is the empty string; <<>>, the empty function,   *)
(* has no key.  A name is a sequence, so that the " (2)" the exporter      *)
(* appends can be told from the name it is appended to.                    *)
(***************************************************************************)
EXTENDS Naturals, Sequences, FiniteSets, SequencesExt, TLC

CONSTANTS Docs,     \* the documents a source may answer with
          TopN      \* top_n: how many reachable links are served

ASSUME TopNAssumption == TopN \in Nat \ {0}

VARIABLES doc,       \* the document being read
          stage,     \* the pass that comes next
          cands,     \* the candidates found so far, in order
          seen,      \* seen_entries: the texts already tried
          reachable, \* the candidates whose probe succeeded, in rank order
          served     \* the entries of the generated Clash configuration

vars == <<doc, stage, cands, seen, reachable, served>>

-----------------------------------------------------------------------------
(* Looking values up.                                                      *)

\* The first of the keys that is present with a text that is not empty.
first_param(m, keys) ==
    LET at == {i \in DOMAIN keys : keys[i] \in DOMAIN m /\ m[keys[i]] # ""}
    IN  IF at = {} THEN "" ELSE m[keys[CHOOSE i \in at : \A j \in at : i <= j]]

\* The first of the keys that is present, even with an empty text.
PresentKeys(m, keys) == {keys[i] : i \in DOMAIN keys} \cap DOMAIN m
Present(m, keys) ==
    LET at == {i \in DOMAIN keys : keys[i] \in DOMAIN m}
    IN  IF at = {} THEN "" ELSE m[keys[CHOOSE i \in at : \A j \in at : i <= j]]

Opt(key, value) == IF value = "" THEN <<>> ELSE key :> value
When(condition, m) == IF condition THEN m ELSE <<>>

\* A nested value copied as it is, whether empty or not.
set_param(key, m, field) == When(field \in DOMAIN m, key :> m[field])

\* to_ascii_lowercase and eq_ignore_ascii_case, on the values that occur.
Lowered == ("TLS" :> "tls") @@ ("REALITY" :> "reality") @@ ("NONE" :> "none")
               @@ ("WS" :> "ws") @@ ("GRPC" :> "grpc") @@ ("TRUE" :> "true")
               @@ ("AES" :> "aes") @@ ("XTLS-RPRX-VISION" :> "xtls-rprx-vision")
lower(value) == IF value \in DOMAIN Lowered THEN Lowered[value] ELSE value

truthy(value) == lower(value) \in {"1", "true", "yes", "y"}

\* A YAML boolean or the text of one; anything else is as if absent.
yaml_bool_or_string(m, key, default) ==
    CASE lower(first_param(m, <<key>>)) \in {"true", "1", "yes"}         -> TRUE
      [] lower(first_param(m, <<key>>)) \in {"false", "0", "no", "none"} -> FALSE
      [] OTHER                                                    -> default

-----------------------------------------------------------------------------
(* From a Clash entry to a link.  An entry is [type, server, port, cred,   *)
(* name, map]; "alpn" is a text and "alpn[]" a sequence, and the same with *)
(* "plugin-opts" and "plugin-opts{}", which is a mapping.                  *)

NoLink == [scheme |-> "none", host |-> "", port |-> 0, cred |-> "",
           par |-> <<>>, name |-> <<>>]

Link(scheme, p, par) ==
    [scheme |-> scheme, host |-> p.server, port |-> p.port, cred |-> p.cred,
     par |-> par, name |-> p.name]

\* Where userinfo and address are written into the link as they stand, it is
\* what a URL reader makes of them: a ":" ends the user's name, a "%41" is
\* undone, and a "#" (or "/" or "?") ends the address, as the first ":" of an
\* IPv6 address without brackets does, so that no port is found.
RawLink(scheme, p, par) ==
    [Link(scheme, p, par) EXCEPT
        !.host = IF p.server = "v6" \/ p.cred = "p#" THEN "" ELSE p.server,
        !.cred = CASE p.cred = "p:q" -> "p" [] p.cred = "p%41" -> "pA" [] OTHER -> p.cred]

yaml_alpn(m) == set_param("alpn", m, "alpn[]") @@ set_param("alpn", m, "alpn")

network(m) == IF first_param(m, <<"network">>) = "" THEN "tcp"
              ELSE first_param(m, <<"network">>)

\* Mutant: the path is looked up beside "ws-opts", as for other transports.
ws_opts_top(m) == Opt("path", first_param(m, <<"ws-opts", "path">>))
                      @@ set_param("host", m, "ws-opts.headers.Host")

ws_opts(m) == set_param("path", m, "ws-opts.path")
                  @@ set_param("host", m, "ws-opts.headers.Host")

h2_opts(m) == set_param("path", m, "h2-opts.path")
                  @@ set_param("host", m, "h2-opts.host")

clash_vmess_to_uri(p) ==
    LET m   == p.map
        net == network(m)
        tls == ("tls" :> "tls")
                  @@ Opt("sni", first_param(m, <<"servername">>))
                  @@ Opt("fp", first_param(m, <<"client-fingerprint">>))
                  @@ yaml_alpn(m)
                  @@ When(truthy(first_param(m, <<"skip-cert-verify">>)),
                          "allowInsecure" :> "1")
        opts == CASE net = "ws"   -> ws_opts(m)
                  [] net = "grpc" ->
                         set_param("path", m, "grpc-opts.grpc-service-name")
                  [] net \in {"h2", "http"} -> h2_opts(m)
                     \* looked up beside "httpupgrade-opts", not inside it
                  [] net = "httpupgrade" ->
                         Opt("path", first_param(m, <<"httpupgrade-opts", "path">>))
                           @@ Opt("host", first_param(m, <<"httpupgrade-opts", "host">>))
                  [] OTHER -> <<>>
    IN  Link("vmess", p,
             When(yaml_bool_or_string(m, "tls", FALSE), tls)
                 @@ ("net" :> net) @@ opts)

clash_vless_to_uri(p) ==
    LET m       == p.map
        net     == network(m)
        reality == set_param("pbk", m, "reality-opts.public-key")
        opts == CASE net = "ws"   -> ws_opts(m)
                  [] net = "grpc" ->
                         set_param("serviceName", m, "grpc-opts.grpc-service-name")
                  [] net \in {"h2", "http"} -> h2_opts(m)
                  [] net = "httpupgrade" ->
                         set_param("path", m, "httpupgrade-opts.path")
                           @@ Opt("host", first_param(m, <<"httpupgrade-opts", "host">>))
                  [] OTHER -> <<>>
    IN  RawLink("vless", p,
             When(reality # <<>>, "security" :> "reality")
                 @@ When(yaml_bool_or_string(m, "tls", FALSE), "security" :> "tls")
                 @@ Opt("sni", first_param(m, <<"servername">>))
                 @@ Opt("fp", first_param(m, <<"client-fingerprint">>))
                 @@ Opt("alpn", first_param(m, <<"alpn">>))
                 @@ Opt("flow", first_param(m, <<"flow">>))
                 @@ reality
                 @@ set_param("sid", m, "reality-opts.short-id")
                 @@ When(truthy(first_param(m, <<"skip-cert-verify">>)),
                         "allowInsecure" :> "1")
                 @@ When(net # "tcp", "type" :> net)
                 @@ opts)

clash_trojan_to_uri(p) ==
    LET m   == p.map
        net == network(m)
        opts == CASE net = "ws" ->
                         Opt("path", first_param(m, <<"ws-opts", "path">>))
                           @@ set_param("host", m, "ws-opts.headers.Host")
                  [] net = "grpc" ->
                         Opt("serviceName",
                             first_param(m, <<"grpc-opts", "grpc-service-name">>))
                  [] OTHER -> <<>>
    IN  RawLink("trojan", p,
             When(yaml_bool_or_string(m, "tls", TRUE), "security" :> "tls")
                 @@ Opt("sni", first_param(m, <<"servername">>))
                 @@ When(truthy(first_param(m, <<"skip-cert-verify">>)),
                         "allowInsecure" :> "1")
                 @@ When(net # "tcp", "type" :> net)
                 @@ opts)

\* The options join the plugin's name only where they are a text.
clash_ss_to_uri(p) ==
    Link("ss", p,
         ("method" :> p.map["cipher"])
             @@ Opt("plugin", first_param(p.map, <<"plugin">>))
             @@ When(first_param(p.map, <<"plugin">>) # "",
                     Opt("plugin-opts", first_param(p.map, <<"plugin-opts">>))))

clash_proxy_to_uri(p) ==
    CASE p.server = "" \/ p.port = 0 \/ p.cred = ""          -> NoLink
      [] p.type = "vmess"                                    -> clash_vmess_to_uri(p)
      [] p.type = "vless"                                    -> clash_vless_to_uri(p)
      [] p.type = "trojan"                                   -> clash_trojan_to_uri(p)
      [] p.type = "ss" /\ first_param(p.map, <<"cipher">>) # "" -> clash_ss_to_uri(p)
      [] OTHER                                               -> NoLink

-----------------------------------------------------------------------------
(* From an Xray outbound to a link.  An outbound is [protocol, server,     *)
(* port, cred, name, stream, map]: stream says whether it has              *)
(* streamSettings, and map holds their fields.                             *)

Stream(x, field, default) ==
    IF field \in DOMAIN x.map THEN x.map[field] ELSE default

apply_security_params(security, m) ==
    When(security = "tls",
         set_param("sni", m, "tls.serverName") @@ set_param("fp", m, "tls.fingerprint")
             @@ set_param("alpn", m, "tls.alpn"))
      @@ When(security = "reality",
         set_param("pbk", m, "reality.publicKey") @@ set_param("sid", m, "reality.shortId")
             @@ set_param("fp", m, "reality.fingerprint")
             @@ set_param("sni", m, "reality.serverNames"))

apply_transport_params(net, m) ==
    When(net # "tcp", "type" :> net)
      @@ CASE net = "ws" -> set_param("path", m, "ws.path")
                              @@ set_param("host", m, "ws.headers.Host")
                              @@ set_param("host", m, "ws.host")
           [] net = "grpc" -> set_param("serviceName", m, "grpc.serviceName")
           [] net \in {"h2", "http"} -> set_param("path", m, "http.path")
                                          @@ set_param("host", m, "http.host")
           [] OTHER -> <<>>

xray_vless_to_uri(x) ==
    LET security == Stream(x, "security", "none")
    IN  RawLink("vless", x,
             Opt("flow", Stream(x, "flow", ""))
                 @@ When(security # "none", "security" :> security)
                 @@ apply_security_params(security, x.map)
                 @@ apply_transport_params(Stream(x, "network", "tcp"), x.map))

\* alpn is copied as the array it is, and no reader of the payload takes one.
xray_vmess_to_uri(x) ==
    LET m   == x.map
        net == Stream(x, "network", "tcp")
        tls == Stream(x, "security", "none")
    IN  Link("vmess", x,
             ("net" :> net) @@ ("tls" :> tls)
                 @@ When(tls # "none",
                         set_param("sni", m, "tls.serverName")
                             @@ set_param("fp", m, "tls.fingerprint"))
                 @@ CASE net = "ws" -> set_param("path", m, "ws.path")
                                         @@ set_param("host", m, "ws.headers.Host")
                      [] net = "grpc" -> set_param("path", m, "grpc.serviceName")
                      [] net \in {"h2", "http"} -> set_param("path", m, "http.path")
                                                     @@ set_param("host", m, "http.host")
                      [] OTHER -> <<>>)

xray_trojan_to_uri(x) ==
    LET m        == x.map
        net      == Stream(x, "network", "tcp")
        security == Stream(x, "security", "tls")
    IN  RawLink("trojan", x,
             When(security # "none", "security" :> security)
                 @@ When(net # "tcp", "type" :> net)
                 @@ When(security = "tls",
                         set_param("sni", m, "tls.serverName")
                             @@ set_param("fp", m, "tls.fingerprint"))
                 @@ CASE net = "ws" -> set_param("path", m, "ws.path")
                                         @@ set_param("host", m, "ws.headers.Host")
                      [] net = "grpc" -> set_param("serviceName", m, "grpc.serviceName")
                      [] OTHER -> <<>>)

xray_shadowsocks_to_uri(x) == Link("ss", x, "method" :> x.map["method"])

xray_outbound_to_uri(x) ==
    CASE x.protocol = "shadowsocks"         -> xray_shadowsocks_to_uri(x)
      [] x.protocol = "vless"  /\ x.stream  -> xray_vless_to_uri(x)
      [] x.protocol = "vmess"  /\ x.stream  -> xray_vmess_to_uri(x)
      [] x.protocol = "trojan" /\ x.stream  -> xray_trojan_to_uri(x)
      [] OTHER                              -> NoLink

-----------------------------------------------------------------------------
(* A candidate: parse_share_link and the key duplicates are found by.      *)

normalize_transport(value) ==
    CASE value \in {"", "tcp"}  -> "tcp"
      [] value = "websocket"    -> "ws"
      [] OTHER                  -> lower(value)

normalize_tls(value) ==
    CASE lower(value) \in {"", "none", "false", "0"} -> "none"
      [] lower(value) = "reality"                    -> "reality"
      [] OTHER                                       -> "tls"

query_dedup_parts(par, default_tls) ==
    LET security == <<"security", "tls">>
        key      == Present(par, <<"pbk", "public_key", "reality_pbk">>) # ""
        level    == normalize_tls(Present(par, security))
    IN  <<normalize_transport(Present(par, <<"type", "net", "network">>)),
          IF PresentKeys(par, security) # {}
          THEN IF level # "none" /\ key THEN "reality" ELSE level
          ELSE IF key THEN "reality" ELSE IF default_tls THEN "tls" ELSE "none">>

vmess_dedup_parts(par) ==
    <<normalize_transport(Present(par, <<"net", "type">>)),
      normalize_tls(Present(par, <<"tls">>))>>

protocol_of(l) == CASE l.scheme = "hy2"       -> "hysteria2"
                    [] l.scheme = "vmess-url" -> "vmess"
                    [] OTHER                  -> l.scheme

protocol_defaults_to_tls(protocol) == protocol \in {"trojan", "hysteria2", "tuic"}

\* Who may connect (cred) is no part of the key: see README.
config_dedup_key(l) ==
    <<protocol_of(l), l.host, l.port>>
        \o CASE l.scheme = "vmess" -> vmess_dedup_parts(l.par)
             [] l.scheme = "ssr"   -> <<"tcp", "none">>
             [] OTHER -> query_dedup_parts(l.par, protocol_defaults_to_tls(protocol_of(l)))

Parses(l) == l.host # "" /\ l.port # 0

parse_share_link(source, l) ==
    [uri |-> l, source |-> source, protocol |-> protocol_of(l),
     host |-> l.host, port |-> l.port, dedup_key |-> config_dedup_key(l)]

-----------------------------------------------------------------------------
(* From a link to the outbound that is probed.  Fields an outbound does    *)
(* not have are "" in its record; Failed is an error of the conversion.    *)

Failed == [type |-> "error"]

NoTls == [tls |-> FALSE, sni |-> "", fp |-> "", insecure |-> FALSE, alpn |-> "",
          pbk |-> "", sid |-> ""]
Direct == [net |-> "tcp", path |-> "", host |-> "", service |-> ""]
Plain == [method |-> "", flow |-> "", obfs |-> "", plugin |-> "", opts |-> ""]

base_outbound(type, l) ==
    [type |-> type, server |-> l.host, port |-> l.port, cred |-> l.cred]

\* Keys and short ids are shorthands here: "bad" is one the checks refuse.
Valid(value) == value # "bad"

tls_config_from_values(sni, alpn, fp, pbk, sid, insecure) ==
    [tls |-> TRUE, sni |-> sni, alpn |-> alpn, insecure |-> insecure, pbk |-> pbk,
     fp |-> IF fp = "" /\ pbk # "" THEN "chrome" ELSE fp,
     sid |-> IF pbk # "" THEN sid ELSE ""]

Security(par) == lower(first_param(par, <<"security", "tls">>))
RealityKey  == <<"pbk", "public_key", "reality_pbk">>
ShortId     == <<"sid", "short_id">>

\* Mutant: a Reality key alone does not turn TLS on.
tls_enabled_by_name(par, default) ==
    /\ Security(par) # "none"
    /\ default \/ Security(par) \in {"tls", "reality"}

tls_enabled(par, default) ==
    /\ Security(par) # "none"
    /\ \/ default
       \/ Security(par) \in {"tls", "reality"}
       \/ first_param(par, RealityKey) # ""

tls_refused(par, default) ==
    /\ tls_enabled(par, default)
    /\ \/ ~Valid(first_param(par, RealityKey))
       \/ ~Valid(first_param(par, ShortId))

tls_config(par, default, host) ==
    IF ~tls_enabled(par, default) THEN NoTls
    ELSE LET sni == first_param(par, <<"sni", "serverName", "peer">>)
         IN  tls_config_from_values(
                 IF sni = "" THEN host ELSE sni,
                 first_param(par, <<"alpn">>),
                 first_param(par, <<"fp", "fingerprint">>),
                 first_param(par, RealityKey), first_param(par, ShortId),
                 truthy(first_param(par, <<"allowInsecure", "insecure", "skip-cert-verify">>)))

TransportType(par) == first_param(par, <<"type", "net", "network">>)

transport_refused(par) ==
    lower(TransportType(par)) \notin
        {"", "tcp", "ws", "websocket", "grpc", "h2", "http", "httpupgrade"}

transport_config(par) ==
    LET kind == lower(TransportType(par))
        at   == [path |-> first_param(par, <<"path">>),
                 host |-> first_param(par, <<"host">>), service |-> ""]
    IN  CASE kind \in {"ws", "websocket"} -> ("net" :> "ws") @@ at
          [] kind \in {"h2", "http"}      -> ("net" :> "http") @@ at
          [] kind = "httpupgrade"         -> ("net" :> "httpupgrade") @@ at
          [] kind = "grpc" ->
                 [Direct EXCEPT !.net = "grpc",
                     !.service = first_param(par, <<"serviceName", "service_name">>)]
          [] OTHER -> Direct

supported_vless_flow(flow) == IF lower(flow) = "none" THEN "" ELSE lower(flow)

standard_outbound(l, type) ==
    LET par  == l.par
        flow == supported_vless_flow(first_param(par, <<"flow">>))
        tls  == tls_config(par, protocol_defaults_to_tls(type), l.host)
    IN  IF \/ l.cred = ""
           \/ tls_refused(par, protocol_defaults_to_tls(type))
           \/ type \in {"vless", "trojan"} /\ transport_refused(par)
           \/ type = "vless" /\ flow \notin {"", "xtls-rprx-vision"}
        THEN Failed
        ELSE base_outbound(type, l) @@
             CASE type = "vless"  -> ("flow" :> flow) @@ tls @@ transport_config(par) @@ Plain
               [] type = "trojan" -> tls @@ transport_config(par) @@ Plain
                  \* no transport, and TLS even where the link says "none"
               [] OTHER -> ("tls" :> TRUE) @@ tls @@ Direct
                             @@ When(type = "hysteria2",
                                     "obfs" :> first_param(par, <<"obfs">>))
                             @@ Plain

vmess_outbound(l) ==
    LET par == l.par
        sni == first_param(par, <<"sni", "host">>)
        transport == Opt("type", first_param(par, <<"net">>))
                         @@ Opt("path", first_param(par, <<"path">>))
                         @@ Opt("host", first_param(par, <<"host">>))
    IN  IF l.cred = "" \/ transport_refused(transport) THEN Failed
        ELSE base_outbound("vmess", l)
               @@ (IF lower(first_param(par, <<"tls">>)) = "tls"
                   THEN tls_config_from_values(sni, first_param(par, <<"alpn">>),
                            first_param(par, <<"fp">>), "", "", FALSE)
                   ELSE NoTls)
               @@ transport_config(transport) @@ Plain

normalize_shadowsocks_method(method) ==
    IF method = "chacha20-poly1305" THEN "chacha20-ietf-poly1305" ELSE lower(method)

shadowsocks_outbound(l) ==
    LET plugin == first_param(l.par, <<"plugin">>)
    IN  IF l.cred = "" \/ l.par["method"] = "ss" THEN Failed
        ELSE base_outbound("ss", l) @@ NoTls @@ Direct
               @@ [Plain EXCEPT !.method = normalize_shadowsocks_method(l.par["method"]),
                                !.plugin = plugin,
                                !.opts = first_param(l.par, <<"plugin-opts">>)]

sing_box_outbound_from_share_link(l) ==
    CASE l.scheme = "vmess"                -> vmess_outbound(l)
      [] l.scheme = "ss"                   -> shadowsocks_outbound(l)
      [] l.scheme \in {"vless", "trojan"}  -> standard_outbound(l, l.scheme)
      [] l.scheme \in {"hysteria2", "hy2"} -> standard_outbound(l, "hysteria2")
      [] l.scheme = "tuic"                 -> standard_outbound(l, "tuic")
      [] OTHER                             -> Failed

-----------------------------------------------------------------------------
(* From a link to an entry of the served Clash configuration.              *)

NameOf(l) == IF l.name = <<>> THEN <<l.host>> ELSE l.name

Entry(type, l, m) ==
    [type |-> type, server |-> l.host, port |-> l.port, cred |-> l.cred,
     name |-> NameOf(l), map |-> m]

\* The options of a transport, by the name the link gives it.
transport_opts(net, ws, path, host, service) ==
    When(net # "tcp", "network" :> net)
      @@ CASE net \in ws   -> Opt("ws-opts.path", path) @@ Opt("ws-opts.headers.Host", host)
           [] net = "grpc" -> Opt("grpc-opts.grpc-service-name", service)
           [] net \in {"h2", "http"} -> Opt("h2-opts.path", path) @@ Opt("h2-opts.host", host)
           [] net = "httpupgrade" -> Opt("httpupgrade-opts.path", path)
                                       @@ Opt("httpupgrade-opts.host", host)
           [] OTHER -> <<>>

vmess_uri_to_clash(l) ==
    LET par  == l.par
        net  == first_param(par, <<"net">>)
        path == first_param(par, <<"path">>)
    IN  Entry("vmess", l,
              When(lower(first_param(par, <<"tls">>)) = "tls",
                   ("tls" :> "true") @@ Opt("servername", first_param(par, <<"sni">>))
                       @@ Opt("client-fingerprint", first_param(par, <<"fp">>))
                       @@ Opt("alpn[]", first_param(par, <<"alpn">>)))
                @@ transport_opts(IF net = "" THEN "tcp" ELSE net, {"ws"}, path,
                                  first_param(par, <<"host">>), path))

standard_uri_to_clash(l) ==
    LET par      == l.par
        security == first_param(par, <<"security", "tls">>)
        reality  == \/ security = "reality"
                    \/ PresentKeys(par, <<"pbk", "public_key">>) # {}
        net      == TransportType(par)
    IN  Entry(l.scheme, l,
              When(l.scheme = "vless", Opt("flow", first_param(par, <<"flow">>)))
                @@ When(reality \/ security = "tls" \/ l.scheme = "trojan",
                        ("tls" :> "true")
                          @@ Opt("servername", first_param(par, <<"sni", "serverName", "peer">>))
                          @@ Opt("client-fingerprint", first_param(par, <<"fp", "fingerprint">>)))
                @@ When(reality,
                        Opt("reality-opts.public-key", first_param(par, <<"pbk", "public_key">>))
                          @@ Opt("reality-opts.short-id", first_param(par, ShortId)))
                @@ When(truthy(first_param(par, <<"allowInsecure", "insecure", "skip-cert-verify">>)),
                        "skip-cert-verify" :> "true")
                @@ Opt("alpn[]", first_param(par, <<"alpn">>))
                @@ transport_opts(IF net = "" THEN "tcp" ELSE net, {"ws", "websocket"},
                                  first_param(par, <<"path">>), first_param(par, <<"host">>),
                                  first_param(par, <<"serviceName", "service_name">>)))

ss_uri_to_clash(l) ==
    Entry("ss", l,
          ("cipher" :> normalize_shadowsocks_method(l.par["method"]))
            @@ Opt("plugin", first_param(l.par, <<"plugin">>))
            @@ Opt("plugin-opts", first_param(l.par, <<"plugin-opts">>)))

\* Hysteria2, TUIC and ShadowsocksR have no Clash form, nor has a VMess link
\* whose payload is not JSON, or a cipher that is refused.
Convertible(l) ==
    \/ l.scheme = "vmess" /\ l.cred # ""
    \/ l.scheme \in {"vless", "trojan"}
    \/ l.scheme = "ss" /\ l.par["method"] # "ss"

uri_to_clash_proxy(l) ==
    CASE l.scheme = "vmess" -> vmess_uri_to_clash(l)
      [] l.scheme = "ss"    -> ss_uri_to_clash(l)
      [] OTHER              -> standard_uri_to_clash(l)

\* A name that came before gets the number of its turn appended.
deduped(entries) ==
    [i \in DOMAIN entries |->
        LET turn == Cardinality({j \in 1 .. i : entries[j].name = entries[i].name})
        IN  IF turn = 1 THEN entries[i]
            ELSE [entries[i] EXCEPT !.name = Append(entries[i].name, turn)]]

\* The configuration: its proxies, and the names its Auto group lists.
\* A name is written quoted among the proxies and bare in the group.
ReadBack(name) == IF name[1] = "US #1" THEN <<"US">> ELSE name

generate_clash_config(links) ==
    LET convertible == SelectSeq(links, Convertible)
        entries == deduped([i \in DOMAIN convertible |-> uri_to_clash_proxy(convertible[i])])
    IN  [proxies |-> entries,
         auto    |-> [i \in DOMAIN entries |-> ReadBack(entries[i].name)]]

-----------------------------------------------------------------------------
(* Reading a document.  A document is [form, entries, stray]: stray are    *)
(* the links its text shows beside its entries (a comment, a name, an      *)
(* attribute of a page).                                                   *)

\* What is_token_boundary leaves of a link: base64 payloads are whole, the
\* brackets of an IPv6 host cut the endpoint off, and a comma in the last
\* parameter cuts the rest of it and the name off.
token(l) ==
    IF l.scheme \in {"vmess", "ssr"} THEN l
    ELSE IF l.host = "[v6]" THEN [l EXCEPT !.host = "", !.port = 0, !.par = <<>>, !.name = <<>>]
    ELSE IF first_param(l.par, <<"alpn">>) = "h2,h1"
         THEN [l EXCEPT !.par = ("alpn" :> "h2") @@ l.par, !.name = <<>>]
         ELSE l

\* A JSON text that writes "&" as \u0026, read before the escape is undone:
\* the first parameter, here security, swallows the others.
escaped(l) ==
    IF "security" \in DOMAIN l.par /\ Cardinality(DOMAIN l.par) > 1
    THEN [l EXCEPT !.par = "security" :> "escaped"] ELSE l

Tokens(links) == [i \in DOMAIN links |-> token(links[i])]

TextTokens(d) ==
    CASE d.form = "links"                 -> Tokens(d.entries)
      [] d.form = "json"                  -> Tokens([i \in DOMAIN d.entries |-> escaped(d.entries[i])])
      [] d.form \in {"clash", "xray", "html"} -> Tokens(d.stray)
      [] OTHER                            -> <<>>

DecodedTokens(d) ==
    CASE d.form = "links64"               -> Tokens(d.entries)
      [] d.form \in {"clash64", "xray64"} -> Tokens(d.stray)
      [] OTHER                            -> <<>>

\* Mutant: texts already tried are not remembered.
CollectedAgain(links, source) ==
    [seen |-> seen \cup ToSet(links),
     cands |-> cands \o LET good == SelectSeq(links, Parses)
                       IN  [i \in DOMAIN good |-> parse_share_link(source, good[i])]]

\* Text already tried is passed over; what does not parse is dropped.
Collected(links, source) ==
    FoldLeft(LAMBDA acc, l :
                 IF l \in acc.seen THEN acc
                 ELSE [seen |-> acc.seen \cup {l},
                       cands |-> IF Parses(l)
                                 THEN Append(acc.cands, parse_share_link(source, l))
                                 ELSE acc.cands],
             [seen |-> seen, cands |-> cands], links)

Collect(links, source) ==
    /\ cands' = Collected(links, source).cands
    /\ seen' = Collected(links, source).seen

\* An entry whose link does not read, or that has none, is skipped.
Readable(links) == SelectSeq(links, Parses)

Pass(from, to) == stage = from /\ stage' = to /\ UNCHANGED <<doc, reachable, served>>

ScanText ==
    /\ Pass("text", "decoded")
    /\ Collect(TextTokens(doc), "source")

ScanDecoded ==
    /\ Pass("decoded", "clash")
    /\ Collect(DecodedTokens(doc), "source")

\* A document with a list of proxies, looked at only if nothing was found.
try_parse_clash_subscription ==
    /\ Pass("clash", "tree")
    /\ IF cands = <<>> /\ doc.form \in {"clash", "clash64"}
       THEN LET links == [i \in DOMAIN doc.entries |-> clash_proxy_to_uri(doc.entries[i])]
            IN  Collect(Readable(links), "source")
       ELSE UNCHANGED <<cands, seen>>

\* The texts of a JSON or YAML tree, with their escapes undone.
collect_entries_from_tree ==
    /\ Pass("tree", "html")
    /\ Collect(CASE doc.form = "json"              -> Tokens(doc.entries)
                 [] doc.form \in {"clash", "xray"} -> Tokens(doc.stray)
                 [] OTHER                          -> <<>>, "source")

\* A page's attributes hold links whole; the blocks of its textarea, code and
\* pre elements hold them in base64, and decoded they are cut like any text.
extract_uris_from_attributes(d) == SelectSeq(d.stray, Parses)

extract_base64_from_tags(d) == SelectSeq(Tokens(d.entries), Parses)

\* The attributes come first, and their candidates carry no source.
try_extract_from_html ==
    /\ Pass("html", "xray")
    /\ IF cands = <<>> /\ doc.form = "html"
       THEN LET first == Collected(extract_uris_from_attributes(doc), "")
                fresh == SelectSeq(extract_base64_from_tags(doc), LAMBDA l : l \notin first.seen)
            IN  /\ seen' = first.seen \cup ToSet(fresh)
                /\ cands' = first.cands \o Collected(fresh, "source").cands
       ELSE UNCHANGED <<cands, seen>>

\* Complete client configurations; the first of them decides for all.
try_parse_xray_configs ==
    /\ Pass("xray", "probe")
    /\ IF /\ cands = <<>>
          /\ doc.form \in {"xray", "xray64"}
          /\ doc.entries # <<>>
          /\ doc.entries[1].protocol # "no outbounds"
       THEN LET links == [i \in DOMAIN doc.entries |-> xray_outbound_to_uri(doc.entries[i])]
            IN  Collect(Readable(links), "source")
       ELSE UNCHANGED <<cands, seen>>

\* Whatever sing-box accepts may answer, in whatever order of rank.
Probe ==
    /\ stage = "probe" /\ stage' = "serve"
    /\ \E up \in SUBSET DOMAIN cands :
          /\ \A i \in up : sing_box_outbound_from_share_link(cands[i].uri) # Failed
          /\ \E order \in SetToAllKPermutations(up) :
                /\ Len(order) = Cardinality(up)
                /\ reachable' = [i \in DOMAIN order |-> cands[order[i]].uri]
    /\ UNCHANGED <<doc, cands, seen, served>>

\* The first TopN reachable links are taken before any is converted.
Top == SubSeq(reachable, 1, IF TopN < Len(reachable) THEN TopN ELSE Len(reachable))

mihomo_response ==
    /\ stage = "serve" /\ stage' = "done"
    /\ served' = generate_clash_config(Top)
    /\ UNCHANGED <<doc, cands, seen, reachable>>

Init ==
    /\ doc \in Docs
    /\ stage = "text"
    /\ cands = <<>>
    /\ seen = {}
    /\ reachable = <<>>
    /\ served = [proxies |-> <<>>, auto |-> <<>>]

Next ==
    \/ ScanText \/ ScanDecoded
    \/ try_parse_clash_subscription \/ collect_entries_from_tree
    \/ try_extract_from_html \/ try_parse_xray_configs
    \/ Probe \/ mihomo_response

Spec == Init /\ [][Next]_vars

-----------------------------------------------------------------------------
(* Properties.                                                             *)

\* The node a Clash entry describes, in the fields of an outbound, as the
\* format has it: a Trojan's server name is "sni" and it always uses TLS, and
\* the options of a plugin are a mapping.
Node(e) ==
    LET m   == e.map
        net == network(m)
        pbk == first_param(m, <<"reality-opts.public-key">>)
        tls == e.type = "trojan" \/ yaml_bool_or_string(m, "tls", FALSE) \/ pbk # ""
        IfTls(key) == IF tls THEN first_param(m, key) ELSE ""
        sni == IfTls(<<IF e.type = "trojan" THEN "sni" ELSE "servername">>)
        fp  == IfTls(<<"client-fingerprint">>)
        At(ws, h2, up) == first_param(m, CASE net = "ws"          -> <<ws>>
                                           [] net = "h2"          -> <<h2>>
                                           [] net = "httpupgrade" -> <<up>>
                                           [] OTHER               -> <<>>)
    IN  [server |-> e.server, port |-> e.port, cred |-> e.cred, tls |-> tls,
         sni |-> IF tls /\ sni = "" THEN e.server ELSE sni,
         fp |-> IF fp = "" /\ pbk # "" THEN "chrome" ELSE fp,
         alpn |-> IfTls(<<"alpn[]", "alpn">>),
         insecure |-> tls /\ truthy(first_param(m, <<"skip-cert-verify">>)),
         pbk |-> pbk,
         sid |-> IF pbk = "" THEN "" ELSE first_param(m, <<"reality-opts.short-id">>),
         net |-> IF net = "h2" THEN "http" ELSE net,
         path |-> At("ws-opts.path", "h2-opts.path", "httpupgrade-opts.path"),
         host |-> At("ws-opts.headers.Host", "h2-opts.host", "httpupgrade-opts.host"),
         service |-> IF net = "grpc" THEN first_param(m, <<"grpc-opts.grpc-service-name">>)
                     ELSE "",
         flow |-> first_param(m, <<"flow">>),
         method |-> normalize_shadowsocks_method(first_param(m, <<"cipher">>)),
         plugin |-> first_param(m, <<"plugin">>),
         opts |-> first_param(m, <<"plugin-opts{}">>)]

Fields == {"server", "port", "cred", "tls", "sni", "fp", "alpn", "insecure", "pbk", "sid",
           "net", "path", "host", "service", "flow", "method", "plugin", "opts"}

\* The node that was probed; without a server name TLS asks for the server's.
Probed(l) ==
    LET o == sing_box_outbound_from_share_link(l)
    IN  IF o # Failed /\ o.tls /\ o.sni = "" THEN [o EXCEPT !.sni = o.server] ELSE o

\* Loss: a credential that a link's reader changes, where it is written bare.
Kept_cred(type, cred) ==
    {f \in {"cred"} : type \in {"vmess", "ss", "shadowsocks"} \/ cred \notin {"p:q", "p%41"}}

\* What the conversion of a Clash entry carries over, by type and transport;
\* what is missing here is lost, as the README lists.
Kept(e) ==
    LET m   == e.map
        net == network(m)
        at  == IF net \in {"ws", "h2"} THEN {"path", "host"} ELSE {}
    IN  {"server", "port", "net"} \cup Kept_cred(e.type, e.cred) \cup
        CASE e.type = "vless" ->
                 {"tls", "pbk", "sid", "sni", "fp", "insecure", "flow"} \cup at \cup
                 {f \in {"service"} : net = "grpc"} \cup {f \in {"path"} : net = "httpupgrade"} \cup
                 {f \in {"alpn"} : "alpn[]" \notin DOMAIN m}
          [] e.type = "vmess" ->
                 at \cup {f \in {"tls", "fp", "alpn", "sni"} :
                             /\ "reality-opts.public-key" \notin DOMAIN m
                             /\ f = "sni" => first_param(m, <<"servername">>) # ""}
          [] e.type = "trojan" -> {"tls", "insecure"} \cup {f \in {"host"} : net = "ws"}
          [] OTHER -> {"method", "plugin"} \cup {f \in {"opts"} : "plugin-opts{}" \notin DOMAIN m
                                                              /\ "plugin-opts" \notin DOMAIN m}

\* An Xray outbound in the terms of a Clash entry, and what its conversion keeps.
AsEntry(x) ==
    LET m        == x.map
        net      == Stream(x, "network", "tcp")
        security == Stream(x, "security", IF x.protocol = "trojan" THEN "tls" ELSE "none")
        name     == IF x.protocol = "trojan" THEN "sni" ELSE "servername"
    IN  [type |-> x.protocol, server |-> x.server, port |-> x.port, cred |-> x.cred,
         map |->
           ("network" :> net) @@ ("tls" :> IF security \in {"tls", "reality"} THEN "true" ELSE "false")
             @@ set_param(name, m, "tls.serverName")
             @@ set_param(name, m, "reality.serverNames")
             @@ set_param("client-fingerprint", m, "tls.fingerprint")
             @@ set_param("alpn[]", m, "tls.alpn")
             @@ set_param("reality-opts.public-key", m, "reality.publicKey")
             @@ set_param("ws-opts.path", m, "ws.path")
             @@ set_param("ws-opts.headers.Host", m, "ws.headers.Host")
             @@ set_param("ws-opts.headers.Host", m, "ws.host")
             @@ set_param("grpc-opts.grpc-service-name", m, "grpc.serviceName")
             @@ set_param("h2-opts.path", m, "http.path")
             @@ set_param("cipher", m, "method")]

XrayKept(x) ==
    LET m       == x.map
        net     == Stream(x, "network", "tcp")
        reality == Stream(x, "security", "") = "reality"
    IN  {"server", "port", "net"} \cup Kept_cred(x.protocol, x.cred) \cup
        CASE x.protocol = "vless"  -> {"tls", "sni", "fp", "alpn", "pbk", "path", "host", "service"}
          [] x.protocol = "vmess"  ->
                 {"path"} \cup {f \in {"host"} : "ws.host" \notin DOMAIN m} \cup
                 {f \in {"tls", "fp", "sni"} :
                     /\ ~reality
                     /\ f = "sni" => "tls.serverName" \in DOMAIN m}
          [] x.protocol = "trojan" ->
                 {"service"} \cup {f \in {"path"} : net # "h2"} \cup
                 {f \in {"host"} : "ws.host" \notin DOMAIN m} \cup
                 {f \in {"tls", "sni", "fp"} : ~reality /\ Stream(x, "security", "tls") # "none"}
          [] OTHER                 -> {"method"}

\* The link the document's entry is read as.
LinkOf(d, e) ==
    CASE d.form \in {"clash", "clash64"} -> clash_proxy_to_uri(e)
      [] d.form \in {"xray", "xray64"}   -> xray_outbound_to_uri(e)
      [] OTHER                           -> e

Keeps(e, kept, link, l) ==
    l = link /\ Probed(l) # Failed => \A f \in kept : Node(e)[f] = Probed(l)[f]

\* Importing a node keeps it: the outbound probed for a Clash entry or an Xray
\* outbound differs from it at most in the fields the conversion is known to
\* lose (clash_proxy_to_uri and xray_outbound_to_uri, whose links are read
\* again by sing_box_outbound_from_share_link).
ImportKeeps ==
    \A i \in DOMAIN doc.entries, j \in DOMAIN cands :
        LET e == doc.entries[i]
        IN  CASE doc.form \in {"clash", "clash64"} ->
                     Keeps(e, Kept(e), LinkOf(doc, e), cands[j].uri)
              [] doc.form \in {"xray", "xray64"} /\ e.protocol # "no outbounds" ->
                     Keeps(AsEntry(e), XrayKept(e), LinkOf(doc, e), cands[j].uri)
              [] OTHER -> TRUE

\* Links two readers take differently.  The probe ignores case in security,
\* transport and flow and the exporter does not; they do not agree on
\* security=none, on an empty or oddly named key, on flow=none, on the names
\* "websocket" and "http", nor on the service and the server name of a VMess
\* link; and the exporter writes a Trojan's server name and the options of a
\* plugin in a form the format does not have.
TwoReadings(l) ==
    LET par == l.par
        net == first_param(par, IF l.scheme = "vmess" THEN <<"net">>
                                ELSE <<"type", "net", "network">>)
        security == first_param(par, <<"security", "tls">>)
        flow == first_param(par, <<"flow">>)
        sni  == first_param(par, <<"sni", "serverName", "peer">>)
    IN  \/ net # lower(net) \/ net \in {"websocket", "http"}
        \/ /\ l.scheme = "vmess"
           /\ \/ net = "grpc"
              \/ first_param(par, <<"sni">>) = "" /\ first_param(par, <<"host">>) # ""
        \/ /\ l.scheme \in {"vless", "trojan"}
           /\ \/ lower(security) = "none"
              \/ first_param(par, <<"pbk">>) = "" /\ PresentKeys(par, RealityKey) # {}
        \/ l.scheme = "vless" /\ (security # lower(security) \/ flow # lower(flow) \/ flow = "none")
        \/ l.scheme = "trojan" /\ sni \notin {"", l.host}
        \/ l.scheme = "ss" /\ first_param(par, <<"plugin-opts">>) # ""

\* A client that takes the served Clash configuration connects to the node that
\* was probed and ranked, not to one that answers differently: the two
\* translations of one link agree, but for those the readers are known to take
\* differently (convert.rs and probe.rs).
ExportAgrees ==
    LET top == SelectSeq(Top, Convertible)
    IN  \A i \in DOMAIN served.proxies :
            ~TwoReadings(top[i]) =>
                \A f \in Fields : Node(served.proxies[i])[f] = Probed(top[i])[f]

Stray(d) == \E i \in DOMAIN d.stray : Parses(token(d.stray[i]))

\* Loss: a link in a text that a bracket or a comma cuts in two.
CutInTwo(l) ==
    /\ l.scheme \notin {"vmess", "ssr"}
    /\ l.host = "[v6]" \/ first_param(l.par, <<"alpn">>) = "h2,h1"

\* Loss: an entry whose address or credential ends the link that is made of it.
EndsLink(type, e) == type \in {"vless", "trojan"} /\ (e.server = "v6" \/ e.cred = "p#")

\* The entries to be found: all the program has a protocol for, in whatever
\* form, but for these two losses.
ToBeFound(d, e) ==
    CASE d.form \in {"clash", "clash64"} ->
             e.type \in {"vmess", "vless", "trojan", "ss"} /\ ~EndsLink(e.type, e)
      [] d.form \in {"xray", "xray64"} ->
             /\ e.protocol = "shadowsocks" \/ (e.protocol \in {"vmess", "vless", "trojan"} /\ e.stream)
             /\ ~EndsLink(e.protocol, e)
      [] OTHER -> e.host # "" /\ e.port # 0 /\ ~CutInTwo(e)

\* What a document may yield: its entries and stray links, whole or as a text
\* shows them.
Yield(d) ==
    LET links == {LinkOf(d, d.entries[i]) : i \in DOMAIN d.entries}
                     \cup {d.stray[i] : i \in DOMAIN d.stray}
    IN  links \cup {token(l) : l \in links}
            \cup (IF d.form = "json" THEN {token(escaped(l)) : l \in links} ELSE {})

\* A broken entry costs only itself, a repeated one adds nothing, and nothing
\* is made up: once all passes are over, every entry to be found is a candidate,
\* once, and one that a comma cuts is, by its first part.  It fails where a
\* link stands beside the list of a structured document, which is then not
\* read, and where the first Xray configuration has no outbounds.
ReadWhole ==
    stage = "probe" =>
        /\ \A i, j \in DOMAIN cands : cands[i].uri = cands[j].uri => i = j
        /\ \A i \in DOMAIN cands : cands[i].uri \in Yield(doc)
        /\ \/ doc.form \notin {"links", "links64", "json"} /\ Stray(doc)
           \/ /\ doc.form \in {"xray", "xray64"}
              /\ doc.entries # <<>> /\ doc.entries[1].protocol = "no outbounds"
           \/ \A e \in ToSet(doc.entries) :
                 LET found == {cands[i].uri : i \in DOMAIN cands}
                     first == token(LinkOf(doc, e))
                 IN  /\ ToBeFound(doc, e) => LinkOf(doc, e) \in found
                     /\ CutInTwo(LinkOf(doc, e)) /\ Parses(first) =>
                            first \in found \/ LinkOf(doc, e) \in found

\* "The output is a full Mihomo-compatible config ... ready to import directly"
\* (convert.rs:1002): every name the Auto group lists is that of a proxy.
ReadyToImport ==
    \A i \in DOMAIN served.auto :
        \E j \in DOMAIN served.proxies : served.proxies[j].name = served.auto[i]

================================================================================
