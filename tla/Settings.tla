------------------------------- MODULE Settings -------------------------------
(***************************************************************************)
(* What a request is configured with: the library's defaults of            *)
(* core/Neutrx.ts, the configuration and the live defaults of each client  *)
(* (NeutrxClient, and BrowserClient with the same merges), and what the    *)
(* request says itself; core/defaults.ts, core/config.ts.                  *)
(*                                                                         *)
(* A value is a word: words are numbered in the order in which they were   *)
(* said, 0 is what is built in, and the negative of a word is a header set *)
(* to `false`.  One option stands for all that are merged alike, one       *)
(* header for all names.  `about` is what the words of a behaviour are     *)
(* about; options do not depend on each other, but for `auth`, which       *)
(* writes a header, and `maxBodyLength`, whose default is the profile's.   *)
(*                                                                         *)
(* SecurityAlways and ConfigAlone are mutated forms of the definitions     *)
(* they precede; no action uses them.                                      *)
(***************************************************************************)
EXTENDS Undefined, Integers, FiniteSets

CONSTANTS
    MaxClients, \* bound: clients made by neutrx.create() and client.create()
    Methods,    \* methods that requests use and that have headers of their own
    MaxWords    \* bound: words said about each topic

ASSUME SettingAssumption ==
    /\ MaxClients \in Nat /\ \A w \in {MaxWords[t] : t \in DOMAIN MaxWords} : w \in Nat
    /\ None \notin Int /\ None \notin {"standard", "legacy"}

\* 0 is the client behind `neutrx` itself; the others are made one after another.
Root == 0
Clients == 0..MaxClients
Platforms == {"node", "browser"}
Options == {"timeout", "proxy", "auth", "maxBodyLength"}
Filled == {"timeout", "maxBodyLength"}  \* options that a configuration completes
Groups == {"common"} \cup Methods
Topics == {{"timeout"}, {"proxy"}, {"auth", "headers"}, {"security", "maxBodyLength"}}
Profiles == {"standard", "legacy"}

VARIABLES
    platform,   \* the build in use
    about,
    words,      \* how many words have been said
    library,    \* neutrx.defaults: [options, groups, security]
    instance,   \* of each client [config, defaults, own], or None
    heard,       \* history: what each client was last told of each option, and the
                 \* profile of the first client of its line of create() calls
    call        \* the request under way

settingVars == <<platform, about, words, library, instance, heard, call>>

-----------------------------------------------------------------------------
\* Merging.

Unsaid(S) == [s \in S |-> None]
Overlaid(base, override) ==
    [s \in DOMAIN base |-> IF override[s] # None THEN override[s] ELSE base[s]]
Silent == [options |-> Unsaid(Options), header |-> None,
           security |-> [profile |-> None, rule |-> None]]
Later(base, override) == IF override # None THEN override ELSE base
Visible(header) == IF header # None /\ header < 0 THEN None ELSE header

\* Of what a profile decides, legacy's is -1: a lenient rule, a body without a limit.
ProfileRule(profile) == IF profile = "legacy" THEN -1 ELSE 0
ProfileOf(security) == IF security.profile = None THEN "standard" ELSE security.profile

BuiltIn(profile) ==
    [o \in Options |->
        IF o = "maxBodyLength" THEN ProfileRule(profile)
        ELSE IF o \in Filled \/ (platform = "browser" /\ o = "proxy") THEN 0 ELSE None]

\* In the browser `proxy` is always false.
Completion(custom) == Overlaid(BuiltIn(ProfileOf(custom.security)), custom.options)
buildConfig(custom) ==
    [options |-> IF platform = "browser" THEN [Completion(custom) EXCEPT !["proxy"] = 0]
                 ELSE Completion(custom),
     header |-> custom.header,
     security |-> [profile |-> ProfileOf(custom.security),
                   rule |-> Later(ProfileRule(ProfileOf(custom.security)), custom.security.rule)]]

\* Another profile brings its own rules.
SecurityAlways(base, override) == Overlaid(base, override)
SecurityOver(base, override) ==
    IF override.profile \notin {None, base.profile} THEN override ELSE Overlaid(base, override)
mergeConfig(base, override) ==
    [options |-> Overlaid(base.options, override.options),
     header |-> Later(base.header, override.header),
     security |-> SecurityOver(base.security, override.security)]

\* The method's group, then once more what `common` shows.
flattenHeaderDefaults(groups, method) ==
    Later(Later(groups["common"], IF method \in Methods THEN groups[method] ELSE None),
          Visible(groups["common"]))
defaultsToConfig(defaults, method) ==
    [options |-> defaults.options, header |-> flattenHeaderDefaults(defaults.groups, method),
     security |-> defaults.security]
mergeDefaults(defaults, custom, method) ==
    LET base == defaultsToConfig(defaults, method)
    IN  [options |-> Overlaid(base.options, custom.options),
         header |-> Later(base.header, custom.header),
         security |-> Overlaid(base.security, custom.security)]

createMutableDefaults(config) ==
    [options |-> config.options, groups |-> [Unsaid(Groups) EXCEPT !["common"] = config.header],
     security |-> Silent.security]
NewClient(custom) ==
    LET config == buildConfig(custom)
    IN  [config |-> config, defaults |-> createMutableDefaults(config), own |-> None]

\* A live default that the constructed components would not follow makes every use of
\* the client throw.
Unsafe(c) == instance[c].defaults.security # Silent.security
ConfigAlone(c, method) == instance[c].config
ConfigWithDefaults(c, method) ==
    buildConfig(mergeConfig(instance[c].config, defaultsToConfig(instance[c].defaults, method)))

-----------------------------------------------------------------------------
Idle == [phase |-> "idle", client |-> Root]
SettingInit ==
    /\ about \in Topics /\ words = 0
    /\ platform \in IF about = {"proxy"} THEN Platforms ELSE {"node"}
    /\ library = [options |-> Unsaid(Options), groups |-> Unsaid(Groups), security |-> Silent.security]
    /\ instance = [c \in Clients |-> IF c = Root THEN NewClient(Silent) ELSE None]
    /\ heard = [c \in Clients |->
                 [now |-> buildConfig(Silent).options, born |-> buildConfig(Silent).options,
                  profile |-> "standard"]]
    /\ call = Idle

Word == words + 1
Spoken == Options \cap about
Says == words < MaxWords[about] /\ words' = Word

\* neutrx.defaults are the library's: those of the client behind it are out of reach.
Reachable(c) == c # Root /\ instance[c] # None
New(c) == c # Root /\ instance[c] = None /\ instance[c - 1] # None

\* What someone may set on an object of defaults, and what they may delete.
SetOption(defaults, o) == [defaults EXCEPT !.options[o] = Word]
SetGroup(defaults) ==
    {[defaults EXCEPT !.groups[g] = w] : g \in Groups, w \in {Word, -Word}}
    \cup {[defaults EXCEPT !.groups = [Unsaid(Groups) EXCEPT !["common"] = Word]]}
SetSecurity(defaults) ==
    {[defaults EXCEPT !.security = s] :
        s \in [profile : Profiles \cup {None}, rule : {None, Word}] \ {Silent.security}}
Deleted(defaults, o) == [defaults EXCEPT !.options[o] = None]
GroupsDeleted(defaults) ==
    {[defaults EXCEPT !.groups[g] = None] : g \in Groups} \cup {[defaults EXCEPT !.groups = Unsaid(Groups)]}
SecurityDeleted(defaults) == [defaults EXCEPT !.security = Silent.security]

Others(defaults) ==
    (IF "headers" \in about THEN SetGroup(defaults) ELSE {})
    \cup (IF "security" \in about THEN SetSecurity(defaults) ELSE {})
OthersDeleted(defaults) ==
    (IF "headers" \in about THEN GroupsDeleted(defaults) ELSE {})
    \cup (IF "security" \in about THEN {SecurityDeleted(defaults)} ELSE {})

ChangeLibrary ==
    /\ \/ /\ Says
          /\ library' \in {SetOption(library, o) : o \in Spoken} \cup Others(library)
       \/ /\ UNCHANGED words
          /\ library' \in {Deleted(library, o) : o \in Spoken} \cup OthersDeleted(library)
    /\ UNCHANGED <<platform, about, instance, heard, call>>

Tell(c, o, w) == heard' = [heard EXCEPT ![c].now[o] = w]
SetDefault(c) ==
    /\ Reachable(c) /\ Says
    /\ \/ \E o \in Spoken :
            /\ instance' = [instance EXCEPT ![c].defaults = SetOption(@, o)]
            /\ Tell(c, o, Word)
       \/ /\ \E d \in Others(instance[c].defaults) : instance' = [instance EXCEPT ![c].defaults = d]
          /\ UNCHANGED heard
    /\ UNCHANGED <<platform, about, library, call>>

\* What remains is what the client was created with, or a setter gave it.
DeleteDefault(c) ==
    /\ Reachable(c)
    /\ \/ \E o \in Spoken :
            /\ instance' = [instance EXCEPT ![c].defaults = Deleted(@, o)]
            /\ Tell(c, o, heard[c].born[o])
       \/ /\ \E d \in OthersDeleted(instance[c].defaults) : instance' = [instance EXCEPT ![c].defaults = d]
          /\ UNCHANGED heard
    /\ UNCHANGED <<platform, about, words, library, call>>

SetTimeout(c) ==
    /\ instance[c] # None /\ "timeout" \in about /\ Says
    /\ instance' = [instance EXCEPT ![c].config.options["timeout"] = Word,
                                ![c].defaults.options["timeout"] = Word]
    /\ heard' = [heard EXCEPT ![c].now["timeout"] = Word, ![c].born["timeout"] = Word]
    /\ UNCHANGED <<platform, about, library, call>>

SetHeader(c) ==
    /\ instance[c] # None /\ "headers" \in about /\ Says
    /\ instance' = [instance EXCEPT ![c].own = Word]
    /\ UNCHANGED <<platform, about, library, heard, call>>
RemoveHeader(c) ==
    /\ instance[c] # None /\ instance[c].own # None
    /\ instance' = [instance EXCEPT ![c].own = None]
    /\ UNCHANGED <<platform, about, words, library, heard, call>>

\* What a new client or a request may say for itself; it may say nothing.
Saying(O, h, p, r) ==
    [options |-> [o \in Options |-> IF o \in O THEN Word ELSE None], header |-> h,
     security |-> [profile |-> p, rule |-> r]]
Customs ==
    {Saying(O, h, p, r) :
        O \in SUBSET Spoken, h \in IF "headers" \in about THEN {None, Word, -Word} ELSE {None},
        p \in IF "security" \in about THEN Profiles \cup {None} ELSE {None},
        r \in IF "security" \in about THEN {None, Word} ELSE {None}}
Numbered(custom) == IF custom = Silent THEN UNCHANGED words ELSE Says

\* neutrx.create(config)
CreateFromLibrary(c) ==
    /\ New(c)
    /\ \E custom \in Customs :
         LET config == buildConfig([custom EXCEPT !.options = Overlaid(library.options, @),
                                                  !.security = Overlaid(library.security, @)])
             born == config.options
         IN  /\ Numbered(custom)
             /\ instance' = [instance EXCEPT ![c] = NewClient(mergeDefaults(library, custom, None))]
             /\ heard' = [heard EXCEPT ![c] =
                            [now |-> born, born |-> born, profile |-> config.security.profile]]
    /\ UNCHANGED <<platform, about, library, call>>

\* client.create(config)
CreateFrom(parent, c) ==
    /\ New(c) /\ Reachable(parent) /\ ~Unsafe(parent)
    /\ \E custom \in Customs :
         LET born == buildConfig([custom EXCEPT !.options = Overlaid(heard[parent].now, @)]).options
         IN  /\ Numbered(custom)
             /\ instance' = [instance EXCEPT ![c] = NewClient(mergeConfig(ConfigWithDefaults(parent, None), custom))]
             /\ heard' = [heard EXCEPT ![c] =
                            [now |-> born, born |-> born, profile |-> heard[parent].profile]]
    /\ UNCHANGED <<platform, about, library, call>>

-----------------------------------------------------------------------------
\* A request.

\* A verb, request() or a call of `neutrx` itself merges the library's defaults, those
\* of no group if it names no method (and is a GET); concurrent, race, sequential,
\* hedged, paginate and sse hand their requests on as they are.
Ways(method) == {"verb", "combined"} \cup (IF method = "get" THEN {"bare"} ELSE {})
Completed(c, method, custom, way) ==
    IF c # Root \/ way = "combined" THEN custom
    ELSE mergeDefaults(library, custom, IF way = "bare" THEN None ELSE method)

Header(c, defaults, given) ==
    LET said == Later(Later(instance[c].own, defaults.header), given.header)
        auth == Later(defaults.options["auth"], given.options["auth"])
    IN  IF auth # None /\ Visible(said) = said THEN auth ELSE said
RequestOptions(defaults, given) ==
    IF platform = "browser" THEN [Overlaid(defaults.options, given.options) EXCEPT !["proxy"] = 0]
    ELSE Overlaid(defaults.options, given.options)

Unusable == [phase |-> "failed", client |-> call.client]
Prepare(c, method) ==
    /\ call.phase = "idle" /\ instance[c] # None
    /\ \E custom \in {x \in Customs : x.security = Silent.security}, way \in Ways(method) :
         LET given == Completed(c, method, custom, way)
             defaults == ConfigWithDefaults(c, method)
             shared == IF c = Root THEN library.options ELSE Unsaid(Options)
             meant == Overlaid(Overlaid(heard[c].now, shared), custom.options)
         IN  /\ Numbered(custom)
             /\ call' = IF Unsafe(c) THEN [phase |-> "failed", client |-> c]
                        ELSE [phase |-> "built", client |-> c, method |-> method, custom |-> custom,
                              layered |-> c # Root \/ way # "combined", meant |-> meant, options |-> RequestOptions(defaults, given), proxy |-> None,
                              header |-> Header(c, defaults, given)]
    /\ UNCHANGED <<platform, about, library, instance, heard>>

\* Each attempt asks the client anew for what the request and the client had left open.
Asked(c, method, o) == ConfigWithDefaults(c, method).options[o]
Dispatch ==
    /\ call.phase \in {"built", "sent"}
    /\ IF Unsafe(call.client) THEN call' = Unusable
       ELSE call' = [call EXCEPT !.phase = "sent",
                                 !.proxy = Later(Asked(call.client, call.method, "proxy"), call.options["proxy"])]
    /\ UNCHANGED <<platform, about, words, library, instance, heard>>

SettingNext ==
    \/ ChangeLibrary \/ Dispatch
    \/ \E c \in Clients :
         \/ SetDefault(c) \/ DeleteDefault(c) \/ SetTimeout(c) \/ SetHeader(c) \/ RemoveHeader(c)
         \/ CreateFromLibrary(c) \/ \E p \in Clients : CreateFrom(p, c)
         \/ \E method \in Methods : Prepare(c, method)

SettingSpec == SettingInit /\ [][SettingNext]_settingVars

-----------------------------------------------------------------------------
\* What is sent is what the request says, else what the library was told before a
\* request of `neutrx`, else what the client was told last before the request, with
\* what it was created with where that was deleted; a proxy that nobody had named by
\* then is asked for at each attempt.  A header the request names is its own where
\* nobody named an `auth`, and one it forbids is not sent whoever named one.  (What the
\* library was told and combined calls of `neutrx` use, and a header beside an `auth`,
\* are left to ConfigAsDocumented.)
\* (Neutrx.ts:149, config.ts:153, NeutrxClient.ts:1033, :1149.)
AsTold ==
    [][/\ call'.phase = "sent" /\ call'.layered =>
             /\ call'.options["timeout"] = call.meant["timeout"]
             /\ platform = "node" =>
                    call'.proxy = Later(heard[call.client].now["proxy"], call.meant["proxy"])
       /\ call'.phase = "built" =>
             LET header == call'.custom.header auth == call'.meant["auth"]
             IN  header # None /\ (auth = None \/ header < 0) => call'.header = header]_call

\* Unless a rule was set by someone, a client has the rules of its own profile, whatever
\* the profiles of the clients and defaults it was made from (config.ts:157).  A limit
\* of request bodies that nobody set is that of the profile of the first client of its
\* line: `client.create` hands on the parent's, completed (config.ts:42, :166).
ProfileHolds ==
    \A c \in Clients :
        instance[c] # None =>
            LET security == instance[c].config.security
                limit == instance[c].config.options["maxBodyLength"]
            IN  /\ security.rule <= 0 => security.rule = ProfileRule(security.profile)
                /\ limit <= 0 => limit = ProfileRule(heard[c].profile)

-----------------------------------------------------------------------------
\* docs/config-reference.md:10: "Neutrx merges config in this order: 1. library
\* defaults from `neutrx.defaults` 2. instance defaults [...] 3. per-request config. [...]
\* Per-request config always wins, including request headers over matching default
\* headers."  So a request's own header wins over a default `auth`, which writes the same
\* header, where the request itself names no `auth`; and neutrx.defaults reach every
\* request of `neutrx`, those of neutrx.concurrent() and its like as well.  :43: "`legacy`
\* keeps request body size unlimited unless you set `maxBodyLength`. `strict` and
\* `standard` use a finite default."
ConfigAsDocumented ==
    [][/\ call'.phase = "built" =>
             LET given == call'.custom
                 limit == call'.options["maxBodyLength"]
             IN  /\ given.header # None /\ given.options["auth"] = None => call'.header = given.header
                 /\ limit <= 0 => limit = ProfileRule(instance[call'.client].config.security.profile)
       /\ call'.phase = "sent" => call'.options["timeout"] = call.meant["timeout"]]_call
===============================================================================
