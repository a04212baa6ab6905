--------------------------- MODULE EdgeBootProofs ---------------------------
(* What the gate's verdict means, for all files, environments and requests. *)
EXTENDS EdgeBoot, GatewayChainProofs, FiniteSetTheorems

-----------------------------------------------------------------------------
(* The array is in the order of these ranks, and a part of it too.         *)

Rank(plugin) ==
    IF plugin = "jwt-headers" THEN 1
    ELSE IF plugin = "session-resolver" THEN 2
    ELSE IF plugin = "trace-context" THEN 3
    ELSE IF plugin = "accept-language" THEN 4
    ELSE 5

Ascending(s) == \A i, j \in 1..Len(s) : i < j => Rank(s[i]) < Rank(s[j])
Descending(s) == \A i, j \in 1..Len(s) : i < j => Rank(s[i]) > Rank(s[j])

LEMMA RankFacts ==
    /\ \A p \in Plugins : Rank(p) \in 1..5
    /\ \A p, q \in Plugins : Rank(p) = Rank(q) => p = q
  BY DEF Rank, Plugins

LEMMA FivePlugins == Cardinality(Plugins) = 5
  <1> DEFINE one == {"jwt-headers"}
             two == one \cup {"session-resolver"}
             three == two \cup {"trace-context"}
             four == three \cup {"accept-language"}
             five == four \cup {"gateway-timeout"}
  <1>1. IsFiniteSet(one) /\ Cardinality(one) = 1
    BY FS_Singleton
  <1>2. IsFiniteSet(two) /\ Cardinality(two) = 2
    <2>1. "session-resolver" \notin one
      OBVIOUS
    <2> QED
      BY <1>1, <2>1, FS_AddElement
  <1>3. IsFiniteSet(three) /\ Cardinality(three) = 3
    <2>1. "trace-context" \notin two
      OBVIOUS
    <2> QED
      BY <1>2, <2>1, FS_AddElement
  <1>4. IsFiniteSet(four) /\ Cardinality(four) = 4
    <2>1. "accept-language" \notin three
      OBVIOUS
    <2> QED
      BY <1>3, <2>1, FS_AddElement
  <1>5. IsFiniteSet(five) /\ Cardinality(five) = 5
    <2>1. "gateway-timeout" \notin four
      OBVIOUS
    <2> QED
      BY <1>4, <2>1, FS_AddElement
  <1>6. Plugins = five
    BY DEF Plugins
  <1> QED
    BY <1>5, <1>6

\* A part of the array as far as the plugin of a rank.
PartOf(s, on, rank) ==
    /\ s \in Seq(Plugins) /\ Ascending(s) /\ Len(s) <= rank
    /\ \A i \in 1..Len(s) : s[i] \in on /\ Rank(s[i]) <= rank
    /\ \A p \in Plugins \cap on : Rank(p) <= rank => \E i \in 1..Len(s) : s[i] = p

LEMMA PartAppend ==
    ASSUME NEW s, NEW on, NEW plugin \in Plugins, Rank(plugin) > 1,
           PartOf(s, on, Rank(plugin) - 1)
    PROVE  PartOf(s \o Entry(plugin, on), on, Rank(plugin))
  <1> DEFINE d == s \o Entry(plugin, on)
             t == Entry(plugin, on)
  <1>0. s \in Seq(Plugins) /\ t \in Seq(Plugins)
        /\ Len(t) = (IF plugin \in on THEN 1 ELSE 0) /\ (plugin \in on => t[1] = plugin)
    BY EntryFacts DEF PartOf
  <1> HIDE DEF t
  <1>1. /\ s \o t \in Seq(Plugins)
        /\ Len(s \o t) = Len(s) + (IF plugin \in on THEN 1 ELSE 0)
        /\ \A i \in 1..Len(s) : (s \o t)[i] = s[i]
        /\ plugin \in on => (s \o t)[Len(s) + 1] = plugin
    <2>1. /\ Len(s) \in Nat /\ s \o t \in Seq(Plugins)
          /\ Len(s \o t) = Len(s) + Len(t)
          /\ \A i \in 1..Len(s \o t) : (s \o t)[i] = IF i <= Len(s) THEN s[i] ELSE t[i - Len(s)]
      BY <1>0, Joined
    <2>2. Len(t) = 0 \/ Len(t) = 1
      BY <1>0
    <2>3. ASSUME plugin \in on PROVE (s \o t)[Len(s) + 1] = plugin
      <3>1. Len(t) = 1 /\ t[1] = plugin
        BY <1>0, <2>3
      <3>2. Len(s) + 1 \in 1..Len(s \o t) /\ ~(Len(s) + 1 <= Len(s)) /\ Len(s) + 1 - Len(s) = 1
        BY <2>1, <3>1
      <3> QED
        BY <2>1, <3>1, <3>2
    <2>4. \A i \in 1..Len(s) : i \in 1..Len(s \o t) /\ i <= Len(s)
      BY <2>1, <2>2
    <2> QED
      BY <1>0, <2>1, <2>3, <2>4
  <1>2. Rank(plugin) \in 1..5 /\ Len(s) \in Nat
    BY <1>0, RankFacts
  <1> DEFINE e == s \o t
  <1> HIDE DEF e
  <1>3. e \in Seq(Plugins) /\ Len(e) = Len(s) + (IF plugin \in on THEN 1 ELSE 0)
        /\ (\A i \in 1..Len(s) : e[i] = s[i]) /\ (plugin \in on => e[Len(s) + 1] = plugin)
    BY <1>1 DEF e
  <1>4. \A i \in 1..Len(e) : i \in 1..Len(s) \/ (i = Len(s) + 1 /\ plugin \in on)
    BY <1>2, <1>3
  <1>5. \A i \in 1..Len(s) : Rank(s[i]) \in 1..5 /\ Rank(s[i]) <= Rank(plugin) - 1 /\ s[i] \in on
    BY <1>0, RankFacts DEF PartOf
  <1>6. Ascending(e)
    <2> SUFFICES ASSUME NEW i \in 1..Len(e), NEW j \in 1..Len(e), i < j
                 PROVE  Rank(e[i]) < Rank(e[j])
      BY DEF Ascending
    <2>1. i \in 1..Len(s)
      BY <1>2, <1>3, <1>4
    <2>2. CASE j \in 1..Len(s)
      BY <1>3, <2>1, <2>2 DEF PartOf, Ascending
    <2>3. CASE j = Len(s) + 1 /\ plugin \in on
      BY <1>2, <1>3, <1>5, <2>1, <2>3
    <2> QED
      BY <1>4, <2>2, <2>3
  <1>7. \A i \in 1..Len(e) : e[i] \in on /\ Rank(e[i]) <= Rank(plugin)
    BY <1>2, <1>3, <1>4, <1>5
  <1>8. Len(e) <= Rank(plugin)
    BY <1>2, <1>3 DEF PartOf
  <1>9. ASSUME NEW p \in Plugins \cap on, Rank(p) <= Rank(plugin)
        PROVE  \E i \in 1..Len(e) : e[i] = p
    <2>1. CASE p = plugin
      <3>1. Len(s) + 1 \in 1..Len(e)
        BY <1>2, <1>3, <2>1
      <3> QED
        BY <1>3, <2>1, <3>1
    <2>2. CASE p # plugin
      <3>1. Rank(p) \in 1..5 /\ Rank(p) # Rank(plugin)
        BY <2>2, RankFacts
      <3>2. PICK i \in 1..Len(s) : s[i] = p
        BY <1>2, <1>9, <3>1 DEF PartOf
      <3> QED
        BY <1>2, <1>3, <3>2
    <2> QED
      BY <2>1, <2>2
  <1> QED
    BY <1>3, <1>6, <1>7, <1>8, <1>9 DEF PartOf, e, t

LEMMA Ranks ==
    /\ Rank("jwt-headers") = 1 /\ Rank("session-resolver") = 2 /\ Rank("trace-context") = 3
    /\ Rank("accept-language") = 4 /\ Rank("gateway-timeout") = 5
  BY DEF Rank

LEMMA PluginsThere ==
    /\ "jwt-headers" \in Plugins /\ "session-resolver" \in Plugins /\ "trace-context" \in Plugins
    /\ "accept-language" \in Plugins /\ "gateway-timeout" \in Plugins
  BY DEF Plugins

LEMMA DeclaredIsPart == ASSUME NEW on PROVE PartOf(Declared(on), on, 5)
  <1> DEFINE one == Entry("jwt-headers", on)
             two == one \o Entry("session-resolver", on)
             three == two \o Entry("trace-context", on)
             four == three \o Entry("accept-language", on)
             five == four \o Entry("gateway-timeout", on)
  <1>1. PartOf(one, on, 1)
    <2>1. one \in Seq(Plugins) /\ Len(one) = (IF "jwt-headers" \in on THEN 1 ELSE 0)
          /\ ("jwt-headers" \in on => one[1] = "jwt-headers")
      BY EntryFacts, PluginsThere
    <2> HIDE DEF one
    <2>2. \A p \in Plugins : Rank(p) <= 1 => p = "jwt-headers"
      BY RankFacts, Ranks, PluginsThere
    <2> QED
      BY <2>1, <2>2, Ranks DEF PartOf, Ascending
  <1> HIDE DEF one
  <1>2. PartOf(two, on, 2)
    BY <1>1, Ranks, PluginsThere, PartAppend
  <1> HIDE DEF two
  <1>3. PartOf(three, on, 3)
    BY <1>2, Ranks, PluginsThere, PartAppend
  <1> HIDE DEF three
  <1>4. PartOf(four, on, 4)
    BY <1>3, Ranks, PluginsThere, PartAppend
  <1> HIDE DEF four
  <1>5. PartOf(five, on, 5)
    BY <1>4, Ranks, PluginsThere, PartAppend
  <1> QED
    BY <1>5 DEF Declared, one, two, three, four

\* A descending sequence of ranks that has all five has each at its place.
LEMMA Places ==
    ASSUME NEW n \in Nat, NEW rank \in [1..n -> 1..5],
           \A i, j \in 1..n : i < j => rank[i] > rank[j]
    PROVE  \A a, b, c, d, e \in 1..n :
               rank[a] = 5 /\ rank[b] = 4 /\ rank[c] = 3 /\ rank[d] = 2 /\ rank[e] = 1 =>
                   n = 5 /\ a = 1 /\ b = 2 /\ c = 3 /\ d = 4 /\ e = 5
  <1>1. ASSUME n >= 6 PROVE FALSE
    <2>1. /\ 1 \in 1..n /\ 2 \in 1..n /\ 3 \in 1..n /\ 4 \in 1..n /\ 5 \in 1..n /\ 6 \in 1..n
      BY <1>1
    <2>2. /\ rank[1] \in 1..5 /\ rank[2] \in 1..5 /\ rank[3] \in 1..5 /\ rank[4] \in 1..5
          /\ rank[5] \in 1..5 /\ rank[6] \in 1..5
      BY <2>1
    <2>3. /\ rank[1] > rank[2] /\ rank[2] > rank[3] /\ rank[3] > rank[4]
          /\ rank[4] > rank[5] /\ rank[5] > rank[6]
      BY <2>1
    <2> QED
      BY <2>2, <2>3
  <1>2. ASSUME NEW a \in 1..n, NEW b \in 1..n, NEW c \in 1..n, NEW d \in 1..n, NEW e \in 1..n,
               rank[a] = 5, rank[b] = 4, rank[c] = 3, rank[d] = 2, rank[e] = 1
        PROVE  n = 5 /\ a = 1 /\ b = 2 /\ c = 3 /\ d = 4 /\ e = 5
    <2>1. a < b /\ b < c /\ c < d /\ d < e
      BY <1>2
    <2> QED
      BY <1>1, <2>1
  <1> QED
    BY <1>2

\* All five plugins in descending order: there is one such sequence.
LEMMA AllInOrder ==
    ASSUME NEW s \in Seq(Plugins), Descending(s),
           \A p \in Plugins : \E i \in 1..Len(s) : s[i] = p
    PROVE  /\ Len(s) = 5
           /\ s[1] = "gateway-timeout" /\ s[2] = "accept-language" /\ s[3] = "trace-context"
           /\ s[4] = "session-resolver" /\ s[5] = "jwt-headers"
  <1> DEFINE n == Len(s)
             rank == [i \in 1..n |-> Rank(s[i])]
  <1>1. n \in Nat /\ rank \in [1..n -> 1..5]
    BY RankFacts
  <1>2. \A i, j \in 1..n : i < j => rank[i] > rank[j]
    BY DEF Descending
  <1>3. \A i \in 1..n : rank[i] = Rank(s[i])
    OBVIOUS
  <1>4. \A p \in Plugins : \E i \in 1..n : s[i] = p
    OBVIOUS
  <1> HIDE DEF rank, n
  <1>5. \A a, b, c, d, e \in 1..n :
            rank[a] = 5 /\ rank[b] = 4 /\ rank[c] = 3 /\ rank[d] = 2 /\ rank[e] = 1 =>
                n = 5 /\ a = 1 /\ b = 2 /\ c = 3 /\ d = 4 /\ e = 5
    BY <1>1, <1>2, Places
  <1>6. PICK a \in 1..n : s[a] = "gateway-timeout"
    BY <1>4, PluginsThere
  <1>7. PICK b \in 1..n : s[b] = "accept-language"
    BY <1>4, PluginsThere
  <1>8. PICK c \in 1..n : s[c] = "trace-context"
    BY <1>4, PluginsThere
  <1>9. PICK d \in 1..n : s[d] = "session-resolver"
    BY <1>4, PluginsThere
  <1>10. PICK e \in 1..n : s[e] = "jwt-headers"
    BY <1>4, PluginsThere
  <1>11. rank[a] = 5 /\ rank[b] = 4 /\ rank[c] = 3 /\ rank[d] = 2 /\ rank[e] = 1
    BY <1>3, <1>6, <1>7, <1>8, <1>9, <1>10, Ranks
  <1>12. n = 5 /\ a = 1 /\ b = 2 /\ c = 3 /\ d = 4 /\ e = 5
    BY <1>5, <1>11
  <1> QED
    BY <1>6, <1>7, <1>8, <1>9, <1>10, <1>12 DEF n

LEMMA WholeInOrder ==
    ASSUME NEW s \in Seq(Plugins), Descending(s),
           \A p \in Plugins : \E i \in 1..Len(s) : s[i] = p
    PROVE  s = Reverse(Declared(Plugins))
  <1> DEFINE d == Declared(Plugins)
             w == Reverse(d)
  <1>1. PartOf(d, Plugins, 5)
    BY DeclaredIsPart
  <1> HIDE DEF d
  <1>2. /\ d \in Seq(Plugins) /\ Len(d) \in Nat /\ Ascending(d)
        /\ \A p \in Plugins : \E i \in 1..Len(d) : d[i] = p
    <2>1. ASSUME NEW p \in Plugins PROVE \E i \in 1..Len(d) : d[i] = p
      <3>1. p \in Plugins \cap Plugins /\ Rank(p) <= 5
        BY RankFacts
      <3> QED
        BY <1>1, <3>1 DEF PartOf
    <2>2. d \in Seq(Plugins) /\ Ascending(d)
      BY <1>1 DEF PartOf
    <2> QED
      BY <2>1, <2>2
  <1>3. Len(w) = Len(d) /\ \A i \in 1..Len(d) : w[i] = d[Len(d) - i + 1]
    BY <1>2, Reversed
  <1>4. w \in Seq(Plugins)
    BY <1>2 DEF Reverse
  <1> HIDE DEF w
  <1>5. Descending(w)
    <2> SUFFICES ASSUME NEW i \in 1..Len(w), NEW j \in 1..Len(w), i < j
                 PROVE  Rank(w[i]) > Rank(w[j])
      BY DEF Descending
    <2>0. Len(d) \in Nat /\ Len(w) = Len(d) /\ i \in 1..Len(d) /\ j \in 1..Len(d)
      BY <1>2, <1>3
    <2>1. Len(d) - i + 1 \in 1..Len(d) /\ Len(d) - j + 1 \in 1..Len(d) /\ Len(d) - j + 1 < Len(d) - i + 1
      BY <2>0
    <2>2. Rank(d[Len(d) - j + 1]) < Rank(d[Len(d) - i + 1])
      BY <1>2, <2>1 DEF Ascending
    <2>3. i \in 1..Len(d) /\ j \in 1..Len(d)
      BY <1>3
    <2>4. w[i] = d[Len(d) - i + 1] /\ w[j] = d[Len(d) - j + 1]
      BY <1>3, <2>3
    <2>5. \A k \in 1..Len(d) : d[k] \in Plugins
      BY <1>2
    <2>6. Rank(w[i]) \in 1..5 /\ Rank(w[j]) \in 1..5
      BY <2>1, <2>4, <2>5, RankFacts
    <2> QED
      BY <2>2, <2>4, <2>6
  <1>6. ASSUME NEW p \in Plugins PROVE \E i \in 1..Len(w) : w[i] = p
    <2>1. PICK i \in 1..Len(d) : d[i] = p
      BY <1>2
    <2>2. Len(d) - i + 1 \in 1..Len(d) /\ Len(d) - (Len(d) - i + 1) + 1 = i
      BY <1>2
    <2>3. w[Len(d) - i + 1] = d[i]
      BY <1>3, <2>2
    <2> QED
      BY <1>3, <2>1, <2>2, <2>3
  <1>7. /\ Len(w) = 5
        /\ w[1] = "gateway-timeout" /\ w[2] = "accept-language" /\ w[3] = "trace-context"
        /\ w[4] = "session-resolver" /\ w[5] = "jwt-headers"
    BY <1>4, <1>5, <1>6, AllInOrder
  <1>8. /\ Len(s) = 5
        /\ s[1] = "gateway-timeout" /\ s[2] = "accept-language" /\ s[3] = "trace-context"
        /\ s[4] = "session-resolver" /\ s[5] = "jwt-headers"
    BY AllInOrder
  <1>9. \A i \in 1..5 : s[i] = w[i]
    <2> SUFFICES ASSUME NEW i \in 1..5 PROVE s[i] = w[i]
      OBVIOUS
    <2>1. i = 1 \/ i = 2 \/ i = 3 \/ i = 4 \/ i = 5
      OBVIOUS
    <2> QED
      BY <1>7, <1>8, <2>1
  <1> QED
    BY <1>4, <1>7, <1>8, <1>9 DEF w, d

-----------------------------------------------------------------------------
(* The invariant.                                                          *)

\* What runs and what is still to come are the two parts of the array.
ComposedInv ==
    /\ edge \in [plugins : Seq(Plugins), enforce : BOOLEAN] /\ todo \in Seq(Plugins)
    /\ Descending(edge.plugins) /\ Ascending(todo)
    /\ \A i \in 1..Len(edge.plugins) : \A j \in 1..Len(todo) : Rank(edge.plugins[i]) < Rank(todo[j])
    /\ Len(edge.plugins) + Len(todo) <= 5
    /\ \A i \in 1..Len(edge.plugins) :
           edge.plugins[i] \in box.disk.built /\ edge.plugins[i] \notin box.env.off
    /\ \A j \in 1..Len(todo) : todo[j] \notin box.env.off

Runs(plugin) == \E i \in 1..Len(edge.plugins) : edge.plugins[i] = plugin

\* The lines of this start are those of the plugins that run.
LogInv ==
    /\ log \subseteq [boot : 1..boot, plugin : Plugins \cup {"none"}]
    /\ \A p \in Plugins : Line(p) \in log => Runs(p)
    /\ phase \in {"starting", "serving"} => \A p \in Plugins : Runs(p) => Line(p) \in log
    /\ Line("none") \in log => box.disk.built = {}

\* A start that the gate vouched for has all plugins.
PassedInv ==
    /\ disk \in Disks /\ dotenv \in DotEnvs
    /\ box.id \in 0..boot /\ box.env \in DotEnvs /\ box.disk \in Disks
    /\ phase \in {"none", "stopped", "starting", "serving"}
    /\ boot \in 0..MaxBoots
    /\ phase # "none" => box.id # 0
    /\ gate \in [id : 0..boot, since : 0..boot]
    /\ passed \in 0..boot
    /\ at # 0 => phase = "serving"
    /\ passed = boot /\ boot # 0 => \A p \in Plugins : Runs(p)

BootInv == ChainInv /\ ComposedInv /\ LogInv /\ PassedInv

LEMMA NothingYet == BootInit => BootInv
  <1> SUFFICES ASSUME BootInit PROVE BootInv
    OBVIOUS
  <1>1. ChainInv
    BY DEF BootInit, NothingReceived, ChainInv
  <1>2. /\ edge.plugins = <<>> /\ todo = <<>> /\ edge \in [plugins : Seq(Plugins), enforce : BOOLEAN]
        /\ todo \in Seq(Plugins) /\ Len(edge.plugins) = 0 /\ Len(todo) = 0
    BY DEF BootInit
  <1>3. ComposedInv
    BY <1>2 DEF ComposedInv, Ascending, Descending
  <1>4. LogInv /\ PassedInv
    BY BootsAssumption DEF BootInit, NothingReceived, LogInv, PassedInv, NoBox, NotInspected
  <1> QED
    BY <1>1, <1>3, <1>4 DEF BootInv

\* A start begins with nothing composed and nothing of its own in the log.
LEMMA StartStep ==
    ASSUME ComposedInv, LogInv, PassedInv, at = 0, at' = 0, Up \/ Restart
    PROVE  ComposedInv' /\ LogInv' /\ PassedInv'
  <1>1. PICK id, env :
            /\ Start(id, env) /\ env \in DotEnvs /\ id \in 1..(boot + 1)
            /\ log' \subseteq log \cup NoneRegistered
            /\ UNCHANGED <<disk, dotenv, gate, passed>>
    BY DEF Up, Restart, PassedInv
  <1>2. /\ boot \in Nat /\ boot < MaxBoots /\ boot' = boot + 1
        /\ box' = [id |-> id, env |-> env, disk |-> disk] /\ phase' = "starting"
        /\ todo' = Declared(Plugins \ env.off)
        /\ edge' = [plugins |-> <<>>, enforce |-> env.enforce] /\ env.enforce \in BOOLEAN
    BY <1>1, BootsAssumption DEF Start, PassedInv
  <1>3. PartOf(todo', Plugins \ env.off, 5)
    BY <1>2, DeclaredIsPart
  <1>4. edge'.plugins = <<>> /\ Len(edge'.plugins) = 0
    BY <1>2
  <1>5. ComposedInv'
    <2>1. edge' \in [plugins : Seq(Plugins), enforce : BOOLEAN] /\ 1..Len(edge'.plugins) = {}
      BY <1>2, <1>4
    <2>2. /\ todo' \in Seq(Plugins) /\ Ascending(todo') /\ Len(todo') <= 5
          /\ \A j \in 1..Len(todo') : todo'[j] \notin box'.env.off
      BY <1>2, <1>3 DEF PartOf
    <2>3. Len(edge'.plugins) + Len(todo') <= 5
      BY <1>4, <2>2
    <2>4. \A i, j \in 1..Len(todo') : i < j => Rank(todo'[i]) < Rank(todo'[j])
      BY <2>2 DEF Ascending
    <2> QED
      BY <2>1, <2>2, <2>3, <2>4 DEF ComposedInv, Ascending, Descending
  <1>6. LogInv'
    <2>1. \A l \in NoneRegistered : l.boot = boot' /\ l.plugin = "none" /\ disk.built = {}
          /\ l \in [boot : 1..boot', plugin : Plugins \cup {"none"}]
      BY <1>2 DEF NoneRegistered
    <2>2. \A l \in log : l.boot # boot' /\ l \in [boot : 1..boot', plugin : Plugins \cup {"none"}]
      BY <1>2 DEF LogInv
    <2>3. "none" \notin Plugins
      BY DEF Plugins
    <2>4. \A p : Line(p)'.boot = boot' /\ Line(p)'.plugin = p
      BY DEF Line
    <2> QED
      BY <1>1, <1>2, <1>4, <2>1, <2>2, <2>3, <2>4 DEF LogInv, Runs
  <1>7. PassedInv'
    <2>1. /\ box'.id = id /\ box'.env = env /\ box'.disk = disk /\ id \in 0..boot' /\ id # 0
          /\ boot' \in 0..MaxBoots
      BY <1>1, <1>2, BootsAssumption
    <2>2. passed # boot' /\ passed \in 0..boot' /\ gate \in [id : 0..boot', since : 0..boot']
      BY <1>2 DEF PassedInv
    <2> QED
      BY <1>1, <1>2, <2>1, <2>2 DEF PassedInv
  <1> QED
    BY <1>5, <1>6, <1>7

\* Composing keeps the order, and each plugin that runs has its line.
LEMMA ComposeStep ==
    ASSUME ComposedInv, LogInv, PassedInv, at = 0, at' = 0, Compose
    PROVE  ComposedInv' /\ LogInv' /\ PassedInv'
  <1> DEFINE s == edge.plugins
             p == Head(todo)
  <1>1. /\ todo # <<>> /\ todo \in Seq(Plugins) /\ p = todo[1] /\ p \in Plugins
        /\ Len(todo) \in Nat \ {0} /\ Len(todo') = Len(todo) - 1 /\ todo' \in Seq(Plugins)
        /\ \A j \in 1..Len(todo') : todo'[j] = todo[j + 1] /\ j + 1 \in 1..Len(todo)
    BY DEF Compose, ComposedInv
  <1>2. UNCHANGED <<disk, dotenv, box, phase, boot, gate, passed>> /\ Wrap(p) /\ phase = "starting"
    BY DEF Compose
  <1>3. s \in Seq(Plugins) /\ Len(s) \in Nat /\ p \notin box.env.off
    BY <1>1 DEF ComposedInv
  <1>4. /\ \A i, j \in 1..Len(todo') : i < j => Rank(todo'[i]) < Rank(todo'[j])
        /\ \A j \in 1..Len(todo') : Rank(p) < Rank(todo'[j]) /\ todo'[j] \notin box.env.off
    <2>1. ASSUME NEW i \in 1..Len(todo'), NEW j \in 1..Len(todo'), i < j
          PROVE  Rank(todo'[i]) < Rank(todo'[j])
      <3>1. i + 1 \in 1..Len(todo) /\ j + 1 \in 1..Len(todo) /\ i + 1 < j + 1
        BY <1>1, <2>1
      <3> QED
        BY <1>1, <3>1 DEF ComposedInv, Ascending
    <2>2. ASSUME NEW j \in 1..Len(todo') PROVE Rank(p) < Rank(todo'[j]) /\ todo'[j] \notin box.env.off
      <3>1. 1 \in 1..Len(todo) /\ j + 1 \in 1..Len(todo) /\ 1 < j + 1
        BY <1>1
      <3> QED
        BY <1>1, <3>1 DEF ComposedInv, Ascending
    <2> QED
      BY <2>1, <2>2
  <1>5. CASE UNCHANGED <<edge, log>>
    <2>1. ComposedInv'
      <3>1. ASSUME NEW i \in 1..Len(s), NEW j \in 1..Len(todo') PROVE Rank(s[i]) < Rank(todo'[j])
        BY <1>1 DEF ComposedInv
      <3>2. Len(s) + Len(todo') <= 5
        BY <1>1, <1>3 DEF ComposedInv
      <3> QED
        BY <1>1, <1>2, <1>4, <1>5, <3>1, <3>2 DEF ComposedInv, Ascending
    <2> QED
      BY <1>2, <1>5, <2>1 DEF LogInv, PassedInv, Runs, Line
  <1>6. CASE ~UNCHANGED <<edge, log>>
    <2>1. /\ p \in box.disk.built
          /\ edge' = [edge EXCEPT !.plugins = <<p>> \o s] /\ log' = log \cup {Line(p)}
      BY <1>2, <1>6 DEF Wrap
    <2> DEFINE d == <<p>> \o s
    <2>2. <<p>> \in Seq(Plugins) /\ Len(<<p>>) = 1 /\ <<p>>[1] = p
      BY <1>1
    <2>3. /\ d \in Seq(Plugins) /\ Len(d) = Len(s) + 1 /\ d[1] = p
          /\ \A i \in 1..Len(s) : d[i + 1] = s[i] /\ i + 1 \in 1..Len(d)
          /\ \A i \in 1..Len(d) : i = 1 \/ (i - 1 \in 1..Len(s) /\ d[i] = s[i - 1])
      <3>1. /\ d \in Seq(Plugins) /\ Len(d) = 1 + Len(s)
            /\ \A i \in 1..Len(d) : d[i] = IF i <= 1 THEN <<p>>[i] ELSE s[i - 1]
        BY <1>3, <2>2, Joined
      <3> HIDE DEF d
      <3>2. ASSUME NEW i \in 1..Len(d), i # 1 PROVE i - 1 \in 1..Len(s) /\ d[i] = s[i - 1]
        BY <1>3, <3>1, <3>2
      <3>3. ASSUME NEW i \in 1..Len(s) PROVE d[i + 1] = s[i] /\ i + 1 \in 1..Len(d)
        <4>1. i + 1 \in 1..Len(d) /\ i + 1 # 1 /\ (i + 1) - 1 = i
          BY <1>3, <3>1
        <4> QED
          BY <3>2, <4>1
      <3>4. 1 \in 1..Len(d)
        BY <1>3, <3>1
      <3>5. d[1] = p
        BY <2>2, <3>1, <3>4
      <3> QED
        BY <1>3, <3>1, <3>2, <3>3, <3>5
    <2>4. edge'.plugins = d /\ edge' \in [plugins : Seq(Plugins), enforce : BOOLEAN]
      BY <2>1, <2>3 DEF ComposedInv
    <2> HIDE DEF d
    <2>5. \A i \in 1..Len(s) : Rank(s[i]) < Rank(p) /\ Rank(s[i]) \in 1..5 /\ Rank(p) \in 1..5
      <3>1. 1 \in 1..Len(todo)
        BY <1>1
      <3> QED
        BY <1>1, <1>3, <3>1, RankFacts DEF ComposedInv
    <2>6. Descending(d)
      <3> SUFFICES ASSUME NEW i \in 1..Len(d), NEW j \in 1..Len(d), i < j
                   PROVE  Rank(d[i]) > Rank(d[j])
        BY DEF Descending
      <3>1. j - 1 \in 1..Len(s) /\ d[j] = s[j - 1]
        BY <1>3, <2>3
      <3>2. CASE i = 1
        BY <2>3, <2>5, <3>1, <3>2
      <3>3. CASE i # 1
        <4>1. i - 1 \in 1..Len(s) /\ d[i] = s[i - 1] /\ i - 1 < j - 1
          BY <1>3, <2>3, <3>3
        <4> QED
          BY <3>1, <4>1 DEF ComposedInv, Descending
      <3> QED
        BY <3>2, <3>3
    <2>7. ASSUME NEW i \in 1..Len(d)
          PROVE  /\ \A j \in 1..Len(todo') : Rank(d[i]) < Rank(todo'[j])
                 /\ d[i] \in box.disk.built /\ d[i] \notin box.env.off
      <3>1. CASE i = 1
        BY <1>3, <1>4, <2>1, <2>3, <3>1
      <3>2. CASE i # 1
        <4>1. i - 1 \in 1..Len(s) /\ d[i] = s[i - 1]
          BY <2>3, <3>2
        <4>2. \A j \in 1..Len(todo') : Rank(s[i - 1]) < Rank(todo'[j])
          BY <1>1, <4>1 DEF ComposedInv
        <4> QED
          BY <4>1, <4>2 DEF ComposedInv
      <3> QED
        BY <3>1, <3>2
    <2>8. Len(d) + Len(todo') <= 5
      BY <1>1, <1>3, <2>3 DEF ComposedInv
    <2>9. ComposedInv'
      BY <1>1, <1>2, <1>4, <2>4, <2>6, <2>7, <2>8 DEF ComposedInv, Ascending
    <2>10. \A q : Runs(q)' <=> Runs(q) \/ q = p
      <3>1. ASSUME NEW q, Runs(q)' PROVE Runs(q) \/ q = p
        BY <2>3, <2>4, <3>1 DEF Runs
      <3>2. ASSUME NEW q, Runs(q) PROVE Runs(q)'
        BY <2>3, <2>4, <3>2 DEF Runs
      <3>3. 1 \in 1..Len(d)
        BY <1>3, <2>3
      <3>4. ASSUME NEW q, q = p PROVE Runs(q)'
        <4>1. d[1] = q
          BY <2>3, <3>4
        <4> HIDE DEF p
        <4> QED
          BY <2>4, <3>3, <4>1 DEF Runs
      <3> QED
        BY <3>1, <3>2, <3>4
    <2>11. LogInv'
      <3>1. \A q : Line(q)' = Line(q)
        BY <1>2 DEF Line
      <3>2. \A q : Line(q) = Line(p) <=> q = p
        BY DEF Line
      <3>3. boot \in 1..boot /\ "none" # p
        <4>1. boot \in Nat /\ boot # 0
          BY <1>2 DEF PassedInv
        <4> QED
          BY <1>1, <4>1 DEF Plugins
      <3>4. Line(p) \in [boot : 1..boot, plugin : Plugins \cup {"none"}]
        BY <1>1, <3>3 DEF Line
      <3> QED
        BY <1>2, <2>1, <2>10, <3>1, <3>2, <3>3, <3>4 DEF LogInv
    <2>12. PassedInv'
      BY <1>2, <2>10 DEF PassedInv
    <2> QED
      BY <2>9, <2>11, <2>12
  <1> QED
    BY <1>5, <1>6

\* The gate reads a verdict of this start only from lines of this start.
LEMMA ReadStep ==
    ASSUME ComposedInv, LogInv, PassedInv, at = 0, at' = 0, Read
    PROVE  ComposedInv' /\ LogInv' /\ PassedInv'
  <1>1. /\ UNCHANGED <<edge, disk, dotenv, box, phase, boot, todo, log>>
        /\ gate' = NotInspected /\ passed' = IF Passes THEN gate.since ELSE 0
        /\ boot \in Nat /\ gate.since \in 0..boot
    BY BootsAssumption DEF Read, PassedInv
  <1>2. ASSUME passed' = boot, boot # 0, NEW p \in Plugins PROVE Runs(p)
    <2>1. Passes /\ gate.since = boot
      BY <1>1, <1>2
    <2>2. PICK l \in log : l.boot >= boot /\ l.plugin = p
      BY <2>1 DEF Passes, LinesSince
    <2>3. l = Line(p)
      BY <1>1, <2>2 DEF LogInv, Line
    <2> QED
      BY <2>2, <2>3 DEF LogInv
  <1>3. ComposedInv' /\ LogInv'
    BY <1>1 DEF ComposedInv, LogInv, Runs, Line, Ascending, Descending
  <1>4. PassedInv'
    BY <1>1, <1>2 DEF PassedInv, NotInspected, Runs
  <1> QED
    BY <1>3, <1>4

\* What else happens leaves the edge alone and writes no line.
LEMMA OtherDeploy ==
    ASSUME ComposedInv, LogInv, PassedInv, at = 0, at' = 0, Edit \/ Stop \/ Down \/ Serve \/ Inspect
    PROVE  ComposedInv' /\ LogInv' /\ PassedInv'
  <1>1. /\ UNCHANGED <<edge, box, boot, todo, passed>>
        /\ \/ log' = log /\ (phase' = phase \/ phase = "starting" \/ phase' = "stopped")
           \/ log' = {} /\ phase' = "none"
        /\ phase' \in {"starting", "serving"} => phase \in {"starting", "serving"}
    BY DEF Edit, Stop, Down, Serve, Inspect
  <1>2. ComposedInv' /\ LogInv'
    BY <1>1 DEF ComposedInv, LogInv, Runs, Line, Ascending, Descending
  <1>3. gate' = gate \/ gate' = [id |-> box.id, since |-> boot]
    BY DEF Edit, Stop, Down, Serve, Inspect
  <1>4. /\ disk' \in Disks /\ dotenv' \in DotEnvs /\ boot \in Nat
        /\ phase' \in {"none", "stopped", "starting", "serving"}
        /\ phase' # "none" => phase # "none"
    BY BootsAssumption DEF Edit, Stop, Down, Serve, Inspect, PassedInv
  <1>5. gate' \in [id : 0..boot, since : 0..boot]
    BY <1>3, <1>4 DEF PassedInv
  <1> QED
    BY <1>1, <1>2, <1>4, <1>5 DEF PassedInv, Runs

LEMMA BootStep == BootInv /\ [BootNext]_bootVars => BootInv'
  <1> SUFFICES ASSUME BootInv, [BootNext]_bootVars PROVE BootInv'
    OBVIOUS
  <1>1. CASE at = 0 /\ Deploy /\ UNCHANGED request
    <2>1. at' = 0 /\ ChainInv'
      BY <1>1 DEF BootInv, ChainInv, NothingReceived, request
    <2> QED
      BY <1>1, <2>1, StartStep, ComposeStep, ReadStep, OtherDeploy DEF BootInv, Deploy
  <1>2. CASE phase = "serving" /\ (Receive \/ Handle) /\ UNCHANGED <<edge, deployment>>
    <2>1. 0 \notin DOMAIN edge.plugins
      BY DEF BootInv, ComposedInv
    <2>2. ChainInv'
      BY <1>2, <2>1, ChainStep DEF BootInv
    <2>3. ComposedInv' /\ LogInv'
      BY <1>2 DEF BootInv, deployment, ComposedInv, LogInv, Runs, Line, Ascending, Descending
    <2>4. PassedInv'
      BY <1>2 DEF BootInv, deployment, PassedInv, Runs
    <2> QED
      BY <2>2, <2>3, <2>4 DEF BootInv
  <1>3. CASE UNCHANGED bootVars
    <2>1. ChainInv'
      BY <1>3 DEF BootInv, bootVars, vars, request, ChainInv, NothingReceived, RequestOK, IdentityInv,
                  TokenOK, CookieInv, OriginInv, TraceInv, DeniedInv, Passed, Loaded
    <2>2. ComposedInv' /\ LogInv' /\ PassedInv'
      BY <1>3 DEF BootInv, bootVars, vars, request, deployment, ComposedInv, LogInv, PassedInv, Runs,
                  Line, Ascending, Descending
    <2> QED
      BY <2>1, <2>2 DEF BootInv
  <1> QED
    BY <1>1, <1>2, <1>3 DEF BootNext

LEMMA BootCorrect == BootSpec => []BootInv
  BY NothingYet, BootStep, PTL DEF BootSpec

-----------------------------------------------------------------------------
(* The theorems.                                                           *)

\* Types, and that no more than the array is ever composed.
THEOREM BootTypeCorrect == BootSpec => []BootTypeOK
  <1>1. ASSUME BootInv PROVE BootTypeOK
    <2>1. Len(edge.plugins) + Len(todo) <= Cardinality(Plugins)
      BY <1>1, FivePlugins DEF BootInv, ComposedInv
    <2>2. /\ edge.enforce \in BOOLEAN
          /\ \A i \in DOMAIN edge.plugins : edge.plugins[i] \in Plugins \ box.env.off
      BY <1>1 DEF BootInv, ComposedInv
    <2>3. log \subseteq [boot : 1..boot, plugin : Plugins \cup {"none"}]
      BY <1>1 DEF BootInv, LogInv
    <2>4. PassedInv
      BY <1>1 DEF BootInv
    <2> QED
      BY <2>1, <2>2, <2>3, <2>4, Zenon DEF PassedInv, BootTypeOK
  <1> QED
    BY <1>1, BootCorrect, PTL

LEMMA AllRun == ASSUME BootInv, \A p \in Plugins : Runs(p) PROVE Whole
  BY WholeInOrder DEF BootInv, ComposedInv, Runs, Whole

LEMMA WholeRuns == ASSUME Whole, NEW p \in Plugins PROVE Runs(p)
  <1>1. /\ Declared(Plugins) \in Seq(Plugins)
        /\ \E i \in 1..Len(Declared(Plugins)) : Declared(Plugins)[i] = p
    BY DeclaredIsPart, RankFacts DEF PartOf
  <1>2. PICK i \in 1..Len(Declared(Plugins)) : Declared(Plugins)[i] = p
    BY <1>1
  <1> DEFINE n == Len(Declared(Plugins))
             k == n - i + 1
  <1>3. n \in Nat /\ k \in 1..n /\ n - k + 1 = i
    BY <1>1
  <1>4. Len(edge.plugins) = n /\ edge.plugins[k] = Declared(Plugins)[n - k + 1]
    BY <1>1, <1>3, Reversed DEF Whole
  <1> QED
    BY <1>2, <1>3, <1>4 DEF Runs

\* The edge that the gate vouched for is whole, through every history of edits,
\* starts, stops and looks of the gate.
THEOREM GateMeansWholeHolds == BootSpec => []GateMeansWhole
  <1>1. BootInv => GateMeansWhole
    BY AllRun DEF BootInv, PassedInv, GateMeansWhole
  <1> QED
    BY <1>1, BootCorrect, PTL

\* The gate lets an edge pass that is whole and has not started again meanwhile.
THEOREM WholePassesGateHolds == BootSpec => []WholePassesGate
  <1>1. ASSUME BootInv, phase = "serving", Whole, gate = [id |-> box.id, since |-> boot]
        PROVE  Passes
    <2>1. \A p \in Plugins : Line(p) \in log
      BY <1>1, WholeRuns DEF BootInv, LogInv
    <2>2. "none" \notin LinesSince(boot)
      <3>1. SUFFICES ASSUME NEW l \in log, l.boot >= boot, l.plugin = "none" PROVE FALSE
        BY DEF LinesSince
      <3>2. l = Line("none")
        BY <1>1, <3>1 DEF BootInv, LogInv, PassedInv, Line
      <3>3. Runs("jwt-headers")
        BY <1>1, WholeRuns, PluginsThere
      <3> QED
        BY <1>1, <3>1, <3>2, <3>3 DEF BootInv, LogInv, ComposedInv, Runs
    <2>3. Plugins \subseteq LinesSince(boot)
      <3>1. boot >= boot
        BY <1>1 DEF BootInv, PassedInv
      <3> QED
        <4>1. \A p : Line(p).boot = boot /\ Line(p).plugin = p
          BY DEF Line
        <4> QED
          BY <2>1, <3>1, <4>1 DEF LinesSince
    <2> QED
      BY <1>1, <2>2, <2>3 DEF Passes
  <1>2. BootInv => WholePassesGate
    BY <1>1 DEF WholePassesGate
  <1> QED
    BY <1>2, BootCorrect, PTL

\* Behind a gate that passed, a protected endpoint that no public one spans
\* only serves a valid token, and no cookie leaves the edge.
THEOREM GatedIsGuardedHolds ==
    ASSUME \A e \in Endpoints : e.auth = "protected" => Separate(e, SentPaths)
    PROVE  BootSpec => []GatedIsGuarded
  <1>1. ASSUME BootInv, AtRouter, passed = boot PROVE at # 0 /\ boot # 0 /\ \A p \in Plugins : Passed(p)
    <2>1. edge.plugins \in Seq(Plugins) /\ at \in Nat /\ Len(edge.plugins) \in Nat
      BY <1>1 DEF BootInv, ComposedInv, ChainInv
    <2>2. at # 0
      BY <1>1, <2>1 DEF AtRouter
    <2>3. boot # 0
      BY <1>1, <2>2 DEF BootInv, PassedInv
    <2>4. \A p \in Plugins : Runs(p)
      BY <1>1, <2>3 DEF BootInv, PassedInv
    <2>5. \A i \in 1..Len(edge.plugins) : i \in 1..(at - 1)
      BY <1>1, <2>1 DEF AtRouter
    <2> QED
      BY <2>2, <2>3, <2>4, <2>5 DEF Runs, Passed
  <1>2. ASSUME BootInv, AtRouter, passed = boot, req.cookie # "none" PROVE SessionSkips(req.path)
    BY <1>1, <1>2, PluginsThere DEF BootInv, ChainInv, CookieInv
  <1>3. ASSUME BootInv, AtRouter, passed = boot, NEW e \in Endpoints, Serves(e), e.auth = "protected"
        PROVE  req.auth \in Tokens /\ Payload[req.auth].valid
    <2>1. RequestOK /\ IdentityInv /\ Passed("jwt-headers")
      BY <1>1, <1>3, PluginsThere DEF BootInv, ChainInv
    <2>2. req.path \in SentPaths
      BY <2>1 DEF RequestOK, SentPaths
    <2>3. ~Unchecked(req)
      BY <1>3, <2>2 DEF Serves, Separate, Unchecked
    <2> QED
      BY <2>1, <2>3 DEF IdentityInv, TokenOK
  <1>4. BootInv => GatedIsGuarded
    BY <1>2, <1>3 DEF GatedIsGuarded
  <1> QED
    BY <1>4, BootCorrect, PTL

-----------------------------------------------------------------------------
(* Every start is one of GatewayChain's edges.  ComposedInv has the order;  *)
(* that a descending edge is the reverse of what is declared of it takes an *)
(* invariant of its own, since it would be an induction over the edge.      *)

\* The array as far as each plugin
Upto1(on) == Entry("jwt-headers", on)
Upto2(on) == Upto1(on) \o Entry("session-resolver", on)
Upto3(on) == Upto2(on) \o Entry("trace-context", on)
Upto4(on) == Upto3(on) \o Entry("accept-language", on)

LEMMA UptoFacts ==
    ASSUME NEW on
    PROVE  /\ {Upto1(on), Upto2(on), Upto3(on), Upto4(on), Declared(on)} \subseteq Seq(Plugins)
           /\ Declared(on) = Upto4(on) \o Entry("gateway-timeout", on)
           /\ "session-resolver" \notin on => Upto2(on) = Upto1(on)
           /\ "trace-context" \notin on => Upto3(on) = Upto2(on)
           /\ "accept-language" \notin on => Upto4(on) = Upto3(on)
           /\ "gateway-timeout" \notin on => Declared(on) = Upto4(on)
  <1>1. Declared(on) = Upto4(on) \o Entry("gateway-timeout", on)
    BY DEF Declared, Upto1, Upto2, Upto3, Upto4
  <1>2. \A q : q \notin on => Entry(q, on) = <<>>
    BY DEF Entry
  <1>3. \A s \in Seq(Plugins) : s \o <<>> = s
    OBVIOUS
  <1>4. Upto1(on) \in Seq(Plugins)
    BY EntryFacts, PluginsThere DEF Upto1
  <1>5. Upto2(on) \in Seq(Plugins) /\ ("session-resolver" \notin on => Upto2(on) = Upto1(on))
    BY <1>2, <1>3, <1>4, EntryFacts, PluginsThere, Joined DEF Upto2
  <1>6. Upto3(on) \in Seq(Plugins) /\ ("trace-context" \notin on => Upto3(on) = Upto2(on))
    BY <1>2, <1>3, <1>5, EntryFacts, PluginsThere, Joined DEF Upto3
  <1>7. Upto4(on) \in Seq(Plugins) /\ ("accept-language" \notin on => Upto4(on) = Upto3(on))
    BY <1>2, <1>3, <1>6, EntryFacts, PluginsThere, Joined DEF Upto4
  <1>8. Declared(on) \in Seq(Plugins) /\ ("gateway-timeout" \notin on => Declared(on) = Upto4(on))
    BY <1>1, <1>2, <1>3, <1>7, EntryFacts, PluginsThere, Joined
  <1> QED
    BY <1>1, <1>4, <1>5, <1>6, <1>7, <1>8

\* The array with one more plugin, if none that comes after it is there.
LEMMA DeclaredMore ==
    ASSUME NEW on, NEW p \in Plugins, \A q \in Plugins \cap on : Rank(q) < Rank(p)
    PROVE  Declared(on \cup {p}) = Declared(on) \o <<p>>
  <1> DEFINE more == on \cup {p}
  <1>1. \A q \in Plugins : Rank(q) >= Rank(p) => q \notin on /\ (q # p => q \notin more)
    BY RankFacts
  <1>2. Entry(p, more) = <<p>> /\ \A q : q # p => Entry(q, more) = Entry(q, on)
    BY DEF Entry
  <1> HIDE DEF more
  <1>3. CASE p = "jwt-headers"
    <2>1. \A q \in Plugins : q \notin on /\ (q # p => q \notin more)
      BY <1>1, <1>3, RankFacts, Ranks
    <2>2. Declared(on) = Upto1(on) /\ Declared(more) = Upto1(more)
      BY <1>3, <2>1, UptoFacts, PluginsThere
    <2>3. Upto1(on) = <<>> /\ Upto1(more) = <<p>>
      BY <1>2, <1>3, <2>1, PluginsThere DEF Upto1, Entry
    <2>4. <<>> \o <<p>> = <<p>>
      OBVIOUS
    <2> QED
      BY <2>2, <2>3, <2>4, Zenon DEF more
  <1>4. CASE p = "session-resolver"
    <2>1. \A q \in {"trace-context", "accept-language", "gateway-timeout"} : q \notin on /\ q \notin more
      BY <1>1, <1>4, Ranks, PluginsThere
    <2>2. Declared(on) = Upto1(on) /\ Declared(more) = Upto2(more)
      BY <1>1, <1>4, <2>1, UptoFacts, Ranks, PluginsThere
    <2>3. Upto2(more) = Upto1(on) \o <<p>>
      BY <1>2, <1>4, Zenon DEF Upto1, Upto2
    <2> QED
      BY <2>2, <2>3, Zenon DEF more
  <1>5. CASE p = "trace-context"
    <2>1. \A q \in {"accept-language", "gateway-timeout"} : q \notin on /\ q \notin more
      BY <1>1, <1>5, Ranks, PluginsThere
    <2>2. Declared(on) = Upto2(on) /\ Declared(more) = Upto3(more)
      BY <1>1, <1>5, <2>1, UptoFacts, Ranks, PluginsThere
    <2>3. Upto3(more) = Upto2(on) \o <<p>>
      BY <1>2, <1>5, Zenon DEF Upto1, Upto2, Upto3
    <2> QED
      BY <2>2, <2>3, Zenon DEF more
  <1>6. CASE p = "accept-language"
    <2>1. "gateway-timeout" \notin on /\ "gateway-timeout" \notin more
      BY <1>1, <1>6, Ranks, PluginsThere
    <2>2. Declared(on) = Upto3(on) /\ Declared(more) = Upto4(more)
      BY <1>1, <1>6, <2>1, UptoFacts, Ranks, PluginsThere
    <2>3. Upto4(more) = Upto3(on) \o <<p>>
      BY <1>2, <1>6, Zenon DEF Upto1, Upto2, Upto3, Upto4
    <2> QED
      BY <2>2, <2>3, Zenon DEF more
  <1>7. CASE p = "gateway-timeout"
    <2>0. "gateway-timeout" \notin on
      BY <1>1, <1>7, Ranks, PluginsThere
    <2>1. /\ Declared(on) = Upto4(on)
          /\ Declared(more) = Upto4(more) \o Entry("gateway-timeout", more)
      BY <2>0, UptoFacts, Zenon
    <2>2. Upto4(more) = Upto4(on)
      BY <1>2, <1>7, Zenon DEF Upto1, Upto2, Upto3, Upto4
    <2> QED
      BY <1>2, <1>7, <2>1, <2>2, Zenon DEF more
  <1> QED
    BY <1>3, <1>4, <1>5, <1>6, <1>7 DEF Plugins

LEMMA ReverseType == ASSUME NEW s \in Seq(Plugins) PROVE Reverse(s) \in Seq(Plugins)
  BY DEF Reverse

LEMMA SameSequence ==
    ASSUME NEW s \in Seq(Plugins), NEW t \in Seq(Plugins), Len(s) = Len(t),
           \A i \in 1..Len(s) : s[i] = t[i]
    PROVE  s = t
  OBVIOUS

LEMMA ReverseAppend ==
    ASSUME NEW s \in Seq(Plugins), NEW p \in Plugins
    PROVE  Reverse(s \o <<p>>) = <<p>> \o Reverse(s)
  <1> DEFINE n == Len(s)
             d == s \o <<p>>
             r == Reverse(s)
             e == <<p>> \o r
  <1>1. /\ n \in Nat /\ <<p>> \in Seq(Plugins) /\ Len(<<p>>) = 1 /\ <<p>>[1] = p
        /\ r \in Seq(Plugins) /\ Len(r) = n
        /\ \A i \in 1..n : r[i] = s[n - i + 1]
    BY ReverseType, Reversed
  <1>2. /\ d \in Seq(Plugins) /\ Len(d) = n + 1
        /\ \A i \in 1..(n + 1) : d[i] = IF i <= n THEN s[i] ELSE <<p>>[i - n]
    BY <1>1, Joined
  <1>3. /\ e \in Seq(Plugins) /\ Len(e) = 1 + n
        /\ \A i \in 1..(1 + n) : e[i] = IF i <= 1 THEN <<p>>[i] ELSE r[i - 1]
    BY <1>1, Joined
  <1> HIDE DEF n, d, r, e
  <1>4. /\ Reverse(d) \in Seq(Plugins) /\ Len(Reverse(d)) = n + 1
        /\ \A i \in 1..(n + 1) : Reverse(d)[i] = d[n + 1 - i + 1]
    <2>1. Reverse(d) \in Seq(Plugins) /\ Len(Reverse(d)) = Len(d)
          /\ \A i \in 1..Len(d) : Reverse(d)[i] = d[Len(d) - i + 1]
      BY <1>2, ReverseType, Reversed
    <2>2. Len(d) = n + 1
      BY <1>2
    <2>3. ASSUME NEW i \in 1..(n + 1) PROVE Reverse(d)[i] = d[n + 1 - i + 1]
      <3>1. i \in 1..Len(d) /\ Len(d) - i + 1 = n + 1 - i + 1
        BY <1>1, <2>2
      <3> QED
        BY <2>1, <3>1
    <2> QED
      BY <2>1, <2>2, <2>3
  <1>5. ASSUME NEW i \in 1..(n + 1) PROVE Reverse(d)[i] = e[i]
    <2>1. CASE i = 1
      <3>1. n + 1 - i + 1 = n + 1 /\ n + 1 \in 1..(n + 1) /\ ~(n + 1 <= n) /\ n + 1 - n = 1
        BY <1>1, <2>1
      <3>2. d[n + 1] = p
        BY <1>1, <1>2, <3>1
      <3> QED
        BY <1>1, <1>3, <1>4, <2>1, <3>1, <3>2
    <2>2. CASE i # 1
      <3>1. /\ i - 1 \in 1..n /\ n + 1 - i + 1 = n - (i - 1) + 1
            /\ n + 1 - i + 1 \in 1..(n + 1) /\ n + 1 - i + 1 <= n /\ ~(i <= 1)
        BY <1>1, <2>2
      <3>2. d[n + 1 - i + 1] = s[n - (i - 1) + 1]
        BY <1>2, <3>1
      <3>3. e[i] = r[i - 1] /\ r[i - 1] = s[n - (i - 1) + 1]
        BY <1>1, <1>3, <3>1
      <3> QED
        BY <1>4, <3>2, <3>3
    <2> QED
      BY <2>1, <2>2
  <1>6. Reverse(d) = e
    <2>1. Len(Reverse(d)) = Len(e) /\ Len(e) = n + 1
      BY <1>1, <1>3, <1>4
    <2> QED
      BY <1>3, <1>4, <1>5, <2>1, SameSequence
  <1> QED
    BY <1>6 DEF d, e, r

Running == {p \in Plugins : Runs(p)}

DeployedInv == BootInv /\ TypeOK /\ edge.plugins = Reverse(Declared(Running))

LEMMA RenderedIsEdge ==
    ASSUME edge \in [plugins : Seq(Plugins), enforce : BOOLEAN],
           NEW on \in SUBSET Plugins, edge.plugins = Reverse(Declared(on))
    PROVE  edge \in Edges
  BY DEF Edges

\* One more plugin is composed.
LEMMA ComposeMore ==
    ASSUME BootInv, edge.plugins = Reverse(Declared(Running)), Compose
    PROVE  edge'.plugins = Reverse(Declared(Running'))
  <1> DEFINE p == Head(todo)
             s == edge.plugins
  <1>1. /\ p \in Plugins /\ p = todo[1] /\ 1 \in 1..Len(todo) /\ Wrap(p)
        /\ s \in Seq(Plugins) /\ Len(s) \in Nat
    BY DEF Compose, BootInv, ComposedInv
  <1>2. CASE UNCHANGED <<edge, log>>
    BY <1>2 DEF Running, Runs
  <1>3. CASE edge' = [edge EXCEPT !.plugins = <<p>> \o s]
    <2>1. edge'.plugins = <<p>> \o s
      BY <1>3 DEF BootInv, ComposedInv
    <2>2. \A q \in Plugins \cap Running : Rank(q) < Rank(p)
      BY <1>1 DEF BootInv, ComposedInv, Running, Runs
    <2>3. Running' = Running \cup {p}
      <3> DEFINE d == <<p>> \o s
      <3>1. <<p>> \in Seq(Plugins) /\ Len(<<p>>) = 1 /\ <<p>>[1] = p
        BY <1>1
      <3>2. Len(d) = 1 + Len(s) /\ \A i \in 1..(1 + Len(s)) : d[i] = IF i <= 1 THEN <<p>>[i] ELSE s[i - 1]
        BY <1>1, <3>1, Joined
      <3> HIDE DEF d
      <3>3. \A i \in 1..Len(d) : d[i] = p \/ (i - 1 \in 1..Len(s) /\ d[i] = s[i - 1])
        BY <1>1, <3>1, <3>2
      <3>4. ASSUME NEW i \in 1..Len(s) PROVE i + 1 \in 1..Len(d) /\ d[i + 1] = s[i]
        <4>1. i + 1 \in 1..(1 + Len(s)) /\ ~(i + 1 <= 1) /\ (i + 1) - 1 = i
          BY <1>1
        <4> QED
          BY <3>2, <4>1
      <3>5. 1 \in 1..Len(d) /\ d[1] = p
        BY <1>1, <3>1, <3>2
      <3>6. ASSUME NEW q \in Plugins PROVE Runs(q)' <=> Runs(q) \/ q = p
        <4>1. Runs(q)' <=> \E i \in 1..Len(d) : d[i] = q
          BY <2>1 DEF Runs, d
        <4> HIDE DEF p
        <4> QED
          BY <3>3, <3>4, <3>5, <4>1 DEF Runs
      <3> QED
        BY <1>1, <3>6 DEF Running
    <2>4. Declared(Running') = Declared(Running) \o <<p>>
      BY <1>1, <2>2, <2>3, DeclaredMore
    <2>5. Declared(Running) \in Seq(Plugins)
      BY DeclaredOrder
    <2> QED
      BY <1>1, <2>1, <2>4, <2>5, ReverseAppend
  <1> QED
    BY <1>1, <1>2, <1>3 DEF Wrap

LEMMA DeployedStart == BootInit => DeployedInv
  <1> SUFFICES ASSUME BootInit PROVE DeployedInv
    OBVIOUS
  <1>1. edge.plugins = <<>> /\ Running = {}
    BY DEF BootInit, Running, Runs
  <1>2. Reverse(Declared({})) = <<>>
    BY DEF Declared, Entry, Reverse
  <1>3. edge \in Edges
    BY <1>1, <1>2, RenderedIsEdge DEF BootInit
  <1> QED
    BY <1>1, <1>2, <1>3, NothingYet DEF DeployedInv, BootInit, NothingReceived, TypeOK

LEMMA DeployedStep == DeployedInv /\ [BootNext]_bootVars => DeployedInv'
  <1> SUFFICES ASSUME DeployedInv, [BootNext]_bootVars PROVE DeployedInv'
    OBVIOUS
  <1>1. BootInv /\ BootInv' /\ TypeOK /\ ChainInv
    BY BootStep DEF DeployedInv, BootInv
  <1>2. CASE at = 0 /\ Deploy /\ UNCHANGED request
    <2>1. edge'.plugins = Reverse(Declared(Running'))
      <3>1. CASE Compose
        BY <1>1, <3>1, ComposeMore DEF DeployedInv
      <3>2. CASE Up \/ Restart
        <4>1. edge'.plugins = <<>>
          BY <3>2 DEF Up, Restart, Start
        <4>2. Running' = {}
          BY <4>1 DEF Running, Runs
        <4>3. Reverse(Declared({})) = <<>>
          BY DEF Declared, Entry, Reverse
        <4> QED
          BY <4>1, <4>2, <4>3
      <3>3. CASE Edit \/ Stop \/ Down \/ Serve \/ Inspect \/ Read
        BY <3>3 DEF Edit, Stop, Down, Serve, Inspect, Read, DeployedInv, Running, Runs
      <3> QED
        BY <1>2, <3>1, <3>2, <3>3 DEF Deploy
    <2>2. edge' \in Edges
      <3>1. edge' \in [plugins : Seq(Plugins), enforce : BOOLEAN] /\ Running' \in SUBSET Plugins
        BY <1>1 DEF BootInv, ComposedInv, Running
      <3> QED
        BY <2>1, <3>1 DEF Edges
    <2>3. TypeOK'
      <3>1. Len(edge'.plugins) \in Nat /\ at' = 0
        BY <1>1, <1>2 DEF BootInv, ComposedInv, request
      <3>2. NothingReceived'
        BY <1>1, <1>2 DEF TypeOK, NothingReceived, request
      <3> QED
        BY <2>2, <3>1, <3>2 DEF TypeOK, NothingReceived
    <2> QED
      BY <1>1, <2>1, <2>3 DEF DeployedInv
  <1>3. CASE phase = "serving" /\ (Receive \/ Handle) /\ UNCHANGED <<edge, deployment>>
    <2>1. Next
      BY <1>3 DEF Next
    <2>2. TypeOK'
      BY <1>1, <2>1, StepInv
    <2> QED
      BY <1>1, <1>3, <2>2 DEF DeployedInv, Running, Runs
  <1>4. CASE UNCHANGED bootVars
    <2>1. UNCHANGED vars
      BY <1>4 DEF bootVars
    <2>2. TypeOK'
      BY <1>1, <2>1, StepInv
    <2> QED
      BY <1>1, <2>1, <2>2 DEF DeployedInv, Running, Runs, vars
  <1> QED
    BY <1>2, <1>3, <1>4 DEF BootNext

LEMMA DeployedCorrect == BootSpec => []DeployedInv
  BY DeployedStart, DeployedStep, PTL DEF BootSpec

\* Whatever was edited, started, stopped or half composed, the edge that a
\* request meets is one of those GatewayChain starts from, and the request is as
\* the chain's type invariant says.
THEOREM EveryStartIsAnEdge == BootSpec => []TypeOK
  <1>1. DeployedInv => TypeOK
    BY DEF DeployedInv
  <1> QED
    BY <1>1, DeployedCorrect, PTL

\* So what the chain promises of every edge, it promises of every deployment,
\* with or without the gate: forged claim headers, cookies, cross-site
\* writes, split traces and closed public endpoints are none of its risks.
THEOREM DeployedChainHolds ==
    BootSpec => [](NoForgedIdentity /\ CookieStaysAtEdge /\ NoCrossSiteWrite
                     /\ OneTrace /\ PublicStaysOpen)
  <1>1. DeployedInv => NoForgedIdentity /\ CookieStaysAtEdge /\ NoCrossSiteWrite
                         /\ OneTrace /\ PublicStaysOpen
    BY AtRouterFacts, DeniedIsNotPublic DEF DeployedInv, BootInv
  <1> QED
    BY <1>1, DeployedCorrect, PTL

\* And so for what the chain promises of configurations that keep protected
\* endpoints apart from public ones and no path for jwt-headers alone.
THEOREM DeployedGuardHolds ==
    ASSUME SessionSkip \subseteq JwtSkip, JwtSkip \subseteq Seq(STRING),
           \A e \in Endpoints :
               /\ e.path # <<>> /\ Filled(e.path)
               /\ e.auth = "protected" \/ e.roles # {} => Apart(e)
    PROVE  BootSpec => [](CookieBecomesBearer /\ ProtectedIsGuarded /\ RolesGate)
  <1>1. /\ \A e \in Endpoints : e.auth = "protected" => Separate(e, SentPaths)
        /\ \A e \in Endpoints :
               /\ e.path # <<>> /\ Filled(e.path)
               /\ e.roles # {} => Separate(e, SentPaths)
    BY ApartSeparates
  <1>2. DeployedInv => CookieBecomesBearer /\ ProtectedIsGuarded /\ RolesGate
    BY <1>1, MissingIsNoSession, SeparateIsGuarded, SeparateIsGated DEF DeployedInv, BootInv
  <1> QED
    BY <1>2, DeployedCorrect, PTL

=============================================================================
