------------------------------- MODULE Levels -------------------------------
(* Which LOG() statements make a line: the module registry with the level of *)
(* each module, the site registry with the level of each statement, and the  *)
(* check that the macros compile to.                                         *)
EXTENDS Naturals, Integers, Sequences, FiniteSets

CONSTANTS LevelThreads,
          ModuleNames,   \* names other than "generic"
          Generic,
          Statements,    \* LOG() statements: [module, file, line, level]
          TopLevel,      \* fatal
          Configurations, \* what configure_from_string() and the setters are given
          FilePatterns,  \* what set_file_level() is asked for: sets of files
          MaxLevelCalls, \* bound: calls
          Absent

VARIABLES genericLevel,
          modules,     \* the number of each name's module; Absent
          moduleLevel, \* the level of each module
          sites,       \* the registered statements, in order: [stmt, minLevel]
          longest,     \* longest_file()
          site,        \* the site each statement refers to; 0 before it is first reached
          lt,          \* each thread: what it is still to do, and where it is
          levelCalls,
          associated,  \* the pairs <<name, module>> that callers were given
          settled      \* the level set last for all modules, while nobody else sets one

levelVars == <<genericLevel, modules, moduleLevel, sites, longest, site, lt, levelCalls,
               associated, settled>>
registryVars == <<genericLevel, modules, moduleLevel>>
siteVars == <<sites, longest, site>>

nolog == -1
GlobalMin == 0
AllLevels == nolog .. TopLevel
Walking(t) == lt[t].pc = "walk"
NoWork == [pc |-> "idle", todo |-> <<>>, name |-> Generic, walk |-> {}, alone |-> TRUE, stmt |-> 0, since |-> Absent]

LevelInit ==
    /\ genericLevel = GlobalMin
    /\ modules = [n \in ModuleNames |-> Absent]
    /\ moduleLevel = <<>>
    /\ sites = <<>> /\ longest = 0 /\ site = [s \in DOMAIN Statements |-> 0]
    /\ lt = [t \in LevelThreads |-> NoWork]
    /\ levelCalls = 0
    /\ associated = {}
    /\ settled = Absent

LevelDoes(t, work) == lt' = [lt EXCEPT ![t] = work]
LevelAt(t, pc) == lt[t].pc = pc
Job(t) == Head(lt[t].todo)
NextJob(t, work) == LET rest == Tail(lt[t].todo) IN
    [work EXCEPT !.todo = rest, !.pc = IF rest = <<>> THEN "idle" ELSE "job", !.walk = {}]
Setters == {t \in LevelThreads : lt[t].todo # <<>>}

(* Parts of a configuration: a level for all, for one name, for a pattern,   *)
(* or something that is not valid.                                           *)
Part == [op : {"all"}, level : AllLevels] \cup [op : {"set"}, name : ModuleNames \cup {Generic}, level : AllLevels]
        \cup [op : {"wild"}, names : SUBSET (ModuleNames \cup {Generic}), level : AllLevels] \cup [op : {"bad"}]
ASSUME LevelsAssumption ==
    /\ TopLevel \in Nat /\ Absent \notin Int
    /\ IsFiniteSet(ModuleNames) /\ Generic \notin ModuleNames
    /\ Configurations \subseteq Seq(Part) \ {<<>>}
    /\ IsFiniteSet(DOMAIN Statements) /\ 0 \notin DOMAIN Statements
    /\ \A s \in DOMAIN Statements :
         Statements[s].module \in ModuleNames \cup {Generic} /\ Statements[s].level \in AllLevels

(* set_module_level, set_all_modules_level, reset_all_modules_level and      *)
(* configure_from_string: a list of parts, done in turn.                     *)
Configure(t) ==
    /\ LevelAt(t, "idle") /\ levelCalls < MaxLevelCalls
    /\ levelCalls' = levelCalls + 1
    /\ \E parts \in Configurations :
         lt' = [u \in LevelThreads |->
                  IF u = t THEN [NoWork EXCEPT !.pc = "job", !.todo = parts, !.alone = (Setters = {})]
                  ELSE [lt[u] EXCEPT !.alone = FALSE, !.since = Absent]]
    /\ settled' = Absent
    /\ UNCHANGED <<registryVars, siteVars, associated>>

(* set_all_modules_level: the default first, then one module after another   *)
(* under the shared lock.                                                    *)
SetDefault(t) ==
    /\ LevelAt(t, "job") /\ Job(t).op = "all"
    /\ genericLevel' = Job(t).level
    /\ LevelDoes(t, [lt[t] EXCEPT !.pc = "lock"])
    /\ UNCHANGED <<modules, moduleLevel, siteVars, levelCalls, associated, settled>>

BeginWalk(t) ==
    /\ LevelAt(t, "lock")
    /\ LevelDoes(t, [lt[t] EXCEPT !.pc = "walk", !.walk = {n \in ModuleNames : modules[n] # Absent}])
    /\ UNCHANGED <<registryVars, siteVars, levelCalls, associated, settled>>

SetNext(t) ==
    /\ Walking(t)
    /\ \E n \in lt[t].walk :
         /\ moduleLevel' = [moduleLevel EXCEPT ![modules[n]] = Job(t).level]
         /\ LevelDoes(t, [lt[t] EXCEPT !.walk = @ \ {n}])
    /\ UNCHANGED <<genericLevel, modules, siteVars, levelCalls, associated, settled>>

EndWalk(t) ==
    /\ Walking(t) /\ lt[t].walk = {}
    /\ LevelDoes(t, NextJob(t, lt[t]))
    /\ settled' = IF lt[t].alone /\ Len(lt[t].todo) = 1 THEN Job(t).level ELSE settled
    /\ UNCHANGED <<registryVars, siteVars, levelCalls, associated>>

(* A pattern: the modules there are now, then each by its name.              *)
ExpandPattern(t) ==
    /\ LevelAt(t, "job") /\ Job(t).op = "wild"
    /\ \E order \in [1 .. Cardinality({n \in Job(t).names : n = Generic \/ modules[n] # Absent}) ->
                       {n \in Job(t).names : n = Generic \/ modules[n] # Absent}] :
         /\ \A i, j \in DOMAIN order : order[i] = order[j] => i = j
         /\ LET sets == [i \in DOMAIN order |-> [op |-> "set", name |-> order[i], level |-> Job(t).level]]
                todo == sets \o Tail(lt[t].todo) IN
            LevelDoes(t, [lt[t] EXCEPT !.todo = todo, !.pc = IF todo = <<>> THEN "idle" ELSE "job"])
    /\ UNCHANGED <<registryVars, siteVars, levelCalls, associated, settled>>

(* Not valid: return false; the parts before it have had their effect.       *)
RejectPart(t) ==
    /\ LevelAt(t, "job") /\ Job(t).op = "bad"
    /\ LevelDoes(t, NoWork)
    /\ UNCHANGED <<registryVars, siteVars, levelCalls, associated, settled>>

-----------------------------------------------------------------------------
(* get_module(name): found under the shared lock, or looked for again and    *)
(* made under the exclusive one.                                             *)
StartSet(t) ==
    /\ LevelAt(t, "job") /\ Job(t).op = "set"
    /\ IF Job(t).name = Generic
       THEN genericLevel' = Job(t).level /\ LevelDoes(t, NextJob(t, lt[t]))
       ELSE LevelDoes(t, [lt[t] EXCEPT !.pc = "find", !.name = Job(t).name]) /\ UNCHANGED genericLevel
    /\ UNCHANGED <<modules, moduleLevel, siteVars, levelCalls, associated, settled>>

FindModule(t) ==
    LET n == lt[t].name IN
    /\ LevelAt(t, "find")
    /\ LevelDoes(t, [lt[t] EXCEPT !.pc = IF modules[n] # Absent THEN "have" ELSE "create"])
    /\ associated' = IF modules[n] # Absent THEN associated \cup {<<n, modules[n]>>} ELSE associated
    /\ UNCHANGED <<registryVars, siteVars, levelCalls, settled>>

CreateWhileWalking(t) ==  \* (mutant) the default level is read before the exclusive lock
    LET n == lt[t].name IN
    /\ LevelAt(t, "create") /\ modules[n] = Absent
    /\ modules' = [modules EXCEPT ![n] = Len(moduleLevel) + 1]
    /\ moduleLevel' = Append(moduleLevel, GlobalMin)
    /\ associated' = associated \cup {<<n, Len(moduleLevel) + 1>>}
    /\ LevelDoes(t, [lt[t] EXCEPT !.pc = "have"])
    /\ UNCHANGED <<genericLevel, siteVars, levelCalls, settled>>

CreateModule(t) ==
    LET n == lt[t].name
        fresh == modules[n] = Absent
        m == IF fresh THEN Len(moduleLevel) + 1 ELSE modules[n] IN
    /\ LevelAt(t, "create") /\ \A u \in LevelThreads : ~Walking(u)
    /\ modules' = [modules EXCEPT ![n] = m]
    /\ moduleLevel' = IF fresh THEN Append(moduleLevel, genericLevel) ELSE moduleLevel
    /\ associated' = associated \cup {<<n, m>>}
    /\ LevelDoes(t, [lt[t] EXCEPT !.pc = "have"])
    /\ UNCHANGED <<genericLevel, siteVars, levelCalls, settled>>

SetModuleLevel(t) ==
    /\ LevelAt(t, "have") /\ lt[t].todo # <<>>
    /\ moduleLevel' = [moduleLevel EXCEPT ![modules[lt[t].name]] = Job(t).level]
    /\ LevelDoes(t, NextJob(t, lt[t]))
    /\ UNCHANGED <<genericLevel, modules, siteVars, levelCalls, associated, settled>>

(* get_module_level(name).                                                   *)
ModuleLevel(n) == IF n = Generic THEN genericLevel
                  ELSE IF modules[n] = Absent THEN GlobalMin ELSE moduleLevel[modules[n]]

-----------------------------------------------------------------------------
(* LOG(): the first time, the module is looked up and the site registered;   *)
(* then both levels are read, one after the other.                           *)
Reach(t, s) ==
    /\ LevelAt(t, "idle") /\ levelCalls < MaxLevelCalls
    /\ levelCalls' = levelCalls + 1
    /\ Statements[s].level >= GlobalMin
    /\ \A u \in LevelThreads : lt[u].stmt = s => site[s] # 0
    /\ LET n == Statements[s].module IN
       LevelDoes(t, [NoWork EXCEPT !.stmt = s, !.name = n, !.since = settled,
                              !.pc = IF site[s] # 0 THEN "check" ELSE IF n = Generic THEN "register" ELSE "find"])
    /\ UNCHANGED <<registryVars, siteVars, associated, settled>>

RegisterSite(t) ==
    LET s == lt[t].stmt IN
    /\ s # 0 /\ (LevelAt(t, "register") \/ (LevelAt(t, "have") /\ lt[t].todo = <<>>))
    /\ sites' = Append(sites, [stmt |-> s, minLevel |-> Statements[s].level])
    /\ site' = [site EXCEPT ![s] = Len(sites) + 1]
    /\ longest' = IF Statements[s].length > longest THEN Statements[s].length ELSE longest
    /\ LevelDoes(t, [lt[t] EXCEPT !.pc = "check"])
    /\ UNCHANGED <<registryVars, levelCalls, associated, settled>>

CheckModule(t) ==
    LET s == lt[t].stmt IN
    /\ LevelAt(t, "check")
    /\ LevelDoes(t, IF Statements[s].level >= ModuleLevel(Statements[s].module)
               THEN [lt[t] EXCEPT !.pc = "site"] ELSE NoWork)
    /\ UNCHANGED <<registryVars, siteVars, levelCalls, associated, settled>>

CheckSite(t) ==
    LET s == lt[t].stmt IN
    /\ LevelAt(t, "site")
    /\ LevelDoes(t, IF Statements[s].level >= sites[site[s]].minLevel
               THEN [lt[t] EXCEPT !.pc = "line"] ELSE NoWork)
    /\ UNCHANGED <<registryVars, siteVars, levelCalls, associated, settled>>

MakeLine(t) ==
    /\ LevelAt(t, "line")
    /\ LevelDoes(t, NoWork)
    /\ UNCHANGED <<registryVars, siteVars, levelCalls, associated, settled>>

-----------------------------------------------------------------------------
(* set_site_level: the first site of that file and line.  set_file_level and *)
(* set_all_sites_level: all that match.                                      *)
SiteOf(file, line) == {i \in DOMAIN sites : /\ Statements[sites[i].stmt].file = file
                                           /\ Statements[sites[i].stmt].line = line}
FirstOf(S) == {i \in S : \A j \in S : i <= j}

SetSiteLevels(matching, level) ==
    /\ levelCalls < MaxLevelCalls /\ levelCalls' = levelCalls + 1
    /\ sites' = [i \in DOMAIN sites |-> IF i \in matching THEN [sites[i] EXCEPT !.minLevel = level] ELSE sites[i]]
    /\ UNCHANGED <<registryVars, longest, site, lt, associated, settled>>

SetSiteLevel(s, level) == SetSiteLevels(FirstOf(SiteOf(Statements[s].file, Statements[s].line)), level)
SetFileLevel(files, level) ==
    SetSiteLevels({i \in DOMAIN sites : Statements[sites[i].stmt].file \in files}, level)
SetAllSitesLevel(level) == SetSiteLevels(DOMAIN sites, level)

LevelNext ==
    \/ \E t \in LevelThreads :
         \/ Configure(t) \/ SetDefault(t) \/ BeginWalk(t) \/ SetNext(t) \/ EndWalk(t) \/ ExpandPattern(t)
         \/ RejectPart(t) \/ StartSet(t) \/ FindModule(t) \/ CreateModule(t) \/ SetModuleLevel(t)
         \/ (\E s \in DOMAIN Statements : Reach(t, s))
         \/ RegisterSite(t) \/ CheckModule(t) \/ CheckSite(t) \/ MakeLine(t)
    \/ \E level \in AllLevels :
         \/ \E s \in DOMAIN Statements : SetSiteLevel(s, level)
         \/ \E files \in FilePatterns : SetFileLevel(files, level)
         \/ SetAllSitesLevel(level)

LevelSpec == LevelInit /\ [][LevelNext]_levelVars

-----------------------------------------------------------------------------
(* The registries agree with themselves while threads look up, create and    *)
(* configure at once: a level for all modules, set while nobody else sets    *)
(* one, is that of every module, those created meanwhile included; a name    *)
(* has one module; and each statement has its own site                       *)
(* (set_all_modules_level, get_module, register_site).                       *)
LevelsAgree ==
    /\ settled # Absent => genericLevel = settled /\ \A m \in DOMAIN moduleLevel : moduleLevel[m] = settled
    /\ \A a \in associated : modules[a[1]] = a[2]
    /\ \A a, b \in ModuleNames : modules[a] = modules[b] /\ a # b => modules[a] = Absent
    /\ \A s \in DOMAIN site : site[s] # 0 => sites[site[s]].stmt = s
    /\ Len(sites) = Cardinality({s \in DOMAIN site : site[s] # 0})
=============================================================================
