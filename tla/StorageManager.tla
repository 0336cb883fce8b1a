--------------------------- MODULE StorageManager ---------------------------
(* The catalog of tables and views (StorageManager) as the statements of      *)
(* several sessions, the import operators and the console use it.  A table is *)
(* a number, a view is the plan it stands for; plans are objects, because     *)
(* whoever gets one rewrites it in place.                                     *)
EXTENDS Naturals, Sequences, FiniteSets, TLC

CONSTANTS Names, Sessions,
          MaxTables, MaxPlans,  \* bounds on the objects that are made
          NoStatement

VARIABLES _tables, _views,  \* name -> table, name -> plan
          plans,            \* what each plan says: the number of times it was rewritten
          table_count,      \* the tables made so far
          session,          \* what each session is doing
          failed            \* the sessions whose last statement threw

catalogVars == <<_tables, _views, plans, table_count, session, failed>>

With(map, name, value) == (name :> value) @@ map
Without(map, name) == [n \in (DOMAIN map) \ {name} |-> map[n]]

InitCatalog ==
  /\ _tables = <<>> /\ _views = <<>> /\ plans = <<>> /\ table_count = 0
  /\ session = [s \in Sessions |-> NoStatement]
  /\ failed = {}

---------------------------------------------------------------------------
has_table(name) == name \in DOMAIN _tables
has_view(name) == name \in DOMAIN _views

\* The operations of the catalog: what they need, and the map they leave.
add_table_allowed(name) == ~has_table(name) /\ ~has_view(name)


add_lqp_view_allowed(name) == ~has_table(name) /\ ~has_view(name)
drop_table(name) == Without(_tables, name)
drop_lqp_view(name) == Without(_views, name)

Succeed(s) == failed' = failed \ {s}
Fail(s) == failed' = failed \cup {s}
Idle(s) == session[s] = NoStatement
EndStatement(s) == session' = [session EXCEPT ![s] = NoStatement]

\* A plan as the statement made it, or a deep copy of another one.
NewPlan(says) == plans' = Append(plans, says)
LastPlan == Len(plans)
deep_copy_of(plan) == NewPlan(plans[plan])

---------------------------------------------------------------------------
\* ImportCsv and ImportBinary return the table of that name if there is one, and otherwise read the file first.
ImportCsv(s, name) ==
  /\ Idle(s) /\ table_count < MaxTables
  /\ IF has_table(name) THEN EndStatement(s) /\ Succeed(s)
     ELSE session' = [session EXCEPT ![s] = [doing |-> "import", name |-> name]] /\ UNCHANGED failed
  /\ UNCHANGED <<_tables, _views, plans, table_count>>

add_table(s) ==
  /\ ~Idle(s) /\ session[s].doing = "import"
  /\ table_count' = table_count + 1
  /\ IF add_table_allowed(session[s].name)
     THEN _tables' = With(_tables, session[s].name, table_count') /\ Succeed(s)
     ELSE Fail(s) /\ UNCHANGED _tables
  /\ EndStatement(s)
  /\ UNCHANGED <<_views, plans>>

\* Console::_load_table replaces a table, unless the name is that of a view.
_load_table(s, name) ==
  /\ Idle(s) /\ table_count < MaxTables
  /\ table_count' = table_count + 1
  /\ IF has_view(name) THEN Fail(s) /\ UNCHANGED _tables
     ELSE _tables' = With(drop_table(name), name, table_count') /\ Succeed(s)
  /\ UNCHANGED <<_views, plans, session>>

\* The operators CreateView and DropView.  The catalog keeps the plan the statement made.
CreateView(s, name) ==
  /\ Idle(s) /\ LastPlan < MaxPlans
  /\ NewPlan(0)
  /\ IF add_lqp_view_allowed(name) THEN _views' = With(_views, name, LastPlan + 1) /\ Succeed(s)
     ELSE Fail(s) /\ UNCHANGED _views
  /\ UNCHANGED <<_tables, table_count, session>>

DropView(s, name) ==
  /\ Idle(s)
  /\ IF has_view(name) THEN _views' = drop_lqp_view(name) /\ Succeed(s)
     ELSE Fail(s) /\ UNCHANGED _views
  /\ UNCHANGED <<_tables, plans, table_count, session>>

\* A statement that uses a name: a view is copied into the plan, a table is referred to by its name.
get_view(s, name) ==
  /\ Idle(s) /\ LastPlan < MaxPlans /\ has_view(name)
  /\ deep_copy_of(_views[name])
  /\ session' = [session EXCEPT ![s] = [doing |-> "select", name |-> name, plan |-> LastPlan + 1]]
  /\ Succeed(s)
  /\ UNCHANGED <<_tables, _views, table_count>>

get_table(s, name) ==
  /\ Idle(s)
  /\ IF has_table(name)
     THEN session' = [session EXCEPT ![s] = [doing |-> "scan", name |-> name, table |-> _tables[name]]] /\ Succeed(s)
     ELSE Fail(s) /\ UNCHANGED session
  /\ UNCHANGED <<_tables, _views, plans, table_count>>

\* The optimizer rewrites the plan of the statement.
Rewrite(s) ==
  /\ ~Idle(s) /\ session[s].doing = "select"
  /\ plans' = [plans EXCEPT ![session[s].plan] = @ + 1]
  /\ EndStatement(s)
  /\ UNCHANGED <<_tables, _views, table_count, failed>>

EndScan(s) ==
  /\ ~Idle(s) /\ session[s].doing = "scan"
  /\ EndStatement(s)
  /\ UNCHANGED <<_tables, _views, plans, table_count, failed>>

-----------------------------------------------------------------------------
(* Loading and unloading of plugins (PluginManager) with a plugin that keeps  *)
(* a table in the catalog while it runs (TestPlugin).                         *)

CONSTANTS Libraries,    \* [file, exports]: a library, and whether it exports a factory
          Paths,        \* [name, library]: the name of a plugin comes from its path
          DummyTable,
          MaxHandles    \* bound on the handles dlopen gives out

VARIABLES _plugins,  \* name -> library of the loaded plugins
          handles,   \* the handles dlopen gave out and dlclose did not get back
          running,   \* the plugins that were started and not stopped
          terminated \* an exception left a destructor

pluginVars == <<_plugins, handles, running, terminated>>

InitPlugins == _plugins = <<>> /\ handles = [l \in Libraries |-> 0] /\ running = {} /\ terminated = FALSE

\* TestPlugin::start and stop, with what the catalog asserts.
start_allowed == add_table_allowed(DummyTable)
stop_allowed == has_table(DummyTable)

start(library) ==
  IF start_allowed
  THEN /\ running' = running \cup {library}
       /\ table_count' = table_count + 1
       /\ _tables' = With(_tables, DummyTable, table_count')
  ELSE UNCHANGED <<running, table_count, _tables>>

_is_duplicate(library) == \E name \in DOMAIN _plugins : _plugins[name] = library

\* A plugin is registered before it is started; a failed assertion leaves the library open.
load_plugin(path) ==
  /\ ~terminated /\ handles[path.library] < MaxHandles /\ table_count < MaxTables
  /\ IF path.name \in DOMAIN _plugins THEN UNCHANGED <<_plugins, handles, running, table_count, _tables>>
     ELSE /\ handles' = [handles EXCEPT ![path.library] = @ + 1]
          /\ IF ~path.library.exports \/ _is_duplicate(path.library)
             THEN UNCHANGED <<_plugins, running, table_count, _tables>>
             ELSE _plugins' = With(_plugins, path.name, path.library) /\ start(path.library)
  /\ UNCHANGED <<terminated, _views, plans, session, failed>>

\* stop, dlclose, erase: nothing more happens when stop throws.
_unload_erase_plugin(name) ==
  IF stop_allowed
  THEN /\ running' = running \ {_plugins[name]}
       /\ _tables' = drop_table(DummyTable)
       /\ handles' = [handles EXCEPT ![_plugins[name]] = @ - 1]
       /\ _plugins' = Without(_plugins, name)
  ELSE UNCHANGED <<running, _tables, handles, _plugins>>

unload_plugin(name) ==
  /\ ~terminated /\ name \in DOMAIN _plugins
  /\ _unload_erase_plugin(name)
  /\ UNCHANGED <<terminated, _views, plans, table_count, session, failed>>

\* The destructor unloads one plugin after the other; an exception ends the process.
_clean_up ==
  /\ ~terminated /\ _plugins # <<>>
  /\ \E name \in DOMAIN _plugins : _unload_erase_plugin(name)
  /\ terminated' = ~stop_allowed
  /\ UNCHANGED <<_views, plans, table_count, session, failed>>

\* The assignment drops the map of plugins: nobody stops them.
reset ==
  /\ ~terminated
  /\ _plugins' = <<>>
  /\ UNCHANGED <<handles, running, terminated, catalogVars>>

=============================================================================
