---------------------------- MODULE SettingsSchemas ----------------------------
(***************************************************************************)
(* The forms of the new simulation tab: a schema per method (views/        *)
(* new_simulation_tab/settings_widgets) and the widget that edits one; and *)
(* what the factories of application and library make of the settings.     *)
(***************************************************************************)
EXTENDS Settings

CONSTANT Seeds,  \* what a random seed may come out as
         Files   \* names of files with an initial system

ASSUME SchemaAssumption == Seeds \subseteq Numbers /\ Seeds # {}

Editor(type, min) == [type |-> type, min |-> min]

\* limits: zero, smallest_greater_than_zero, particle_count_min, random_min.
FromZero == Editor("Double", 0)
Positive == Editor("Double", 1)
Count    == Editor("Int", 1)
Seed     == Editor("RandomInt", 0)
Path     == Editor("FilePath", 0)

NormalSphereSchema ==
  [Seed |-> Seed, ParticleCount |-> Count, PositionStdDev |-> Positive,
   VelocityStdDev |-> FromZero, MassMean |-> Positive, MassStdDev |-> Positive]

\* Faulty variant: the editor of the side length goes down to zero.
UniformCubeFromZero ==
  [Seed |-> Seed, ParticleCount |-> Count, SideLength |-> FromZero,
   InitialVelocity |-> FromZero, TotalMass |-> Positive]

UniformCubeSchema ==
  [Seed |-> Seed, ParticleCount |-> Count, SideLength |-> Positive,
   InitialVelocity |-> FromZero, TotalMass |-> Positive]

UniformSphereSchema ==
  [Seed |-> Seed, ParticleCount |-> Count, Radius |-> Positive,
   InitialVelocity |-> FromZero, TotalMass |-> Positive]

PlummerSphereSchema ==
  [Seed |-> Seed, ParticleCount |-> Count, Radius |-> Positive,
   InitialVelocity |-> FromZero, TotalMass |-> Positive]

SpiralGalaxySchema ==
  [Seed |-> Seed, ParticleCount |-> Count, NumArms |-> Editor("Int", 2), Radius |-> Positive,
   TotalMass |-> Positive, Twist |-> Positive, BlackHoleMass |-> Positive]

CollisionModelSchema ==
  [Seed |-> Seed, ImpactParameter |-> FromZero, RelativeVelocity |-> FromZero,
   ParticleCount1 |-> Count, SphereRadius1 |-> Positive, TotalMass1 |-> Positive,
   ParticleCount2 |-> Count, SphereRadius2 |-> Positive, TotalMass2 |-> Positive]

FileSchema     == [FilePath |-> Path]
EulerSchema    == [TimeStep |-> Positive, Softening |-> Positive]
LeapfrogSchema == [TimeStep |-> Positive, Softening |-> Positive]
HermiteSchema  == [TimeStep |-> Positive, Softening |-> Positive]
HitsSchema     == [TimeStepParam |-> Positive, Softening |-> Positive]
BarnesHutLeapfrogSchema == [TimeStep |-> Positive, ThetaMac |-> Positive, Softening |-> Positive]

Schemas ==
  [NormalSphere |-> NormalSphereSchema, UniformCube |-> UniformCubeSchema,
   UniformSphere |-> UniformSphereSchema, PlummerSphere |-> PlummerSphereSchema,
   SpiralGalaxy |-> SpiralGalaxySchema, CollisionModel |-> CollisionModelSchema,
   File |-> FileSchema, Euler |-> EulerSchema, Leapfrog |-> LeapfrogSchema,
   Hermite |-> HermiteSchema, Hits |-> HitsSchema,
   BarnesHutLeapfrog |-> BarnesHutLeapfrogSchema]

EditorOf(key) == Schemas[key[1]][key[2]]
-----------------------------------------------------------------------------
(* SettingsWidget: a form holds what each of its editors shows.            *)

TypeOf(editor) == CASE editor.type = "Double" -> "double"
                    [] editor.type = "FilePath" -> "string" [] OTHER -> "int"

\* What the user can enter: the least and a large number, a file or none.
Range(editor) == IF editor.type = "FilePath" THEN Files \cup {""} ELSE {editor.min, 3}

\* A form as setSchema leaves it: the seed is random, a path empty.
NewForms(method) ==
  LET Shown(key, seed) == CASE EditorOf(key).type = "RandomInt" -> seed
                            [] EditorOf(key).type = "FilePath"  -> ""
                            [] OTHER -> Ordinary
  IN  {[k \in KeysOf(method) |-> Shown(k, seed)] : seed \in Seeds}

GetSettings(form) == Object([k \in DOMAIN form |-> Variant(TypeOf(EditorOf(k)), form[k])])

\* setSettings throws at a value of another type than the editor's.
Readable(method, settings) ==
  \A k \in KeysOf(method) : Has(settings, k) => Gets(settings, k, TypeOf(EditorOf(k)))

\* An editor takes the value that its range has nearest.
Clamp(editor, value) ==
  IF editor.type # "FilePath" /\ value < editor.min THEN editor.min ELSE value

SetSettings(form, settings) ==
  [k \in DOMAIN form |-> IF Has(settings, k) THEN Clamp(EditorOf(k), Get(settings, k))
                         ELSE form[k]]
-----------------------------------------------------------------------------
(* What the factories read, and what isValid() demands of it.              *)

Demand(type, from) == [type |-> type, from |-> from]
AnyInt      == Demand("int", 0)
PositiveInt == Demand("int", 1)
AnyReal     == Demand("double", 0)
PositiveReal == Demand("double", 1)

NormalSphereSettings ==
  [Seed |-> AnyInt, ParticleCount |-> PositiveInt, PositionStdDev |-> PositiveReal,
   VelocityStdDev |-> PositiveReal, MassMean |-> PositiveReal, MassStdDev |-> PositiveReal]

UniformCubeSettings ==
  [Seed |-> AnyInt, ParticleCount |-> PositiveInt, SideLength |-> PositiveReal,
   InitialVelocity |-> AnyReal, TotalMass |-> PositiveReal]

UniformSphereSettings ==
  [Seed |-> AnyInt, ParticleCount |-> PositiveInt, Radius |-> PositiveReal,
   InitialVelocity |-> AnyReal, TotalMass |-> PositiveReal]

PlummerSphereSettings ==
  [Seed |-> AnyInt, ParticleCount |-> PositiveInt, Radius |-> PositiveReal,
   TotalMass |-> PositiveReal]

SpiralGalaxySettings ==
  [Seed |-> AnyInt, ParticleCount |-> PositiveInt, NumArms |-> PositiveInt,
   Radius |-> PositiveReal, TotalMass |-> PositiveReal, Twist |-> PositiveReal,
   BlackHoleMass |-> PositiveReal]

CollisionModelSettings ==
  [Seed |-> AnyInt, ImpactParameter |-> AnyReal, RelativeVelocity |-> AnyReal,
   ParticleCount1 |-> PositiveInt, SphereRadius1 |-> PositiveReal, TotalMass1 |-> PositiveReal,
   ParticleCount2 |-> PositiveInt, SphereRadius2 |-> PositiveReal, TotalMass2 |-> PositiveReal]

EulerSettings    == [TimeStep |-> PositiveReal, Softening |-> PositiveReal]
LeapfrogSettings == [TimeStep |-> PositiveReal, Softening |-> PositiveReal]
HermiteSettings  == [TimeStep |-> PositiveReal, Softening |-> PositiveReal]
HitsSettings     == [TimeStepParam |-> PositiveReal, Softening |-> PositiveReal]
BarnesHutLeapfrogSettings ==
  [TimeStep |-> PositiveReal, ThetaMac |-> AnyReal, Softening |-> PositiveReal]

Demands ==
  [NormalSphere |-> NormalSphereSettings, UniformCube |-> UniformCubeSettings,
   UniformSphere |-> UniformSphereSettings, PlummerSphere |-> PlummerSphereSettings,
   SpiralGalaxy |-> SpiralGalaxySettings, CollisionModel |-> CollisionModelSettings,
   Euler |-> EulerSettings, Leapfrog |-> LeapfrogSettings, Hermite |-> HermiteSettings,
   Hits |-> HitsSettings, BarnesHutLeapfrog |-> BarnesHutLeapfrogSettings]

\* Neither get() throws nor isValid() is false, and there is such a method.
Accepts(settings, methodKey) ==
  /\ Gets(settings, methodKey, methodKey[2])
  /\ Get(settings, methodKey) \in DOMAIN Demands
  /\ LET method == Get(settings, methodKey)
     IN  \A p \in DOMAIN Demands[method] :
           /\ Gets(settings, <<method, p>>, Demands[method][p].type)
           /\ Get(settings, <<method, p>>) >= Demands[method][p].from

MakesGenerator(settings) == Accepts(settings, GenerationMethod)
MakesSimulator(settings) == Accepts(settings, SimulationMethod)
=============================================================================
