CONSTANTS
  MaxBuilds = 3
SPECIFICATION Spec
INVARIANTS TypeOK ModuleIsOwn OneRuntime ReflectionDiagnosticsOnly
PROPERTIES ImplementsGateFour
