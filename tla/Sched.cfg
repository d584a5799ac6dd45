SPECIFICATION MCSpec
CONSTANT Colls <- MCColls
INVARIANTS ResultsAreCorrect MessagesFit NoStrayMessages BarrierSynchronises LengthErrors
PROPERTY SendBuffersAreStable
